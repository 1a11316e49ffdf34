------------------------- MODULE StreamBreaksProofs -------------------------
(***************************************************************************)
(* Proofs about StreamBreaks: the queue of offsets is what the publishing  *)
(* loop takes it for, and it implements the labelled stream of             *)
(* BreakContract, for any geometries, packets and buffer sizes.            *)
(*                                                                         *)
(* A geometry announced at an index is a function of the breaks at and     *)
(* before it (WordAt).  What appending, trimming, merging and reporting do *)
(* to that function is stated for sequences of breaks; the actions then    *)
(* follow from it.                                                         *)
(***************************************************************************)
EXTENDS StreamBreaks, SequenceTheorems, FiniteSetTheorems, WellFoundedInduction, TLAPS

News(breaks) == {i \in 1..Len(breaks) : breaks[i].kind # "gap"}
Announces(breaks) == News(breaks) # {}

\* A gap is nothing but a gap, and what is announced was declared.
Sound(breaks) ==
  \A i \in 1..Len(breaks) :
    IF breaks[i].kind = "gap" THEN breaks[i].geo = NoGeometry ELSE Declared(breaks[i].geo)

\* The first geometry is initial unless one was told before, and no later one is.
InitialIn(breaks, told) ==
  \A i \in 1..Len(breaks) : breaks[i].kind # "gap" =>
    (breaks[i].kind = "initial" <=> ~told /\ \A j \in 1..(i - 1) : breaks[j].kind = "gap")

Rising(breaks) == \A i, j \in 1..Len(breaks) : i < j => breaks[i].at <= breaks[j].at
Within(breaks, most) == \A i \in 1..Len(breaks) : breaks[i].at <= most
GapIn(breaks, at) == \E i \in 1..Len(breaks) : breaks[i].kind = "gap" /\ breaks[i].at = at

\* Breaks in their order, at most at `most`, for a stream in which told says whether
\* a geometry was announced before them.
InQueue(p, told, most) ==
  /\ p \in Seq(Break) /\ Sound(p) /\ Rising(p) /\ Within(p, most) /\ InitialIn(p, told)

\* What was reported lies behind what is queued, and behind the samples of the call.
SinkIsBehind ==
  \A i \in 1..Len(sink) :
    /\ sink[i].at < produced + Len(copied)
    /\ \A j \in 1..Len(pending_breaks) : sink[i].at < produced + pending_breaks[j].at

PublishedIsLast ==
  published_geometry = WordAt(sink, produced + Len(copied), NoGeometry)

EpochIsLast ==
  epoch = WordAt(pending_breaks, Len(copied) + Len(sample_buffer), published_geometry)

\* A detector that has forgotten the stream is no loss: the gap is queued, or no
\* sample came before.
ForgottenIsFlagged ==
  last_end = <<>> =>
    \/ produced + Len(copied) + Len(sample_buffer) = 0
    \/ GapIn(pending_breaks, Len(copied) + Len(sample_buffer))

\* What is announced, or is held to be announced, at output index k.
Ann(k) == WordAt(pending_breaks, k - produced, WordAt(sink, k, NoGeometry))
Hole(k) == k > 0 /\ (GapIn(sink, k) \/ GapIn(pending_breaks, k - produced))

CallsAreInStep ==
  /\ produced = Len(out)
  /\ pc # "publish" => copied = <<>>

Inv ==
  /\ TypeOK /\ CallsAreInStep
  /\ InQueue(sink, FALSE, produced + Len(copied))
  /\ InQueue(pending_breaks, Announces(sink), Len(copied) + Len(sample_buffer))
  /\ SinkIsBehind
  /\ PublishedIsLast /\ EpochIsLast /\ ForgottenIsFlagged
-----------------------------------------------------------------------------
(***************************************************************************)
(* Sets of indices, and what is picked of a sequence.                      *)
(***************************************************************************)
LEMMA EarliestExists ==
  ASSUME NEW I \in SUBSET Nat, I # {}
  PROVE  \E i \in I : \A j \in I : i <= j
<1>1. PICK i \in I : \A j \in I : ~(<<j, i>> \in OpToRel(<, Nat))
  BY NatLessThanWellFounded, WFMin
<1>2. \A j \in I : ~(j < i)
  BY <1>1 DEF OpToRel
<1> QED
  BY <1>2

LEMMA LatestExists ==
  ASSUME NEW n \in Nat, NEW I \in SUBSET (1..n), I # {}
  PROVE  \E i \in I : \A j \in I : j <= i
<1> DEFINE K == {k \in Nat : \A j \in I : j <= k}
<1>1. n \in K
  OBVIOUS
<1>2. PICK k \in K : \A m \in K : k <= m
  BY <1>1, EarliestExists
<1>3. CASE k \in I
  BY <1>2, <1>3
<1>4. CASE k \notin I
  <2>1. \A j \in I : j <= k /\ j # k /\ j \in Nat
    BY <1>2, <1>4
  <2>2. PICK j \in I : TRUE
    OBVIOUS
  <2>3. k - 1 \in Nat /\ k \in Nat
    BY <1>2, <2>1, <2>2
  <2>4. \A x \in I : x <= k - 1
    BY <2>1, <2>3
  <2>5. k <= k - 1
    BY <1>2, <2>3, <2>4
  <2> QED
    BY <2>3, <2>5
<1> QED
  BY <1>3, <1>4

LEMMA LatestIs ==
  ASSUME NEW n \in Nat, NEW I \in SUBSET (1..n), I # {}
  PROVE  Latest(I) \in I /\ \A j \in I : j <= Latest(I)
BY LatestExists DEF Latest

LEMMA LatestOnly ==
  ASSUME NEW n \in Nat, NEW I \in SUBSET (1..n), NEW i \in I, \A j \in I : j <= i
  PROVE  Latest(I) = i
<1>1. Latest(I) \in I /\ \A j \in I : j <= Latest(I)
  BY LatestIs
<1>2. Latest(I) <= i /\ i <= Latest(I)
  BY <1>1
<1>3. i \in 1..n /\ Latest(I) \in 1..n
  BY <1>1
<1> QED
  BY <1>2, <1>3

Rank(I, i) == Cardinality({k \in I : k < i})

\* How many of I come before: counted one by one.
LEMMA RankIs ==
  ASSUME NEW n \in Nat, NEW I \in SUBSET (1..n)
  PROVE  /\ Cardinality(I) \in Nat
         /\ \A i \in I : Rank(I, i) \in Nat /\ Rank(I, i) < Cardinality(I)
         /\ \A i, j \in I : i < j => Rank(I, i) < Rank(I, j)
         /\ \A i, j \in I : i < j /\ (\A k \in I : k < j => k <= i) => Rank(I, j) = Rank(I, i) + 1
         /\ \A i \in I : (\A k \in I : k <= i) => Cardinality(I) = Rank(I, i) + 1
         /\ \A i \in I : (\A k \in I : i <= k) => Rank(I, i) = 0
<1> DEFINE Before(i) == {k \in I : k < i}
<1>1. /\ IsFiniteSet(I) /\ Cardinality(I) \in Nat
      /\ \A i \in I : i \in Nat /\ i \notin Before(i) /\ IsFiniteSet(Before(i)) /\ Rank(I, i) \in Nat
  <2>1. IsFiniteSet(1..n)
    BY FS_Interval
  <2>2. IsFiniteSet(I)
    BY <2>1, FS_Subset
  <2>3. \A i \in I : IsFiniteSet(Before(i))
    BY <2>2, FS_Subset
  <2> QED
    BY <2>2, <2>3, FS_CardinalityType DEF Rank
<1>2. \A i \in I : Cardinality(Before(i) \cup {i}) = Rank(I, i) + 1
                  /\ IsFiniteSet(Before(i) \cup {i})
  <2> TAKE i \in I
  <2>1. Cardinality(Before(i)) = Rank(I, i)
    BY DEF Rank
  <2>2. IsFiniteSet(Before(i)) /\ i \notin Before(i)
    BY <1>1
  <2> HIDE DEF Before
  <2> QED
    BY <2>1, <2>2, FS_AddElement
<1>o. /\ \A i, j \in I : i < j \/ j < i \/ i = j
      /\ \A i, j \in I : i <= j <=> i < j \/ i = j
      /\ \A i, j \in I : i < j => ~(j <= i)
      /\ \A i, j, k \in I : i < j /\ k < i => k < j
  <2> SUFFICES ASSUME NEW i \in 1..n, NEW j \in 1..n, NEW k \in 1..n
               PROVE  /\ i < j \/ j < i \/ i = j
                      /\ i <= j <=> i < j \/ i = j
                      /\ i < j => ~(j <= i)
                      /\ i < j /\ k < i => k < j
    OBVIOUS
  <2> QED
    OBVIOUS
<1>3. \A i, j \in I : i < j => Before(i) \cup {i} \subseteq Before(j)
  BY <1>o, Zenon
<1>4. \A i, j \in I : i < j /\ (\A k \in I : k < j => k <= i) => Before(j) = Before(i) \cup {i}
  <2> SUFFICES ASSUME NEW i \in I, NEW j \in I, i < j, \A k \in I : k < j => k <= i
               PROVE  Before(j) = Before(i) \cup {i}
    OBVIOUS
  <2>1. \A k \in I : k < j => k < i \/ k = i
    BY <1>o
  <2>2. Before(j) \subseteq Before(i) \cup {i}
    BY <2>1
  <2> QED
    BY <2>2, <1>3, Zenon
<1>5. \A i \in I : (\A k \in I : k <= i) => I = Before(i) \cup {i}
  BY <1>o, Zenon
<1>6. \A i \in I : Before(i) \cup {i} \subseteq I
  OBVIOUS
<1>7. \A i \in I : (\A k \in I : i <= k) => Before(i) = {}
  BY <1>o, Zenon
<1>8. \A i \in I : Rank(I, i) = Cardinality(Before(i))
  BY DEF Rank
<1> HIDE DEF Before
<1>9. \A i \in I : Rank(I, i) < Cardinality(I)
  <2> TAKE i \in I
  <2>1. Cardinality(Before(i) \cup {i}) <= Cardinality(I)
    BY <1>1, <1>6, FS_Subset
  <2> QED
    BY <1>1, <1>2, <2>1
<1>10. \A i, j \in I : i < j => Rank(I, i) < Rank(I, j)
  <2> SUFFICES ASSUME NEW i \in I, NEW j \in I, i < j
               PROVE  Rank(I, i) < Rank(I, j)
    OBVIOUS
  <2>1. Cardinality(Before(i) \cup {i}) <= Cardinality(Before(j))
    BY <1>1, <1>3, FS_Subset
  <2> QED
    BY <1>1, <1>2, <1>8, <2>1
<1>11. \A i, j \in I : i < j /\ (\A k \in I : k < j => k <= i) => Rank(I, j) = Rank(I, i) + 1
  BY <1>2, <1>4, <1>8
<1>12. \A i \in I : (\A k \in I : k <= i) => Cardinality(I) = Rank(I, i) + 1
  BY <1>2, <1>5
<1>13. \A i \in I : (\A k \in I : i <= k) => Rank(I, i) = 0
  BY <1>7, <1>8, FS_EmptySet
<1> QED
  BY <1>1, <1>9, <1>10, <1>11, <1>12, <1>13

LEMMA PickedIs ==
  ASSUME NEW T, NEW s \in Seq(T), NEW I \in SUBSET (1..Len(s))
  PROVE  /\ Picked(s, I) \in Seq(T) /\ Len(Picked(s, I)) \in Nat
         /\ \E f \in [1..Len(Picked(s, I)) -> I] :
              /\ \A i \in 1..Len(Picked(s, I)) : Picked(s, I)[i] = s[f[i]]
              /\ \A i, j \in 1..Len(Picked(s, I)) : i < j <=> f[i] < f[j]
              /\ \A k \in I : \E i \in 1..Len(Picked(s, I)) : f[i] = k
<1> DEFINE n == Len(s)
           c == Cardinality(I)
           At(i) == CHOOSE j \in I : Cardinality({k \in I : k < j}) = i - 1
           f == [i \in 1..c |-> At(i)]
           p == Picked(s, I)
<1>0. n \in Nat /\ \A i \in 1..n : s[i] \in T
  OBVIOUS
<1> HIDE DEF n
<1>1. /\ c \in Nat
      /\ \A i \in I : Rank(I, i) \in Nat /\ Rank(I, i) < c
      /\ \A i, j \in I : i < j => Rank(I, i) < Rank(I, j)
      /\ \A i, j \in I : i < j /\ (\A k \in I : k < j => k <= i) => Rank(I, j) = Rank(I, i) + 1
      /\ \A i \in I : (\A k \in I : k <= i) => c = Rank(I, i) + 1
      /\ \A i \in I : (\A k \in I : i <= k) => Rank(I, i) = 0
  BY <1>0, RankIs DEF n
<1> HIDE DEF c
<1>2. ASSUME NEW i \in 1..c
      PROVE  \E j \in I : Rank(I, j) = i - 1
  <2> DEFINE K == {j \in I : Rank(I, j) >= i - 1}
  <2>1. I # {}
    <3>1. I = {} => c = 0
      BY FS_EmptySet DEF c
    <3> QED
      BY <1>1, <3>1
  <2>2. PICK last \in I : \A j \in I : j <= last
    BY <1>0, <2>1, LatestExists DEF n
  <2>3. c = Rank(I, last) + 1
    BY <1>1, <2>2
  <2>4. last \in K
    BY <1>1, <2>3
  <2>5. K \in SUBSET Nat
    <3>1. \A j \in I : j \in 1..n
      BY DEF n
    <3>2. \A j \in I : j \in Nat
      BY <3>1
    <3> QED
      BY <3>2, Zenon
  <2>6. PICK j \in K : \A m \in K : j <= m
    BY <2>4, <2>5, EarliestExists
  <2>7. CASE Rank(I, j) = i - 1
    BY <2>6, <2>7
  <2>8. CASE Rank(I, j) > i - 1
    <3> DEFINE B == {k \in I : k < j}
    <3>1. B # {}
      <4>1. SUFFICES ASSUME B = {} PROVE FALSE
        OBVIOUS
      <4>2. \A k \in I : j <= k
        BY <4>1, <2>6, <1>0 DEF n
      <4>3. Rank(I, j) = 0
        BY <1>1, <2>6, <4>2
      <4> QED
        BY <4>3, <2>8
    <3>2. B \in SUBSET (1..n)
      BY DEF n
    <3>3. PICK k \in B : \A m \in B : m <= k
      BY <1>0, <3>1, <3>2, LatestExists
    <3>4. k < j /\ k \in I /\ j \in I /\ \A m \in I : m < j => m <= k
      BY <3>3
    <3>5. Rank(I, j) = Rank(I, k) + 1
      BY <1>1, <3>4
    <3>6. k \in K
      BY <1>1, <2>8, <3>4, <3>5
    <3>7. k \in 1..n /\ j \in 1..n
      BY <3>4 DEF n
    <3> QED
      BY <2>6, <3>4, <3>6, <3>7
  <2> QED
    BY <1>1, <2>6, <2>7, <2>8
<1>3. \A i \in 1..c : f[i] \in I /\ Rank(I, f[i]) = i - 1
  <2> TAKE i \in 1..c
  <2>1. f[i] = CHOOSE j \in I : Rank(I, j) = i - 1
    BY DEF Rank
  <2> HIDE DEF f
  <2> QED
    BY <1>2, <2>1
<1>4. f \in [1..c -> I]
  BY <1>3
<1>5. p = [i \in 1..c |-> s[f[i]]]
  BY DEF Picked, c
<1> HIDE DEF f, p
<1>6. p \in [1..c -> T]
  BY <1>0, <1>3, <1>5 DEF n
<1>7. p \in Seq(T) /\ Len(p) = c
  BY <1>1, <1>6
<1>8. \A i, j \in 1..c : i < j <=> f[i] < f[j]
  <2> SUFFICES ASSUME NEW i \in 1..c, NEW j \in 1..c
               PROVE  i < j <=> f[i] < f[j]
    OBVIOUS
  <2>1. /\ f[i] \in I /\ f[j] \in I /\ f[i] \in 1..n /\ f[j] \in 1..n
        /\ Rank(I, f[i]) = i - 1 /\ Rank(I, f[j]) = j - 1
    BY <1>3 DEF n
  <2>2. /\ f[i] < f[j] => i - 1 < j - 1
        /\ f[j] < f[i] => j - 1 < i - 1
    BY <1>1, <2>1
  <2>3. f[i] = f[j] => i - 1 = j - 1
    BY <2>1
  <2> QED
    BY <2>1, <2>2, <2>3
<1>9. ASSUME NEW k \in I
      PROVE  \E i \in 1..c : f[i] = k
  <2> DEFINE i == Rank(I, k) + 1
  <2>1. i \in 1..c /\ i - 1 = Rank(I, k)
    BY <1>1
  <2>2. f[i] \in I /\ Rank(I, f[i]) = Rank(I, k)
    BY <1>3, <2>1
  <2>3. f[i] \in 1..n /\ k \in 1..n
    BY <2>2 DEF n
  <2> HIDE DEF i
  <2>4. ~(f[i] < k) /\ ~(k < f[i])
    <3>1. f[i] < k => Rank(I, f[i]) < Rank(I, k)
      BY <1>1, <2>2
    <3>2. k < f[i] => Rank(I, k) < Rank(I, f[i])
      BY <1>1, <2>2
    <3>3. Rank(I, k) \in Nat
      BY <1>1
    <3> QED
      BY <2>2, <3>1, <3>2, <3>3
  <2> QED
    BY <2>1, <2>3, <2>4
<1>10. \A i \in 1..c : p[i] = s[f[i]]
  BY <1>5
<1> QED
  BY <1>1, <1>4, <1>7, <1>8, <1>9, <1>10 DEF p
-----------------------------------------------------------------------------
(***************************************************************************)
(* Sequences of breaks.                                                    *)
(***************************************************************************)
LEMMA BreaksAre ==
  ASSUME NEW p \in Seq(Break)
  PROVE  /\ Len(p) \in Nat
         /\ \A i \in 1..Len(p) :
              /\ p[i] \in Break /\ p[i].at \in Nat /\ p[i].geo \in Geometry
              /\ p[i].kind \in {"gap", "initial", "retune"}
<1>1. \A i \in 1..Len(p) : p[i] \in Break
  OBVIOUS
<1>2. \A b \in Break : /\ b.at \in Nat /\ b.geo \in Geometry
                       /\ b.kind \in {"gap", "initial", "retune"}
  BY DEF Break
<1> QED
  BY <1>1, <1>2

LEMMA MovedBreak ==
  ASSUME NEW b \in Break, NEW a \in Nat
  PROVE  /\ [b EXCEPT !.at = a] \in Break
         /\ [b EXCEPT !.at = a].at = a /\ [b EXCEPT !.at = a].kind = b.kind
         /\ [b EXCEPT !.at = a].geo = b.geo
BY DEF Break

LEMMA WordIs ==
  ASSUME NEW p, Len(p) \in Nat, NEW k, NEW before, NEW i \in 1..Len(p),
         p[i].kind # "gap", p[i].at <= k,
         \A j \in 1..Len(p) : j > i /\ p[j].kind # "gap" => ~(p[j].at <= k)
  PROVE  WordAt(p, k, before) = p[i].geo
<1> DEFINE news == {j \in 1..Len(p) : p[j].kind # "gap" /\ p[j].at <= k}
<1>1. news \in SUBSET (1..Len(p)) /\ i \in news /\ \A j \in news : j <= i
  OBVIOUS
<1>2. Latest(news) = i
  BY <1>1, LatestOnly
<1>3. WordAt(p, k, before) = IF news = {} THEN before ELSE p[Latest(news)].geo
  BY DEF WordAt
<1> HIDE DEF news
<1> QED
  BY <1>1, <1>2, <1>3

LEMMA WordIsBefore ==
  ASSUME NEW p, NEW k, NEW before,
         \A j \in 1..Len(p) : p[j].kind # "gap" => ~(p[j].at <= k)
  PROVE  WordAt(p, k, before) = before
<1> DEFINE news == {j \in 1..Len(p) : p[j].kind # "gap" /\ p[j].at <= k}
<1>1. news = {}
  OBVIOUS
<1>2. WordAt(p, k, before) = IF news = {} THEN before ELSE p[Latest(news)].geo
  BY DEF WordAt
<1> HIDE DEF news
<1> QED
  BY <1>1, <1>2

IsWord(p, k, i) ==
  /\ i \in 1..Len(p) /\ p[i].kind # "gap" /\ p[i].at <= k
  /\ \A j \in 1..Len(p) : j > i /\ p[j].kind # "gap" => ~(p[j].at <= k)

LEMMA WordExists ==
  ASSUME NEW p, Len(p) \in Nat, NEW k
  PROVE  \/ \A j \in 1..Len(p) : p[j].kind # "gap" => ~(p[j].at <= k)
         \/ \E i \in 1..Len(p) : IsWord(p, k, i)
<1> DEFINE news == {j \in 1..Len(p) : p[j].kind # "gap" /\ p[j].at <= k}
<1>1. CASE news = {}
  BY <1>1
<1>2. CASE news # {}
  <2>1. PICK i \in news : \A j \in news : j <= i
    BY <1>2, LatestExists
  <2>2. \A j \in 1..Len(p) : j > i /\ p[j].kind # "gap" => ~(p[j].at <= k)
    BY <2>1
  <2> QED
    BY <2>1, <2>2 DEF IsWord
<1> QED
  BY <1>1, <1>2

\* What WordAt is, without a set: nothing is news, or the last that is.
LEMMA WordCases ==
  ASSUME NEW p, Len(p) \in Nat, NEW k, NEW before
  PROVE  \/ /\ \A j \in 1..Len(p) : p[j].kind # "gap" => ~(p[j].at <= k)
            /\ WordAt(p, k, before) = before
         \/ \E i \in 1..Len(p) : IsWord(p, k, i) /\ WordAt(p, k, before) = p[i].geo
<1>1. \A i \in 1..Len(p) : IsWord(p, k, i) => WordAt(p, k, before) = p[i].geo
  BY WordIs DEF IsWord
<1> QED
  BY <1>1, WordExists, WordIsBefore

Joined(p, q, r) ==
  /\ Len(p) \in Nat /\ Len(q) \in Nat /\ Len(r) = Len(p) + Len(q)
  /\ \A i \in 1..Len(p) : r[i] = p[i]
  /\ \A i \in 1..Len(r) : i > Len(p) => r[i] = q[i - Len(p)]

LEMMA JoinedIs ==
  ASSUME NEW T, NEW p \in Seq(T), NEW q \in Seq(T)
  PROVE  p \o q \in Seq(T) /\ Joined(p, q, p \o q)
<1> DEFINE r == p \o q
<1>1. /\ Len(p) \in Nat /\ Len(q) \in Nat /\ r \in Seq(T) /\ Len(r) = Len(p) + Len(q)
      /\ \A i \in 1..Len(p) + Len(q) : r[i] = IF i <= Len(p) THEN p[i] ELSE q[i - Len(p)]
  BY ConcatProperties
<1> HIDE DEF r
<1>2. Joined(p, q, r)
  BY <1>1 DEF Joined
<1> QED
  BY <1>1, <1>2 DEF r

Splits(p, q, r) ==
  /\ \A i \in 1..Len(p) : i \in 1..Len(r) /\ r[i] = p[i]
  /\ \A j \in 1..Len(q) : Len(p) + j \in 1..Len(r) /\ r[Len(p) + j] = q[j]
  /\ \A i \in 1..Len(r) :
       i \in 1..Len(p) \/ (i > Len(p) /\ \E j \in 1..Len(q) : i = Len(p) + j)

LEMMA JoinedSplits ==
  ASSUME NEW p, NEW q, NEW r, Joined(p, q, r)
  PROVE  Splits(p, q, r)
<1>1. \A j \in 1..Len(q) : Len(p) + j \in 1..Len(r) /\ Len(p) + j > Len(p) /\ (Len(p) + j) - Len(p) = j
  BY DEF Joined
<1>2. \A i \in 1..Len(r) : i > Len(p) => i - Len(p) \in 1..Len(q) /\ i = Len(p) + (i - Len(p))
  BY DEF Joined
<1>3. \A i \in 1..Len(r) : i \in 1..Len(p) \/ i > Len(p)
  BY DEF Joined
<1>4. \A i \in 1..Len(p) : i \in 1..Len(r) /\ r[i] = p[i]
  BY DEF Joined
<1>5. \A j \in 1..Len(q) : r[Len(p) + j] = q[j]
  BY <1>1 DEF Joined
<1> QED
  BY <1>1, <1>2, <1>3, <1>4, <1>5 DEF Splits

LEMMA JoinedWord ==
  ASSUME NEW p, NEW q, NEW r, Joined(p, q, r), NEW k, NEW before
  PROVE  WordAt(r, k, before) = WordAt(q, k, WordAt(p, k, before))
<1> DEFINE w == WordAt(p, k, before)
<1>0. Len(p) \in Nat /\ Len(q) \in Nat /\ Len(r) \in Nat
  BY DEF Joined
<1>s. Splits(p, q, r)
  BY JoinedSplits
<1> USE DEF Splits
<1>1. CASE \E j \in 1..Len(q) : IsWord(q, k, j) /\ WordAt(q, k, w) = q[j].geo
  <2>1. PICK j \in 1..Len(q) : IsWord(q, k, j) /\ WordAt(q, k, w) = q[j].geo
    BY <1>1
  <2>2. PICK i : i = Len(p) + j
    OBVIOUS
  <2>3. i \in 1..Len(r) /\ r[i] = q[j]
    BY <1>s, <2>2
  <2>4. ASSUME NEW x \in 1..Len(r), x > i, r[x].kind # "gap"
        PROVE  ~(r[x].at <= k)
    <3>1. ~(x \in 1..Len(p))
      BY <1>0, <2>2, <2>4
    <3>2. PICK y \in 1..Len(q) : x = Len(p) + y
      BY <1>s, <3>1
    <3>3. r[x] = q[y] /\ y > j
      BY <1>0, <1>s, <2>2, <2>4, <3>2
    <3> QED
      BY <2>1, <2>4, <3>3 DEF IsWord
  <2>5. r[i].kind # "gap" /\ r[i].at <= k
    BY <2>1, <2>3 DEF IsWord
  <2>6. WordAt(r, k, before) = r[i].geo
    BY <1>0, <2>3, <2>4, <2>5, WordIs
  <2> QED
    BY <2>1, <2>3, <2>6
<1>2. CASE /\ \A j \in 1..Len(q) : q[j].kind # "gap" => ~(q[j].at <= k)
           /\ WordAt(q, k, w) = w
  <2>1. CASE \E i \in 1..Len(p) : IsWord(p, k, i) /\ w = p[i].geo
    <3>1. PICK i \in 1..Len(p) : IsWord(p, k, i) /\ w = p[i].geo
      BY <2>1
    <3>2. i \in 1..Len(r) /\ r[i] = p[i]
      BY <1>s
    <3>3. ASSUME NEW x \in 1..Len(r), x > i, r[x].kind # "gap"
          PROVE  ~(r[x].at <= k)
      BY <1>s, <1>2, <3>1, <3>3, ZenonT(30) DEF IsWord
    <3>4. r[i].kind # "gap" /\ r[i].at <= k
      BY <3>1, <3>2 DEF IsWord
    <3>5. WordAt(r, k, before) = r[i].geo
      BY <1>0, <3>2, <3>3, <3>4, WordIs
    <3> QED
      BY <1>2, <3>1, <3>2, <3>5
  <2>2. CASE /\ \A j \in 1..Len(p) : p[j].kind # "gap" => ~(p[j].at <= k)
             /\ w = before
    <3>1. \A x \in 1..Len(r) : r[x].kind # "gap" => ~(r[x].at <= k)
      BY <1>s, <1>2, <2>2, ZenonT(30)
    <3> QED
      BY <1>2, <2>2, <3>1, WordIsBefore
  <2> QED
    BY <1>0, <2>1, <2>2, WordCases
<1> QED
  BY <1>0, <1>1, <1>2, WordCases

LEMMA JoinedFacts ==
  ASSUME NEW p, NEW q, NEW r, Joined(p, q, r)
  PROVE  /\ \A a : GapIn(r, a) <=> GapIn(p, a) \/ GapIn(q, a)
         /\ Sound(r) <=> Sound(p) /\ Sound(q)
         /\ Announces(r) <=> Announces(p) \/ Announces(q)
<1>s. Splits(p, q, r)
  BY JoinedSplits
<1> USE DEF Splits
<1>1. \A a : GapIn(r, a) <=> GapIn(p, a) \/ GapIn(q, a)
  <2> TAKE a
  <2>1. ASSUME GapIn(p, a) PROVE GapIn(r, a)
    BY <1>s, <2>1 DEF GapIn
  <2>2. ASSUME GapIn(q, a) PROVE GapIn(r, a)
    <3>1. PICK j \in 1..Len(q) : q[j].kind = "gap" /\ q[j].at = a
      BY <2>2 DEF GapIn
    <3>2. Len(p) + j \in 1..Len(r) /\ r[Len(p) + j] = q[j]
      BY <1>s
    <3> QED
      BY <3>1, <3>2 DEF GapIn
  <2>3. ASSUME GapIn(r, a) PROVE GapIn(p, a) \/ GapIn(q, a)
    <3>1. PICK i \in 1..Len(r) : r[i].kind = "gap" /\ r[i].at = a
      BY <2>3 DEF GapIn
    <3>2. CASE i \in 1..Len(p)
      BY <1>s, <3>1, <3>2 DEF GapIn
    <3>3. CASE \E j \in 1..Len(q) : i = Len(p) + j
      <4>1. PICK j \in 1..Len(q) : i = Len(p) + j
        BY <3>3
      <4>2. r[i] = q[j]
        BY <1>s, <4>1
      <4> QED
        BY <3>1, <4>2 DEF GapIn
    <3> QED
      BY <1>s, <3>2, <3>3
  <2> QED
    BY <2>1, <2>2, <2>3
<1>2. Sound(r) <=> Sound(p) /\ Sound(q)
  <2>1. ASSUME Sound(r) PROVE Sound(p)
    BY <1>s, <2>1 DEF Sound
  <2>2. ASSUME Sound(r) PROVE Sound(q)
    <3> SUFFICES ASSUME NEW j \in 1..Len(q)
                 PROVE  IF q[j].kind = "gap" THEN q[j].geo = NoGeometry ELSE Declared(q[j].geo)
      BY DEF Sound
    <3>1. Len(p) + j \in 1..Len(r) /\ r[Len(p) + j] = q[j]
      BY <1>s
    <3> QED
      BY <2>2, <3>1 DEF Sound
  <2>3. ASSUME Sound(p), Sound(q) PROVE Sound(r)
    <3> SUFFICES ASSUME NEW i \in 1..Len(r)
                 PROVE  IF r[i].kind = "gap" THEN r[i].geo = NoGeometry ELSE Declared(r[i].geo)
      BY DEF Sound
    <3>1. CASE i \in 1..Len(p)
      BY <1>s, <2>3, <3>1 DEF Sound
    <3>2. CASE \E j \in 1..Len(q) : i = Len(p) + j
      <4>1. PICK j \in 1..Len(q) : i = Len(p) + j
        BY <3>2
      <4>2. r[i] = q[j]
        BY <1>s, <4>1
      <4> QED
        BY <2>3, <4>2 DEF Sound
    <3> QED
      BY <1>s, <3>1, <3>2
  <2> QED
    BY <2>1, <2>2, <2>3
<1>3. Announces(r) <=> Announces(p) \/ Announces(q)
  <2>1. ASSUME Announces(p) PROVE Announces(r)
    BY <1>s, <2>1 DEF Announces, News
  <2>2. ASSUME Announces(q) PROVE Announces(r)
    <3>1. PICK j \in 1..Len(q) : q[j].kind # "gap"
      BY <2>2 DEF Announces, News
    <3>2. Len(p) + j \in 1..Len(r) /\ r[Len(p) + j] = q[j]
      BY <1>s
    <3> QED
      BY <3>1, <3>2 DEF Announces, News
  <2>3. ASSUME Announces(r) PROVE Announces(p) \/ Announces(q)
    <3>1. PICK i \in 1..Len(r) : r[i].kind # "gap"
      BY <2>3 DEF Announces, News
    <3>2. CASE i \in 1..Len(p)
      BY <1>s, <3>1, <3>2 DEF Announces, News
    <3>3. CASE \E j \in 1..Len(q) : i = Len(p) + j
      <4>1. PICK j \in 1..Len(q) : i = Len(p) + j
        BY <3>3
      <4>2. r[i] = q[j]
        BY <1>s, <4>1
      <4> QED
        BY <3>1, <4>2 DEF Announces, News
    <3> QED
      BY <1>s, <3>2, <3>3
  <2> QED
    BY <2>1, <2>2, <2>3
<1> QED
  BY <1>1, <1>2, <1>3

LEMMA JoinedOrder ==
  ASSUME NEW p, NEW q, NEW r, Joined(p, q, r)
  PROVE  /\ \A most : Within(r, most) <=> Within(p, most) /\ Within(q, most)
         /\ Rising(r) => Rising(p) /\ Rising(q)
         /\ Rising(p) /\ Rising(q)
              /\ (\A i \in 1..Len(p) : \A j \in 1..Len(q) : p[i].at <= q[j].at)
              => Rising(r)
<1>s. Splits(p, q, r)
  BY JoinedSplits
<1>n. Len(p) \in Nat /\ Len(q) \in Nat /\ Len(r) \in Nat
  BY DEF Joined
<1> USE DEF Splits
<1>1. \A most : Within(r, most) <=> Within(p, most) /\ Within(q, most)
  <2> TAKE most
  <2>1. ASSUME Within(r, most) PROVE Within(p, most)
    BY <1>s, <2>1 DEF Within
  <2>2. ASSUME Within(r, most) PROVE Within(q, most)
    <3> SUFFICES ASSUME NEW j \in 1..Len(q)
                 PROVE  q[j].at <= most
      BY DEF Within
    <3>1. Len(p) + j \in 1..Len(r) /\ r[Len(p) + j] = q[j]
      BY <1>s
    <3> QED
      BY <2>2, <3>1 DEF Within
  <2>3. ASSUME Within(p, most), Within(q, most) PROVE Within(r, most)
    BY <1>s, <2>3 DEF Within
  <2> QED
    BY <2>1, <2>2, <2>3
<1>2. ASSUME Rising(r) PROVE Rising(p)
  BY <1>s, <1>2 DEF Rising
<1>3. ASSUME Rising(r) PROVE Rising(q)
  <2> SUFFICES ASSUME NEW i \in 1..Len(q), NEW j \in 1..Len(q), i < j
               PROVE  q[i].at <= q[j].at
    BY DEF Rising
  <2>1. /\ Len(p) + i \in 1..Len(r) /\ r[Len(p) + i] = q[i]
        /\ Len(p) + j \in 1..Len(r) /\ r[Len(p) + j] = q[j]
    BY <1>s
  <2>2. Len(p) + i < Len(p) + j
    BY <1>n
  <2> QED
    BY <1>3, <2>1, <2>2 DEF Rising
<1>4. ASSUME Rising(p), Rising(q), \A i \in 1..Len(p) : \A j \in 1..Len(q) : p[i].at <= q[j].at
      PROVE  Rising(r)
  <2> SUFFICES ASSUME NEW i \in 1..Len(r), NEW j \in 1..Len(r), i < j
               PROVE  r[i].at <= r[j].at
    BY DEF Rising
  <2>1. CASE j \in 1..Len(p)
    <3>1. i \in 1..Len(p)
      BY <1>n, <2>1
    <3> QED
      BY <1>s, <1>4, <2>1, <3>1 DEF Rising
  <2>2. CASE j > Len(p)
    <3>1. PICK y \in 1..Len(q) : j = Len(p) + y
      BY <1>s, <1>n, <2>2
    <3>2. r[j] = q[y]
      BY <1>s, <3>1
    <3>3. CASE i \in 1..Len(p)
      BY <1>s, <1>4, <3>2, <3>3
    <3>4. CASE i > Len(p)
      <4>0. ~(i \in 1..Len(p))
        BY <1>n, <3>4
      <4>1. PICK x \in 1..Len(q) : i = Len(p) + x
        BY <1>s, <4>0
      <4>2. r[i] = q[x] /\ x < y
        BY <1>s, <1>n, <3>1, <4>1
      <4> QED
        BY <1>4, <3>2, <4>2 DEF Rising
    <3> QED
      BY <1>s, <3>3, <3>4
  <2> QED
    BY <1>s, <2>1, <2>2
<1> QED
  BY <1>1, <1>2, <1>3, <1>4

LEMMA JoinedInitial ==
  ASSUME NEW p, NEW q, NEW r, Joined(p, q, r), NEW told \in BOOLEAN
  PROVE  InitialIn(r, told) <=> InitialIn(p, told) /\ InitialIn(q, told \/ Announces(p))
<1>s. Splits(p, q, r)
  BY JoinedSplits
<1>n. Len(p) \in Nat /\ Len(q) \in Nat /\ Len(r) \in Nat
  BY DEF Joined
<1> USE DEF Splits
\* What comes before an element of either part.
<1>1. \A i \in 1..Len(p) :
        (\A j \in 1..(i - 1) : r[j].kind = "gap") <=> (\A j \in 1..(i - 1) : p[j].kind = "gap")
  <2> TAKE i \in 1..Len(p)
  <2>1. \A j \in 1..(i - 1) : j \in 1..Len(p) /\ r[j] = p[j]
    BY <1>s, <1>n
  <2> QED
    BY <2>1
<1>2. \A i \in 1..Len(q) :
        (\A j \in 1..(Len(p) + i - 1) : r[j].kind = "gap") <=>
          ~Announces(p) /\ \A j \in 1..(i - 1) : q[j].kind = "gap"
  <2> TAKE i \in 1..Len(q)
  <2>1. ASSUME \A j \in 1..(Len(p) + i - 1) : r[j].kind = "gap"
        PROVE  ~Announces(p) /\ \A j \in 1..(i - 1) : q[j].kind = "gap"
    <3>1. \A j \in 1..Len(p) : j \in 1..(Len(p) + i - 1) /\ r[j] = p[j]
      BY <1>s, <1>n
    <3>2. \A j \in 1..(i - 1) : j \in 1..Len(q) /\ Len(p) + j \in 1..(Len(p) + i - 1)
      BY <1>n
    <3>3. \A j \in 1..(i - 1) : r[Len(p) + j] = q[j]
      BY <1>s, <3>2
    <3> QED
      BY <2>1, <3>1, <3>2, <3>3 DEF Announces, News
  <2>2. ASSUME ~Announces(p), \A j \in 1..(i - 1) : q[j].kind = "gap",
               NEW j \in 1..(Len(p) + i - 1)
        PROVE  r[j].kind = "gap"
    <3>1. j \in 1..Len(r)
      BY <1>n, <1>s
    <3>2. CASE j \in 1..Len(p)
      BY <1>s, <2>2, <3>2 DEF Announces, News
    <3>3. CASE j > Len(p)
      <4>1. PICK y \in 1..Len(q) : j = Len(p) + y
        BY <1>s, <1>n, <3>1, <3>3
      <4>2. y \in 1..(i - 1)
        BY <1>n, <4>1
      <4> QED
        BY <1>s, <2>2, <4>1, <4>2
    <3> QED
      BY <1>s, <3>1, <3>2, <3>3
  <2> QED
    BY <2>1, <2>2
<1>3. ASSUME InitialIn(r, told) PROVE InitialIn(p, told)
  <2> SUFFICES ASSUME NEW i \in 1..Len(p), p[i].kind # "gap"
               PROVE  p[i].kind = "initial" <=> ~told /\ \A j \in 1..(i - 1) : p[j].kind = "gap"
    BY DEF InitialIn
  <2>1. i \in 1..Len(r) /\ r[i] = p[i]
    BY <1>s
  <2>2. r[i].kind = "initial" <=> ~told /\ \A j \in 1..(i - 1) : r[j].kind = "gap"
    BY <1>3, <2>1 DEF InitialIn
  <2> QED
    BY <1>1, <2>1, <2>2
<1>4. ASSUME InitialIn(r, told) PROVE InitialIn(q, told \/ Announces(p))
  <2> SUFFICES ASSUME NEW i \in 1..Len(q), q[i].kind # "gap"
               PROVE  q[i].kind = "initial" <=>
                        ~(told \/ Announces(p)) /\ \A j \in 1..(i - 1) : q[j].kind = "gap"
    BY DEF InitialIn
  <2>1. PICK x : x = Len(p) + i
    OBVIOUS
  <2>2. x \in 1..Len(r) /\ r[x] = q[i] /\ x - 1 = Len(p) + i - 1
    BY <1>s, <1>n, <2>1
  <2>3. q[i].kind = "initial" <=> ~told /\ \A j \in 1..(x - 1) : r[j].kind = "gap"
    BY <1>4, <2>2 DEF InitialIn
  <2> QED
    BY <1>2, <2>2, <2>3
<1>5. ASSUME InitialIn(p, told), InitialIn(q, told \/ Announces(p)) PROVE InitialIn(r, told)
  <2> SUFFICES ASSUME NEW x \in 1..Len(r), r[x].kind # "gap"
               PROVE  r[x].kind = "initial" <=> ~told /\ \A j \in 1..(x - 1) : r[j].kind = "gap"
    BY DEF InitialIn
  <2>1. CASE x \in 1..Len(p)
    BY <1>s, <1>1, <1>5, <2>1 DEF InitialIn
  <2>2. CASE x > Len(p)
    <3>1. PICK i \in 1..Len(q) : x = Len(p) + i
      BY <1>s, <1>n, <2>2
    <3>2. r[x] = q[i] /\ x - 1 = Len(p) + i - 1
      BY <1>s, <1>n, <3>1
    <3>3. q[i].kind = "initial" <=>
            ~(told \/ Announces(p)) /\ \A j \in 1..(i - 1) : q[j].kind = "gap"
      BY <1>5, <3>2 DEF InitialIn
    <3> QED
      BY <1>2, <3>2, <3>3
  <2> QED
    BY <1>s, <2>1, <2>2
<1> QED
  BY <1>3, <1>4, <1>5

\* The same breaks at other places.
Alike(p, r) ==
  /\ Len(p) \in Nat /\ Len(r) = Len(p)
  /\ \A i \in 1..Len(p) : r[i].kind = p[i].kind /\ r[i].geo = p[i].geo

LEMMA AlikeFacts ==
  ASSUME NEW p, NEW r, Alike(p, r)
  PROVE  /\ Sound(r) <=> Sound(p)
         /\ Announces(r) <=> Announces(p)
         /\ \A told \in BOOLEAN : InitialIn(r, told) <=> InitialIn(p, told)
<1>1. Sound(r) <=> Sound(p)
  BY DEF Alike, Sound
<1>2. Announces(r) <=> Announces(p)
  BY DEF Alike, Announces, News
<1>3. \A i \in 1..Len(p) :
        (\A j \in 1..(i - 1) : r[j].kind = "gap") <=> (\A j \in 1..(i - 1) : p[j].kind = "gap")
  <2> TAKE i \in 1..Len(p)
  <2>1. \A j \in 1..(i - 1) : j \in 1..Len(p)
    BY DEF Alike
  <2> QED
    BY <2>1 DEF Alike
<1>4. \A told \in BOOLEAN : InitialIn(r, told) <=> InitialIn(p, told)
  BY <1>3 DEF Alike, InitialIn
<1> QED
  BY <1>1, <1>2, <1>4

LEMMA AlikeWord ==
  ASSUME NEW p, NEW r, Alike(p, r), NEW k, NEW m, NEW before,
         \A i \in 1..Len(p) : r[i].at <= m <=> p[i].at <= k
  PROVE  WordAt(r, m, before) = WordAt(p, k, before)
<1> DEFINE newsP == {i \in 1..Len(p) : p[i].kind # "gap" /\ p[i].at <= k}
           newsR == {i \in 1..Len(r) : r[i].kind # "gap" /\ r[i].at <= m}
<1>1. newsR = newsP /\ newsP \in SUBSET (1..Len(p))
  BY DEF Alike
<1>2. /\ WordAt(r, m, before) = IF newsR = {} THEN before ELSE r[Latest(newsR)].geo
      /\ WordAt(p, k, before) = IF newsP = {} THEN before ELSE p[Latest(newsP)].geo
  BY DEF WordAt
<1> HIDE DEF newsP, newsR
<1>3. newsP # {} => Latest(newsP) \in 1..Len(p)
  BY <1>1, LatestIs DEF Alike
<1> QED
  BY <1>1, <1>2, <1>3 DEF Alike

Shifted(p, by) == [i \in 1..Len(p) |-> [p[i] EXCEPT !.at = by + @]]

LEMMA ShiftedIs ==
  ASSUME NEW p \in Seq(Break), NEW by \in Nat
  PROVE  /\ Shifted(p, by) \in Seq(Break) /\ Alike(p, Shifted(p, by))
         /\ \A i \in 1..Len(p) : Shifted(p, by)[i].at = by + p[i].at
         /\ \A k \in Int : \A before :
              WordAt(Shifted(p, by), k, before) = WordAt(p, k - by, before)
         /\ \A a \in Int : GapIn(Shifted(p, by), a) <=> GapIn(p, a - by)
<1> DEFINE r == Shifted(p, by)
<1>1. Len(p) \in Nat /\ \A i \in 1..Len(p) : p[i] \in Break /\ p[i].at \in Nat
  BY BreaksAre
<1>2. \A i \in 1..Len(p) : by + p[i].at \in Nat
  BY <1>1
<1>3. r = [i \in 1..Len(p) |-> [p[i] EXCEPT !.at = by + p[i].at]]
  BY DEF Shifted
<1> HIDE DEF r
<1>4. \A i \in 1..Len(p) : r[i] = [p[i] EXCEPT !.at = by + p[i].at]
  BY <1>3
<1>5. \A i \in 1..Len(p) : /\ r[i] \in Break /\ r[i].at = by + p[i].at
                          /\ r[i].kind = p[i].kind /\ r[i].geo = p[i].geo
  <2> TAKE i \in 1..Len(p)
  <2> DEFINE b == p[i]
             a == by + p[i].at
  <2>1. b \in Break /\ a \in Nat /\ r[i] = [b EXCEPT !.at = a]
    BY <1>1, <1>2, <1>4
  <2> HIDE DEF a, b
  <2>2. r[i] \in Break /\ r[i].at = a /\ r[i].kind = b.kind /\ r[i].geo = b.geo
    BY <2>1, MovedBreak
  <2> QED
    BY <2>2 DEF a, b
<1>6. r \in [1..Len(p) -> Break]
  BY <1>3, <1>5
<1>7. r \in Seq(Break) /\ Len(r) = Len(p)
  BY <1>1, <1>6
<1>8. Alike(p, r) /\ \A i \in 1..Len(p) : r[i].at = by + p[i].at
  BY <1>1, <1>5, <1>7 DEF Alike
<1>9. ASSUME NEW k \in Int, NEW before
      PROVE  WordAt(r, k, before) = WordAt(p, k - by, before)
  <2>1. \A i \in 1..Len(p) : r[i].at <= k <=> p[i].at <= k - by
    BY <1>1, <1>8
  <2> QED
    BY <1>8, <2>1, AlikeWord
<1>10. ASSUME NEW a \in Int
       PROVE  GapIn(r, a) <=> GapIn(p, a - by)
  <2>1. \A i \in 1..Len(p) : r[i].at = a <=> p[i].at = a - by
    BY <1>1, <1>8
  <2> QED
    BY <1>8, <2>1 DEF GapIn, Alike
<1> QED
  BY <1>7, <1>8, <1>9, <1>10 DEF r

LEMMA RebaseIs ==
  ASSUME NEW p \in Seq(Break), NEW by \in Nat
  PROVE  /\ Rebase(p, by) \in Seq(Break) /\ Alike(p, Rebase(p, by))
         /\ \A i \in 1..Len(p) : Rebase(p, by)[i].at = Larger(p[i].at - by, 0)
<1> DEFINE r == Rebase(p, by)
<1>1. Len(p) \in Nat /\ \A i \in 1..Len(p) : p[i] \in Break /\ p[i].at \in Nat
  BY BreaksAre
<1>2. \A i \in 1..Len(p) : Larger(p[i].at - by, 0) \in Nat
  BY <1>1 DEF Larger
<1>3. r = [i \in 1..Len(p) |-> [p[i] EXCEPT !.at = Larger(p[i].at - by, 0)]]
  BY DEF Rebase
<1> HIDE DEF r
<1>4. \A i \in 1..Len(p) : r[i] = [p[i] EXCEPT !.at = Larger(p[i].at - by, 0)]
  BY <1>3
<1>5. \A i \in 1..Len(p) : /\ r[i] \in Break /\ r[i].at = Larger(p[i].at - by, 0)
                          /\ r[i].kind = p[i].kind /\ r[i].geo = p[i].geo
  <2> TAKE i \in 1..Len(p)
  <2> DEFINE b == p[i]
             a == Larger(p[i].at - by, 0)
  <2>1. b \in Break /\ a \in Nat /\ r[i] = [b EXCEPT !.at = a]
    BY <1>1, <1>2, <1>4
  <2> HIDE DEF a, b
  <2>2. r[i] \in Break /\ r[i].at = a /\ r[i].kind = b.kind /\ r[i].geo = b.geo
    BY <2>1, MovedBreak
  <2> QED
    BY <2>2 DEF a, b
<1>6. r \in [1..Len(p) -> Break]
  BY <1>3, <1>5
<1>7. r \in Seq(Break) /\ Len(r) = Len(p)
  BY <1>1, <1>6
<1>8. Alike(p, r) /\ \A i \in 1..Len(p) : r[i].at = Larger(p[i].at - by, 0)
  BY <1>1, <1>5, <1>7 DEF Alike
<1> QED
  BY <1>7, <1>8 DEF r

LEMMA PickedFacts ==
  ASSUME NEW p \in Seq(Break), NEW I \in SUBSET (1..Len(p)), News(p) \subseteq I,
         NEW told \in BOOLEAN
  PROVE  /\ Picked(p, I) \in Seq(Break)
         /\ Sound(p) => Sound(Picked(p, I))
         /\ Rising(p) => Rising(Picked(p, I))
         /\ \A most : Within(p, most) => Within(Picked(p, I), most)
         /\ InitialIn(p, told) => InitialIn(Picked(p, I), told)
         /\ Announces(Picked(p, I)) <=> Announces(p)
         /\ \A a : GapIn(Picked(p, I), a) <=> \E i \in I : p[i].kind = "gap" /\ p[i].at = a
         /\ \A k, before : WordAt(Picked(p, I), k, before) = WordAt(p, k, before)
<1> DEFINE r == Picked(p, I)
<1>1. r \in Seq(Break) /\ Len(r) \in Nat /\ Len(p) \in Nat
  BY PickedIs
<1>2. PICK f \in [1..Len(r) -> I] :
           /\ \A i \in 1..Len(r) : r[i] = p[f[i]]
           /\ \A i, j \in 1..Len(r) : i < j <=> f[i] < f[j]
           /\ \A k \in I : \E i \in 1..Len(r) : f[i] = k
  BY PickedIs
<1> HIDE DEF r
<1>3. \A i \in 1..Len(r) : f[i] \in I /\ f[i] \in 1..Len(p) /\ r[i] = p[f[i]]
  BY <1>2
<1>4. Sound(p) => Sound(r)
  BY <1>3 DEF Sound
<1>5. Rising(p) => Rising(r)
  BY <1>2, <1>3 DEF Rising
<1>6. \A most : Within(p, most) => Within(r, most)
  BY <1>3 DEF Within
<1>7. ASSUME InitialIn(p, told) PROVE InitialIn(r, told)
  <2> SUFFICES ASSUME NEW i \in 1..Len(r), r[i].kind # "gap"
               PROVE  r[i].kind = "initial" <=> ~told /\ \A j \in 1..(i - 1) : r[j].kind = "gap"
    BY DEF InitialIn
  <2>1. r[i].kind = "initial" <=> ~told /\ \A j \in 1..(f[i] - 1) : p[j].kind = "gap"
    BY <1>3, <1>7 DEF InitialIn
  <2>2. ASSUME \A j \in 1..(f[i] - 1) : p[j].kind = "gap", NEW j \in 1..(i - 1)
        PROVE  r[j].kind = "gap"
    <3>1. j \in 1..Len(r) /\ j < i
      BY <1>1
    <3>2. f[j] < f[i] /\ f[j] \in 1..Len(p) /\ f[i] \in 1..Len(p)
      BY <1>2, <1>3, <3>1
    <3>3. f[j] \in 1..(f[i] - 1)
      BY <3>2
    <3> QED
      BY <1>3, <2>2, <3>1, <3>3
  <2>3. ASSUME \A j \in 1..(i - 1) : r[j].kind = "gap", NEW k \in 1..(f[i] - 1), p[k].kind # "gap"
        PROVE  FALSE
    <3>1. k \in 1..Len(p) /\ k < f[i] /\ k \in I
      <4>1. f[i] \in 1..Len(p)
        BY <1>3
      <4>2. k \in 1..Len(p) /\ k < f[i]
        BY <1>1, <4>1
      <4> QED
        BY <2>3, <4>2 DEF News
    <3>2. PICK j \in 1..Len(r) : f[j] = k
      BY <1>2, <3>1
    <3>3. j < i
      BY <1>2, <3>1, <3>2
    <3>4. j \in 1..(i - 1)
      BY <1>1, <3>3
    <3> QED
      BY <1>3, <2>3, <3>2, <3>4
  <2> QED
    BY <2>1, <2>2, <2>3
<1>8. Announces(r) <=> Announces(p)
  <2>1. ASSUME NEW i \in 1..Len(r), r[i].kind # "gap" PROVE Announces(p)
    BY <1>3, <2>1 DEF Announces, News
  <2>2. ASSUME NEW k \in 1..Len(p), p[k].kind # "gap" PROVE Announces(r)
    <3>1. PICK i \in 1..Len(r) : f[i] = k
      BY <1>2, <2>2 DEF News
    <3> QED
      BY <1>3, <2>2, <3>1 DEF Announces, News
  <2> QED
    BY <2>1, <2>2 DEF Announces, News
<1>9. \A a : GapIn(r, a) <=> \E i \in I : p[i].kind = "gap" /\ p[i].at = a
  <2> TAKE a
  <2>1. ASSUME GapIn(r, a) PROVE \E i \in I : p[i].kind = "gap" /\ p[i].at = a
    BY <1>3, <2>1 DEF GapIn
  <2>2. ASSUME NEW k \in I, p[k].kind = "gap" /\ p[k].at = a PROVE GapIn(r, a)
    <3>1. PICK i \in 1..Len(r) : f[i] = k
      BY <1>2
    <3> QED
      BY <1>3, <2>2, <3>1 DEF GapIn
  <2> QED
    BY <2>1, <2>2
<1>10. ASSUME NEW k, NEW before
       PROVE  WordAt(r, k, before) = WordAt(p, k, before)
  <2>1. CASE /\ \A j \in 1..Len(p) : p[j].kind # "gap" => ~(p[j].at <= k)
             /\ WordAt(p, k, before) = before
    <3>1. \A j \in 1..Len(r) : r[j].kind # "gap" => ~(r[j].at <= k)
      BY <1>3, <2>1
    <3> QED
      BY <2>1, <3>1, WordIsBefore
  <2>2. CASE \E i \in 1..Len(p) : IsWord(p, k, i) /\ WordAt(p, k, before) = p[i].geo
    <3>1. PICK i \in 1..Len(p) : IsWord(p, k, i) /\ WordAt(p, k, before) = p[i].geo
      BY <2>2
    <3>2. PICK x \in 1..Len(r) : f[x] = i
      BY <1>2, <3>1 DEF IsWord, News
    <3>3. r[x] = p[i] /\ r[x].kind # "gap" /\ r[x].at <= k
      BY <1>3, <3>1, <3>2 DEF IsWord
    <3>4. ASSUME NEW y \in 1..Len(r), y > x, r[y].kind # "gap"
          PROVE  ~(r[y].at <= k)
      <4>1. f[y] > i /\ f[y] \in 1..Len(p) /\ r[y] = p[f[y]]
        BY <1>2, <1>3, <3>2, <3>4
      <4> QED
        BY <3>1, <3>4, <4>1 DEF IsWord
    <3>5. WordAt(r, k, before) = r[x].geo
      BY <1>1, <3>3, <3>4, WordIs
    <3> QED
      BY <3>1, <3>3, <3>5
  <2> QED
    BY <1>1, <2>1, <2>2, WordCases
<1> QED
  BY <1>1, <1>4, <1>5, <1>6, <1>7, <1>8, <1>9, <1>10 DEF r
-----------------------------------------------------------------------------
(***************************************************************************)
(* What is noted in the queue.                                             *)
(***************************************************************************)
LEMMA SingleIs ==
  ASSUME NEW b \in Break, NEW q, Len(q) = 1, q[1] = b, NEW told \in BOOLEAN
  PROVE  /\ \A a : GapIn(q, a) <=> b.kind = "gap" /\ b.at = a
         /\ Sound(q) <=> IF b.kind = "gap" THEN b.geo = NoGeometry ELSE Declared(b.geo)
         /\ Announces(q) <=> b.kind # "gap"
         /\ Rising(q)
         /\ \A most : Within(q, most) <=> b.at <= most
         /\ InitialIn(q, told) <=> (b.kind # "gap" => (b.kind = "initial" <=> ~told))
         /\ \A k, before : WordAt(q, k, before) = IF b.kind # "gap" /\ b.at <= k THEN b.geo ELSE before
<1>1. \A i : i \in 1..Len(q) <=> i = 1
  OBVIOUS
<1>2. \A a : GapIn(q, a) <=> b.kind = "gap" /\ b.at = a
  BY <1>1 DEF GapIn
<1>3. Sound(q) <=> IF b.kind = "gap" THEN b.geo = NoGeometry ELSE Declared(b.geo)
  BY <1>1 DEF Sound
<1>4. Announces(q) <=> b.kind # "gap"
  BY <1>1 DEF Announces, News
<1>5. Rising(q)
  BY DEF Rising
<1>6. \A most : Within(q, most) <=> b.at <= most
  BY <1>1 DEF Within
<1>7. InitialIn(q, told) <=> (b.kind # "gap" => (b.kind = "initial" <=> ~told))
  BY <1>1 DEF InitialIn
<1>8. ASSUME NEW k, NEW before
      PROVE  WordAt(q, k, before) = IF b.kind # "gap" /\ b.at <= k THEN b.geo ELSE before
  <2>1. CASE b.kind # "gap" /\ b.at <= k
    <3>1. \A j \in 1..Len(q) : j > 1 => FALSE
      OBVIOUS
    <3>2. Len(q) \in Nat /\ 1 \in 1..Len(q)
      OBVIOUS
    <3>3. WordAt(q, k, before) = q[1].geo
      BY <2>1, <3>1, <3>2, WordIs
    <3> QED
      BY <2>1, <3>3
  <2>2. CASE ~(b.kind # "gap" /\ b.at <= k)
    <3>1. \A j \in 1..Len(q) : q[j].kind # "gap" => ~(q[j].at <= k)
      BY <1>1, <2>2
    <3>2. WordAt(q, k, before) = before
      BY <3>1, WordIsBefore
    <3> QED
      BY <2>2, <3>2
  <2> QED
    BY <2>1, <2>2
<1> QED
  BY <1>2, <1>3, <1>4, <1>5, <1>6, <1>7, <1>8

LEMMA Appended ==
  ASSUME NEW told \in BOOLEAN, NEW at \in Nat, NEW p, InQueue(p, told, at), NEW b \in Break,
         b.at = at, IF b.kind = "gap" THEN b.geo = NoGeometry ELSE Declared(b.geo),
         b.kind # "gap" => (b.kind = "initial" <=> ~(told \/ Announces(p)))
  PROVE  /\ InQueue(Append(p, b), told, at)
         /\ Announces(Append(p, b)) <=> Announces(p) \/ b.kind # "gap"
         /\ \A a : GapIn(Append(p, b), a) <=> GapIn(p, a) \/ (b.kind = "gap" /\ a = at)
         /\ \A k, before : WordAt(Append(p, b), k, before)
                            = IF b.kind # "gap" /\ at <= k THEN b.geo ELSE WordAt(p, k, before)
<1> DEFINE r == Append(p, b)
           q == <<b>>
<1>1. p \in Seq(Break) /\ q \in Seq(Break) /\ Len(q) = 1 /\ q[1] = b
  BY DEF InQueue
<1>2. r = p \o q
  BY <1>1, AppendIsConcat
<1>3. r \in Seq(Break) /\ Joined(p, q, r)
  BY <1>1, <1>2, JoinedIs
<1> HIDE DEF r, q
<1>4. /\ \A a : GapIn(q, a) <=> b.kind = "gap" /\ b.at = a
      /\ Sound(q) /\ Rising(q) /\ Within(q, at)
      /\ Announces(q) <=> b.kind # "gap"
      /\ InitialIn(q, told \/ Announces(p))
      /\ \A k, before : WordAt(q, k, before) = IF b.kind # "gap" /\ b.at <= k THEN b.geo ELSE before
  <2> DEFINE t == told \/ Announces(p)
  <2>1. t \in BOOLEAN
    OBVIOUS
  <2>2. b.kind # "gap" => (b.kind = "initial" <=> ~t)
    OBVIOUS
  <2> HIDE DEF t
  <2>3. /\ \A a : GapIn(q, a) <=> b.kind = "gap" /\ b.at = a
        /\ Sound(q) /\ Rising(q)
        /\ \A most : Within(q, most) <=> b.at <= most
        /\ Announces(q) <=> b.kind # "gap"
        /\ InitialIn(q, t)
        /\ \A k, before : WordAt(q, k, before) = IF b.kind # "gap" /\ b.at <= k THEN b.geo ELSE before
    BY <1>1, <2>1, <2>2, SingleIs
  <2>4. Within(q, at)
    BY <2>3
  <2> QED
    BY <2>3, <2>4 DEF t
<1>5. /\ Sound(r)
      /\ Announces(r) <=> Announces(p) \/ b.kind # "gap"
      /\ \A a : GapIn(r, a) <=> GapIn(p, a) \/ (b.kind = "gap" /\ a = at)
  BY <1>3, <1>4, JoinedFacts DEF InQueue
<1>6. Within(r, at)
  BY <1>3, <1>4, JoinedOrder DEF InQueue
<1>7. Rising(r)
  <2>1. \A i \in 1..Len(p) : \A j \in 1..Len(q) : p[i].at <= q[j].at
    <3>1. \A j \in 1..Len(q) : q[j] = b
      BY <1>1
    <3> QED
      BY <3>1 DEF InQueue, Within
  <2> QED
    BY <1>3, <1>4, <2>1, JoinedOrder DEF InQueue
<1>8. InitialIn(r, told)
  BY <1>3, <1>4, JoinedInitial DEF InQueue
<1>9. ASSUME NEW k, NEW before
      PROVE  WordAt(r, k, before) = IF b.kind # "gap" /\ at <= k THEN b.geo ELSE WordAt(p, k, before)
  BY <1>3, <1>4, JoinedWord
<1> QED
  BY <1>3, <1>5, <1>6, <1>7, <1>8, <1>9 DEF InQueue, r

LEMMA GapIs ==
  ASSUME NEW at \in Nat
  PROVE  Gap(at) \in Break /\ Gap(at).at = at /\ Gap(at).kind = "gap" /\ Gap(at).geo = NoGeometry
BY DEF Gap, Break, NoGeometry, Geometry

LEMMA GapNoted ==
  ASSUME NEW told \in BOOLEAN, NEW at \in Nat, NEW p, InQueue(p, told, at)
  PROVE  /\ InQueue(note_gap(p, at), told, at)
         /\ Announces(note_gap(p, at)) <=> Announces(p)
         /\ \A a : GapIn(note_gap(p, at), a) <=> GapIn(p, a) \/ a = at
         /\ \A k, before : WordAt(note_gap(p, at), k, before) = WordAt(p, k, before)
<1> DEFINE b == Gap(at)
           r == note_gap(p, at)
<1>1. b \in Break /\ b.at = at /\ b.kind = "gap" /\ b.geo = NoGeometry
  BY GapIs
<1>2. r = IF p # <<>> /\ p[Len(p)] = b THEN p ELSE Append(p, b)
  BY DEF note_gap, note_break, Gap
<1> HIDE DEF b, r
<1>3. CASE p # <<>> /\ p[Len(p)] = b
  <2>1. Len(p) \in 1..Len(p)
    BY <1>3, EmptySeq DEF InQueue
  <2>2. GapIn(p, at)
    BY <1>1, <1>3, <2>1 DEF GapIn
  <2> QED
    BY <1>2, <1>3, <2>2 DEF r
<1>4. CASE ~(p # <<>> /\ p[Len(p)] = b)
  <2>1. r = Append(p, b)
    BY <1>2, <1>4
  <2> QED
    BY <1>1, <2>1, Appended DEF r
<1> QED
  BY <1>3, <1>4

\* The last word is a declared geometry exactly if there was one.
LEMMA DeclaredWord ==
  ASSUME NEW p, Len(p) \in Nat, NEW most, Sound(p), Within(p, most), NEW before
  PROVE  Declared(WordAt(p, most, before)) <=> Announces(p) \/ Declared(before)
<1>1. CASE /\ \A j \in 1..Len(p) : p[j].kind # "gap" => ~(p[j].at <= most)
           /\ WordAt(p, most, before) = before
  BY <1>1 DEF Within, Announces, News
<1>2. CASE \E i \in 1..Len(p) : IsWord(p, most, i) /\ WordAt(p, most, before) = p[i].geo
  BY <1>2 DEF IsWord, Sound, Announces, News
<1> QED
  BY <1>1, <1>2, WordCases

LEMMA GeometryNoted ==
  ASSUME NEW told \in BOOLEAN, NEW at \in Nat, NEW p, InQueue(p, told, at), NEW before,
         Declared(before) <=> told, NEW g \in Geometry,
         NEW e, e = WordAt(p, at, before),
         NEW r, r = note_geometry(p, at, GeometryNews(e, g), g)
  PROVE  /\ InQueue(r, told, at)
         /\ \A a : GapIn(r, a) <=> GapIn(p, a)
         /\ \A k, b4 : WordAt(r, k, b4)
                         = IF GeometryNews(e, g) # {} /\ at <= k THEN g ELSE WordAt(p, k, b4)
         /\ GeometryNews(e, g) # {} <=> Declared(g) /\ (~Declared(e) \/ Moved(e, g))
<1> DEFINE news == GeometryNews(e, g)
<1>1. /\ news # {} <=> Declared(g) /\ (~Declared(e) \/ Moved(e, g))
      /\ news # {} => news = IF Declared(e) THEN {"retune"} ELSE {"initial"}
  BY DEF GeometryNews
<1>2. Declared(e) <=> told \/ Announces(p)
  BY DeclaredWord, BreaksAre DEF InQueue
<1> HIDE DEF news
<1>3. CASE news = {}
  <2>1. r = p
    BY <1>3 DEF note_geometry, news
  <2> QED
    BY <1>1, <1>3, <2>1 DEF news
<1>4. CASE news # {}
  <2> DEFINE kind == CHOOSE k \in news : TRUE
             b == [at |-> at, kind |-> kind, geo |-> g]
  <2>1. kind = IF Declared(e) THEN "retune" ELSE "initial"
    BY <1>1, <1>4
  <2> HIDE DEF kind
  <2>2. kind # "gap" /\ kind \in {"gap", "initial", "retune"}
    BY <2>1
  <2>3. r = Append(p, b)
    BY <1>4, <2>2 DEF note_geometry, note_break, kind, news
  <2>4. b \in Break /\ b.at = at /\ b.kind = kind /\ b.geo = g
    BY <2>2 DEF Break
  <2> HIDE DEF b
  <2>5. b.kind # "gap" /\ Declared(b.geo) /\ (b.kind = "initial" <=> ~(told \/ Announces(p)))
    BY <1>1, <1>2, <1>4, <2>1, <2>2, <2>4
  <2>6. /\ InQueue(r, told, at)
        /\ \A a : GapIn(r, a) <=> GapIn(p, a)
        /\ \A k, b4 : WordAt(r, k, b4) = IF at <= k THEN g ELSE WordAt(p, k, b4)
    BY <2>3, <2>4, <2>5, Appended
  <2> QED
    BY <1>1, <1>4, <2>6 DEF news
<1> QED
  BY <1>3, <1>4

\* After a trim of d samples: the hole is at the front, and everything else where
\* its sample now is.
LEMMA TrimNoted ==
  ASSUME NEW told \in BOOLEAN, NEW most \in Nat, NEW p, InQueue(p, told, most),
         NEW d \in 0..most
  PROVE  /\ InQueue(note_trim(p, d), told, most - d)
         /\ GapIn(note_trim(p, d), 0)
         /\ \A a \in Nat \ {0} : GapIn(note_trim(p, d), a) <=> GapIn(p, a + d)
         /\ \A m \in Nat : \A before : WordAt(note_trim(p, d), m, before) = WordAt(p, m + d, before)
<1> DEFINE q == Rebase(p, d)
           I == Retained(p, d)
           t == Picked(q, I)
           g == <<Gap(0)>>
           r == note_trim(p, d)
<1>1. /\ q \in Seq(Break) /\ Alike(p, q) /\ Len(p) \in Nat /\ Len(q) = Len(p)
      /\ \A i \in 1..Len(p) : q[i].at = Larger(p[i].at - d, 0) /\ p[i].at \in Nat
  <2>1. p \in Seq(Break) /\ d \in Nat
    BY DEF InQueue
  <2>2. Len(p) \in Nat /\ \A i \in 1..Len(p) : p[i].at \in Nat
    BY <2>1, BreaksAre
  <2>3. /\ q \in Seq(Break) /\ Alike(p, q)
        /\ \A i \in 1..Len(p) : q[i].at = Larger(p[i].at - d, 0)
    BY <2>1, RebaseIs
  <2> HIDE DEF q
  <2>4. Len(q) = Len(p)
    BY <2>3 DEF Alike
  <2> QED
    BY <2>2, <2>3, <2>4
<1> HIDE DEF q
<1>2. \A i \in 1..Len(p) : /\ q[i].at \in Nat
                          /\ \A m \in Nat : q[i].at <= m <=> p[i].at <= m + d
                          /\ \A a \in Nat \ {0} : q[i].at = a <=> p[i].at = a + d
  <2> TAKE i \in 1..Len(p)
  <2>1. PICK x : x = p[i].at
    OBVIOUS
  <2>2. x \in Nat /\ d \in Nat /\ q[i].at = IF x - d < 0 THEN 0 ELSE x - d
    BY <1>1, <2>1 DEF Larger
  <2> QED
    BY <2>1, <2>2
<1>3. I \in SUBSET (1..Len(q)) /\ News(q) \subseteq I
  BY <1>1 DEF Retained, News, Alike
<1>4. Sound(q) /\ InitialIn(q, told)
  BY <1>1, AlikeFacts DEF InQueue
<1>5. Rising(q)
  BY <1>1, SMTT(30) DEF Rising, InQueue, Larger
<1>6. Within(q, most - d)
  BY <1>1 DEF Within, InQueue, Larger
<1>7. /\ t \in Seq(Break) /\ Sound(t) /\ Rising(t) /\ Within(t, most - d) /\ InitialIn(t, told)
      /\ \A a : GapIn(t, a) <=> \E i \in I : q[i].kind = "gap" /\ q[i].at = a
      /\ \A k, before : WordAt(t, k, before) = WordAt(q, k, before)
  BY <1>1, <1>3, <1>4, <1>5, <1>6, PickedFacts
<1>8. r = g \o t
  BY DEF note_trim, q
<1>9. /\ Gap(0) \in Break /\ Gap(0).at = 0 /\ Gap(0).kind = "gap" /\ Gap(0).geo = NoGeometry
      /\ g \in Seq(Break) /\ Len(g) = 1 /\ g[1] = Gap(0)
  <2>1. /\ Gap(0) \in Break /\ Gap(0).at = 0 /\ Gap(0).kind = "gap" /\ Gap(0).geo = NoGeometry
    BY GapIs
  <2> QED
    BY <2>1
<1>10. r \in Seq(Break) /\ Joined(g, t, r)
  BY <1>7, <1>8, <1>9, JoinedIs
<1> HIDE DEF I, t, g, r
<1>11. /\ \A a : GapIn(g, a) <=> a = 0
       /\ Sound(g) /\ ~Announces(g) /\ Rising(g)
       /\ \A x : Within(g, x) <=> 0 <= x
       /\ InitialIn(g, told)
       /\ \A k, before : WordAt(g, k, before) = before
  <2> DEFINE b == Gap(0)
  <2>1. b \in Break /\ b.at = 0 /\ b.kind = "gap" /\ b.geo = NoGeometry /\ Len(g) = 1 /\ g[1] = b
    BY <1>9
  <2> HIDE DEF b
  <2>2. /\ \A a : GapIn(g, a) <=> b.kind = "gap" /\ b.at = a
        /\ Sound(g) <=> IF b.kind = "gap" THEN b.geo = NoGeometry ELSE Declared(b.geo)
        /\ Announces(g) <=> b.kind # "gap"
        /\ Rising(g)
        /\ \A x : Within(g, x) <=> b.at <= x
        /\ InitialIn(g, told) <=> (b.kind # "gap" => (b.kind = "initial" <=> ~told))
        /\ \A k, before : WordAt(g, k, before) = IF b.kind # "gap" /\ b.at <= k THEN b.geo ELSE before
    BY <2>1, SingleIs
  <2> QED
    BY <2>1, <2>2
<1>12. Sound(r) /\ \A a : GapIn(r, a) <=> GapIn(g, a) \/ GapIn(t, a)
  BY <1>7, <1>10, <1>11, JoinedFacts
<1>13. InitialIn(r, told)
  <2>1. InitialIn(r, told) <=> InitialIn(g, told) /\ InitialIn(t, told \/ Announces(g))
    BY <1>10, JoinedInitial
  <2>2. (told \/ Announces(g)) = told
    BY <1>11
  <2> QED
    BY <1>7, <1>11, <2>1, <2>2
<1>14. Rising(r) /\ Within(r, most - d)
  <2>1. \A i \in 1..Len(g) : \A j \in 1..Len(t) : g[i].at <= t[j].at
    <3>1. \A i \in 1..Len(g) : g[i].at = 0
      BY <1>9
    <3>2. \A j \in 1..Len(t) : t[j].at \in Nat
      BY <1>7, BreaksAre
    <3> QED
      BY <3>1, <3>2
  <2>2. 0 <= most - d
    OBVIOUS
  <2>3. Within(g, most - d)
    BY <1>11, <2>2
  <2> QED
    BY <1>7, <1>10, <1>11, <2>1, <2>3, JoinedOrder
<1>15. GapIn(r, 0)
  BY <1>11, <1>12
<1>16. ASSUME NEW a \in Nat \ {0}
       PROVE  GapIn(r, a) <=> GapIn(p, a + d)
  <2>1. GapIn(r, a) <=> \E i \in I : q[i].kind = "gap" /\ q[i].at = a
    BY <1>7, <1>11, <1>12
  <2>2. ASSUME NEW i \in I, q[i].kind = "gap", q[i].at = a
        PROVE  GapIn(p, a + d)
    <3>1. i \in 1..Len(p)
      BY <1>1, <1>3
    <3>2. p[i].kind = "gap"
      BY <1>1, <2>2, <3>1 DEF Alike
    <3>3. q[i].at = a <=> p[i].at = a + d
      BY <1>2, <3>1
    <3> QED
      BY <2>2, <3>1, <3>2, <3>3 DEF GapIn
  <2>3. ASSUME NEW i \in 1..Len(p), p[i].kind = "gap", p[i].at = a + d
        PROVE  i \in I /\ q[i].kind = "gap" /\ q[i].at = a
    <3>1. q[i].kind = "gap"
      BY <1>1, <2>3 DEF Alike
    <3>2. q[i].at = a
      BY <1>2, <2>3
    <3>3. p[i].at > d
      BY <2>3
    <3>4. i \in I
      BY <2>3, <3>3 DEF I, Retained
    <3> QED
      BY <3>1, <3>2, <3>4
  <2> QED
    BY <2>1, <2>2, <2>3 DEF GapIn
<1>17. ASSUME NEW m \in Nat, NEW before
       PROVE  WordAt(r, m, before) = WordAt(p, m + d, before)
  <2>1. WordAt(r, m, before) = WordAt(q, m, before)
    BY <1>7, <1>10, <1>11, JoinedWord
  <2>2. \A i \in 1..Len(p) : q[i].at <= m <=> p[i].at <= m + d
    BY <1>2
  <2>3. WordAt(q, m, before) = WordAt(p, m + d, before)
    BY <1>1, <2>2, AlikeWord
  <2> QED
    BY <2>1, <2>3
<1> QED
  BY <1>10, <1>12, <1>13, <1>14, <1>15, <1>16, <1>17 DEF InQueue, r

LEMMA MostGrows ==
  ASSUME NEW told, NEW most \in Int, NEW more \in Int, most <= more,
         NEW p, InQueue(p, told, most)
  PROVE  /\ InQueue(p, told, more)
         /\ \A before : WordAt(p, more, before) = WordAt(p, most, before)
<1>1. Len(p) \in Nat /\ \A i \in 1..Len(p) : p[i].at \in Nat /\ p[i].at <= most
  BY BreaksAre DEF InQueue, Within
<1>2. \A i \in 1..Len(p) : p[i].at <= more
  BY <1>1
<1>3. Within(p, more)
  BY <1>2 DEF Within
<1>4. Alike(p, p) /\ \A i \in 1..Len(p) : p[i].at <= more <=> p[i].at <= most
  BY <1>1, <1>2 DEF Alike
<1> QED
  BY <1>3, <1>4, AlikeWord DEF InQueue

\* Rebasing by what was produced, when nothing queued is due any more.
LEMMA Rebased ==
  ASSUME NEW told \in BOOLEAN, NEW c \in Nat, NEW most \in Nat,
         NEW p, InQueue(p, told, c + most),
         \A i \in 1..Len(p) : c <= p[i].at
  PROVE  /\ InQueue(Rebase(p, c), told, most)
         /\ \A k \in Int : \A before : WordAt(Rebase(p, c), k, before) = WordAt(p, k + c, before)
         /\ \A a \in Int : GapIn(Rebase(p, c), a) <=> GapIn(p, a + c)
<1> DEFINE r == Rebase(p, c)
<1>0. p \in Seq(Break)
  BY DEF InQueue
<1>1. /\ r \in Seq(Break) /\ Alike(p, r)
      /\ \A i \in 1..Len(p) : r[i].at = Larger(p[i].at - c, 0)
  BY <1>0, RebaseIs
<1>2. Len(p) \in Nat /\ \A i \in 1..Len(p) : p[i].at \in Nat
  BY <1>0, BreaksAre
<1> HIDE DEF r
<1>3. \A i \in 1..Len(p) : r[i].at = p[i].at - c
  <2> TAKE i \in 1..Len(p)
  <2>1. PICK x : x = p[i].at
    OBVIOUS
  <2>2. x \in Nat /\ c <= x /\ r[i].at = IF x - c < 0 THEN 0 ELSE x - c
    BY <1>1, <1>2, <2>1 DEF Larger
  <2> QED
    BY <2>1, <2>2
<1>4. Sound(r) /\ InitialIn(r, told)
  BY <1>1, AlikeFacts DEF InQueue
<1>5. Len(r) = Len(p)
  BY <1>1 DEF Alike
<1>6. Rising(r)
  <2> SUFFICES ASSUME NEW i \in 1..Len(p), NEW j \in 1..Len(p), i < j
               PROVE  r[i].at <= r[j].at
    BY <1>5 DEF Rising
  <2>1. p[i].at <= p[j].at
    BY DEF Rising, InQueue
  <2>2. r[i].at = p[i].at - c /\ r[j].at = p[j].at - c /\ p[i].at \in Nat /\ p[j].at \in Nat
    BY <1>2, <1>3
  <2> HIDE DEF r
  <2> QED
    BY <2>1, <2>2
<1>7. Within(r, most)
  BY <1>2, <1>3, <1>5 DEF Within, InQueue
<1>8. ASSUME NEW k \in Int, NEW before
      PROVE  WordAt(r, k, before) = WordAt(p, k + c, before)
  <2>1. \A i \in 1..Len(p) : r[i].at <= k <=> p[i].at <= k + c
    <3> TAKE i \in 1..Len(p)
    <3>1. PICK x, y : x = p[i].at /\ y = r[i].at
      OBVIOUS
    <3>2. x \in Nat /\ y = x - c
      BY <1>2, <1>3, <3>1
    <3>3. y <= k <=> x <= k + c
      BY <3>2
    <3> QED
      BY <3>1, <3>3
  <2> QED
    BY <1>1, <2>1, AlikeWord
<1>9. ASSUME NEW a \in Int
      PROVE  GapIn(r, a) <=> GapIn(p, a + c)
  <2>1. \A i \in 1..Len(p) : r[i].at = a <=> p[i].at = a + c
    <3> TAKE i \in 1..Len(p)
    <3>1. PICK x, y : x = p[i].at /\ y = r[i].at
      OBVIOUS
    <3>2. x \in Nat /\ y = x - c
      BY <1>2, <1>3, <3>1
    <3>3. y = a <=> x = a + c
      BY <3>2
    <3> QED
      BY <3>1, <3>3
  <2> QED
    BY <1>1, <2>1 DEF GapIn, Alike
<1> QED
  BY <1>1, <1>4, <1>6, <1>7, <1>8, <1>9 DEF r, InQueue
-----------------------------------------------------------------------------
(***************************************************************************)
(* What is reported.                                                       *)
(***************************************************************************)
\* A break, or nothing, at the end of what was reported.
Extension(p, c, b) == p \o (IF c THEN <<b>> ELSE <<>>)

Fits(b, at, told) ==
  /\ b \in Break /\ b.at = at
  /\ IF b.kind = "gap" THEN b.geo = NoGeometry ELSE Declared(b.geo)
  /\ b.kind # "gap" => (b.kind = "initial" <=> ~told)

\* r adds b, or nothing, to p at `at`.
Adds(p, c, b, at, r) ==
  /\ Announces(r) <=> Announces(p) \/ (c /\ b.kind # "gap")
  /\ \A a : GapIn(r, a) <=> GapIn(p, a) \/ (c /\ b.kind = "gap" /\ a = at)
  /\ \A k, before : WordAt(r, k, before)
                     = IF c /\ b.kind # "gap" /\ at <= k THEN b.geo ELSE WordAt(p, k, before)
  /\ Len(p) \in Nat /\ Len(r) \in Nat /\ Len(p) <= Len(r)
  /\ \A i \in 1..Len(p) : r[i] = p[i]
  /\ \A i \in 1..Len(r) : i > Len(p) => r[i].at = at

LEMMA Extended ==
  ASSUME NEW told \in BOOLEAN, NEW at \in Nat, NEW p, InQueue(p, told, at), NEW c \in BOOLEAN,
         NEW b, c => Fits(b, at, told \/ Announces(p)),
         NEW r, r = Extension(p, c, b)
  PROVE  InQueue(r, told, at) /\ Adds(p, c, b, at, r)
<1>0. p \in Seq(Break) /\ Len(p) \in Nat
  BY DEF InQueue
<1>1. CASE ~c
  <2>1. r = p
    BY <1>0, <1>1 DEF Extension
  <2> QED
    BY <1>0, <1>1, <2>1 DEF Adds
<1>2. CASE c
  <2>1. r = Append(p, b)
    BY <1>0, <1>2, AppendIsConcat DEF Extension
  <2>5. b \in Break /\ b.at = at
    BY <1>2 DEF Fits
  <2>6. IF b.kind = "gap" THEN b.geo = NoGeometry ELSE Declared(b.geo)
    BY <1>2 DEF Fits
  <2>7. b.kind # "gap" => (b.kind = "initial" <=> ~(told \/ Announces(p)))
    BY <1>2 DEF Fits
  <2>2. /\ InQueue(r, told, at)
        /\ Announces(r) <=> Announces(p) \/ b.kind # "gap"
        /\ \A a : GapIn(r, a) <=> GapIn(p, a) \/ (b.kind = "gap" /\ a = at)
        /\ \A k, before : WordAt(r, k, before)
                           = IF b.kind # "gap" /\ at <= k THEN b.geo ELSE WordAt(p, k, before)
    BY <2>1, <2>5, <2>6, <2>7, Appended
  <2>3. /\ Len(r) = Len(p) + 1 /\ r[Len(p) + 1] = b
        /\ \A i \in 1..Len(p) : r[i] = p[i]
    BY <1>0, <2>1
  <2>4. \A i \in 1..Len(r) : i > Len(p) => r[i].at = at
    <3> SUFFICES ASSUME NEW i \in 1..Len(r), i > Len(p)
                 PROVE  r[i].at = at
      OBVIOUS
    <3>1. i = Len(p) + 1
      BY <1>0, <2>3
    <3> QED
      BY <2>3, <2>5, <3>1
  <2>8. Len(r) \in Nat /\ Len(p) <= Len(r)
    BY <1>0, <2>3
  <2>9. /\ Announces(r) <=> Announces(p) \/ (c /\ b.kind # "gap")
        /\ \A a : GapIn(r, a) <=> GapIn(p, a) \/ (c /\ b.kind = "gap" /\ a = at)
    BY <1>2, <2>2
  <2>10. \A k, before : WordAt(r, k, before)
                        = IF c /\ b.kind # "gap" /\ at <= k THEN b.geo ELSE WordAt(p, k, before)
    BY <1>2, <2>2
  <2> QED
    BY <1>0, <2>2, <2>3, <2>4, <2>8, <2>9, <2>10 DEF Adds
<1> QED
  BY <1>1, <1>2

LEMMA FrontRunIs ==
  ASSUME pending_breaks \in Seq(Break), pending_breaks # <<>>, Rising(pending_breaks)
  PROVE  /\ FrontRun \in 1..Len(pending_breaks)
         /\ \A i \in 1..FrontRun : pending_breaks[i].at = pending_breaks[1].at
         /\ \A i \in 1..Len(pending_breaks) :
              i > FrontRun => pending_breaks[1].at < pending_breaks[i].at
<1> DEFINE p == pending_breaks
           n == Len(p)
           K == {k \in 1..n : \A i \in 1..k : p[i].at = p[1].at}
           Ends(k) == /\ \A i \in 1..k : p[i].at = p[1].at
                      /\ k < n => p[k + 1].at # p[1].at
<1>1. n \in Nat /\ 1 \in 1..n /\ \A i \in 1..n : p[i].at \in Nat
  <2>1. n \in Nat /\ \A i \in 1..n : p[i].at \in Nat
    BY BreaksAre
  <2>2. n # 0
    BY EmptySeq
  <2> QED
    BY <2>1, <2>2
<1>2. FrontRun = CHOOSE k \in 1..n : Ends(k)
  BY DEF FrontRun
<1>r. \A i, j \in 1..n : i < j => p[i].at <= p[j].at
  BY DEF Rising
<1> HIDE DEF p, n
<1>3. \E k \in 1..n : Ends(k)
  <2>1. 1 \in K
    BY <1>1
  <2>2. PICK k \in K : \A j \in K : j <= k
    BY <1>1, <2>1, LatestExists
  <2>3. k \in 1..n /\ \A i \in 1..k : p[i].at = p[1].at
    BY <2>2
  <2>4. ASSUME k < n, p[k + 1].at = p[1].at PROVE FALSE
    <3>1. k + 1 \in 1..n /\ \A i \in 1..(k + 1) : i \in 1..k \/ i = k + 1
      BY <1>1, <2>3, <2>4
    <3>2. k + 1 \in K
      BY <2>3, <2>4, <3>1
    <3> QED
      BY <2>2, <2>3, <3>2
  <2> QED
    BY <2>3, <2>4
<1>4. FrontRun \in 1..n /\ Ends(FrontRun)
  BY <1>2, <1>3
<1>5. ASSUME NEW i \in 1..n, i > FrontRun
      PROVE  p[1].at < p[i].at
  <2>1. PICK f : f = FrontRun
    OBVIOUS
  <2>2. f \in 1..n /\ i > f /\ f < n /\ f + 1 \in 1..n /\ 1 < f + 1
    BY <1>1, <1>4, <1>5, <2>1
  <2>3. p[f + 1].at # p[1].at
    BY <1>4, <2>1, <2>2
  <2>4. p[1].at <= p[f + 1].at
    BY <1>1, <1>r, <2>2
  <2>5. p[f + 1].at <= p[i].at
    <3>1. CASE i = f + 1
      BY <1>1, <3>1
    <3>2. CASE f + 1 < i
      BY <1>r, <2>2, <3>2
    <3> QED
      BY <1>1, <2>2, <3>1, <3>2
  <2> QED
    BY <1>1, <2>2, <2>3, <2>4, <2>5
<1> QED
  BY <1>4, <1>5 DEF p, n

\* What one boundary puts on record at `at`: perhaps a gap, then perhaps geometry g.
Records(s, c1, c2, g, at, all) ==
  /\ Announces(all) <=> Announces(s) \/ c2
  /\ \A x : GapIn(all, x) <=> GapIn(s, x) \/ (c1 /\ x = at)
  /\ \A k, before : WordAt(all, k, before) = IF c2 /\ at <= k THEN g ELSE WordAt(s, k, before)
  /\ Len(s) \in Nat /\ Len(all) \in Nat /\ Len(s) <= Len(all)
  /\ \A i \in 1..Len(s) : all[i] = s[i]
  /\ \A i \in 1..Len(all) : i > Len(s) => all[i].at = at

LEMMA Recorded ==
  ASSUME NEW at \in Nat, NEW s, InQueue(s, FALSE, at), NEW c1 \in BOOLEAN, NEW c2 \in BOOLEAN,
         NEW g \in Break, g.at = at, g.kind = "gap", g.geo = NoGeometry,
         NEW b, c2 => Fits(b, at, Announces(s)) /\ b.kind # "gap",
         NEW all, all = Extension(Extension(s, c1, g), c2, b)
  PROVE  InQueue(all, FALSE, at) /\ Records(s, c1, c2, b.geo, at, all)
<1> DEFINE mid == Extension(s, c1, g)
<1>1. PICK told \in BOOLEAN : told = FALSE
  OBVIOUS
<1>2. c1 => Fits(g, at, told \/ Announces(s))
  BY DEF Fits
<1>3. InQueue(mid, told, at) /\ Adds(s, c1, g, at, mid)
  <2>1. InQueue(s, told, at)
    BY <1>1
  <2> HIDE DEF mid
  <2>2. mid = Extension(s, c1, g)
    BY DEF mid
  <2> QED
    BY <1>2, <2>1, <2>2, Extended
<1>4. all = Extension(mid, c2, b)
  OBVIOUS
<1> HIDE DEF mid
<1>5. c2 => Fits(b, at, told \/ Announces(mid))
  BY <1>1, <1>3 DEF Adds, Fits
<1>6. InQueue(all, told, at) /\ Adds(mid, c2, b, at, all)
  BY <1>3, <1>4, <1>5, Extended
<1> USE DEF Adds
<1>7. InQueue(all, FALSE, at)
  BY <1>1, <1>6
<1>8. Announces(all) <=> Announces(s) \/ c2
  BY <1>3, <1>6
<1>9. \A x : GapIn(all, x) <=> GapIn(s, x) \/ (c1 /\ x = at)
  BY <1>3, <1>6
<1>10. \A k, before : WordAt(all, k, before)
                       = IF c2 /\ at <= k THEN b.geo ELSE WordAt(s, k, before)
  BY <1>3, <1>6
<1>11. Len(s) \in Nat /\ Len(all) \in Nat /\ Len(s) <= Len(all)
  BY <1>3, <1>6
<1>12. \A i \in 1..Len(s) : all[i] = s[i]
  BY <1>3, <1>6
<1>13. ASSUME NEW i \in 1..Len(all), i > Len(s) PROVE all[i].at = at
  <2>1. CASE i \in 1..Len(mid)
    BY <1>3, <1>6, <1>13, <2>1
  <2>2. CASE i > Len(mid)
    BY <1>6, <2>2
  <2> QED
    BY <1>3, <1>6, <2>1, <2>2
<1> QED
  BY <1>7, <1>8, <1>9, <1>10, <1>11, <1>12, <1>13 DEF Records

\* What the front run, a gap or not and geometries geos, leaves of p: the rest, which
\* lies behind it, and with it says what p said.
Leaves(p, before, most, a, geos, gap, geo, kind, rest) ==
  /\ a \in Nat /\ a <= most
  /\ InQueue(rest, before \/ geos # {}, most)
  /\ \A i \in 1..Len(rest) : a < rest[i].at
  /\ geos # {} => /\ geo \in Geometry /\ Declared(geo)
                  /\ kind \in {"initial", "retune"}
                  /\ kind = "initial" <=> ~before
  /\ \A k, w : WordAt(p, k, w) = WordAt(rest, k, IF geos # {} /\ a <= k THEN geo ELSE w)
  /\ \A x : GapIn(p, x) <=> GapIn(rest, x) \/ (gap /\ x = a)

LEMMA Reporting ==
  ASSUME NEW most \in Nat, pending_breaks # <<>>,
         NEW before \in BOOLEAN, InQueue(pending_breaks, before, most),
         NEW a, a = pending_breaks[1].at,
         NEW geos, geos = {i \in 1..FrontRun : pending_breaks[i].kind # "gap"},
         NEW gap, gap = (\E i \in 1..FrontRun : pending_breaks[i].kind = "gap"),
         NEW told, told = pending_breaks[Latest(geos)].geo,
         NEW kind, kind = GeometryKind(geos),
         NEW rest, rest = SubSeq(pending_breaks, FrontRun + 1, Len(pending_breaks))
  PROVE  Leaves(pending_breaks, before, most, a, geos, gap, told, kind, rest)
<1> DEFINE p == pending_breaks
           n == Len(p)
           f == FrontRun
           run == SubSeq(p, 1, f)
<1>1. /\ p \in Seq(Break) /\ n \in Nat
      /\ \A i \in 1..n : /\ p[i] \in Break /\ p[i].at \in Nat /\ p[i].geo \in Geometry
                         /\ p[i].kind \in {"gap", "initial", "retune"}
  BY BreaksAre DEF InQueue
<1>2. /\ f \in 1..n
      /\ \A i \in 1..f : p[i].at = a
      /\ \A i \in 1..n : i > f => a < p[i].at
  BY FrontRunIs DEF InQueue
<1>3. 1 \in 1..n /\ a \in Nat /\ a <= most
  <2>1. 1 \in 1..n
    BY <1>1, <1>2
  <2> QED
    BY <1>1, <2>1 DEF InQueue, Within
<1>4. /\ run \in Seq(Break) /\ Len(run) = f
      /\ \A i \in 1..f : run[i] = p[i]
  BY <1>1, <1>2
<1>5. /\ rest \in Seq(Break) /\ Len(rest) = n - f
      /\ \A i \in 1..(n - f) : rest[i] = p[f + i]
  BY <1>1, <1>2
<1>6. Joined(run, rest, p)
  <2>1. ASSUME NEW i \in 1..n, i > f PROVE p[i] = rest[i - f]
    <3>1. i - f \in 1..(n - f) /\ f + (i - f) = i
      BY <1>1, <1>2, <2>1
    <3> QED
      BY <1>5, <3>1
  <2>2. Len(run) \in Nat /\ Len(rest) \in Nat /\ n = Len(run) + Len(rest)
    BY <1>1, <1>2, <1>4, <1>5
  <2> QED
    BY <1>4, <2>1, <2>2 DEF Joined
<1> HIDE DEF run
<1>g. geos \in SUBSET (1..f) /\ f \in Nat /\ \A i \in 1..f : i \in geos <=> p[i].kind # "gap"
  BY <1>2
<1>7. Sound(run) /\ Sound(rest) /\ Rising(run) /\ Rising(rest)
      /\ Within(rest, most) /\ InitialIn(run, before)
      /\ InitialIn(rest, before \/ Announces(run))
  <2> DEFINE s == before
  <2>1. Sound(p) /\ Rising(p) /\ Within(p, most) /\ InitialIn(p, s) /\ s \in BOOLEAN
    BY DEF InQueue, Announces
  <2> HIDE DEF s, p
  <2>2. Sound(run) /\ Sound(rest)
    BY <1>6, <2>1, JoinedFacts
  <2>3. Rising(run) /\ Rising(rest) /\ Within(rest, most)
    BY <1>6, <2>1, JoinedOrder
  <2>4. InitialIn(run, s) /\ InitialIn(rest, s \/ Announces(run))
    BY <1>6, <2>1, JoinedInitial
  <2> QED
    BY <2>2, <2>3, <2>4 DEF s
<1>8. Announces(run) <=> geos # {}
  <2>1. \A i \in 1..f : i \in geos <=> run[i].kind # "gap"
    BY <1>4, <1>g
  <2> QED
    BY <1>4, <1>g, <2>1 DEF Announces, News
<1>9. ASSUME geos # {}
      PROVE  told \in Geometry /\ Declared(told)
  <2>1. Latest(geos) \in geos
    BY <1>9, <1>g, LatestIs
  <2>2. Latest(geos) \in 1..n /\ p[Latest(geos)].kind # "gap"
    BY <1>1, <1>2, <1>g, <2>1
  <2> QED
    BY <1>1, <2>2 DEF InQueue, Sound
<1>10. ASSUME geos # {}
       PROVE  /\ kind \in {"initial", "retune"}
              /\ kind = "initial" <=> ~before
  <2>1. \A i \in geos : i \in 1..Len(run) /\ run[i] = p[i] /\ run[i].kind # "gap"
    BY <1>4, <1>g
  <2>2. ASSUME NEW i \in geos, p[i].kind = "initial" PROVE ~before
    BY <1>7, <2>1, <2>2 DEF InitialIn
  <2>3. ASSUME ~before PROVE \E i \in geos : p[i].kind = "initial"
    <3>1. geos \in SUBSET Nat
      BY <1>g
    <3>2. PICK i \in geos : \A j \in geos : i <= j
      BY <1>10, <3>1, EarliestExists
    <3>3. \A j \in 1..(i - 1) : j \in 1..f /\ ~(i <= j) /\ j \in 1..Len(run)
      BY <1>4, <1>g, <3>2
    <3>4. \A j \in 1..(i - 1) : run[j].kind = "gap"
      BY <1>4, <1>g, <3>2, <3>3
    <3> QED
      BY <1>7, <2>1, <2>3, <3>2, <3>4 DEF InitialIn
  <2> QED
    BY <2>2, <2>3 DEF GeometryKind
<1>14. InQueue(rest, before \/ geos # {}, most)
  BY <1>5, <1>7, <1>8 DEF InQueue
<1>17. \A i \in 1..Len(rest) : a < rest[i].at
  <2> TAKE i \in 1..Len(rest)
  <2>1. f + i \in 1..n /\ f + i > f /\ rest[i] = p[f + i]
    <3>1. i \in 1..(n - f)
      BY <1>5
    <3>2. f + i \in 1..n /\ f + i > f
      BY <1>1, <1>2, <3>1
    <3> QED
      BY <1>5, <3>1, <3>2
  <2> QED
    BY <1>2, <2>1
<1>19. ASSUME NEW k, NEW w
       PROVE  WordAt(p, k, w) = WordAt(rest, k, IF geos # {} /\ a <= k THEN told ELSE w)
  <2>1. WordAt(p, k, w) = WordAt(rest, k, WordAt(run, k, w))
    BY <1>6, JoinedWord
  <2>2. CASE geos # {} /\ a <= k
    <3>1. Latest(geos) \in geos /\ \A j \in geos : j <= Latest(geos)
      BY <1>g, <2>2, LatestIs
    <3>2. PICK i : i = Latest(geos)
      OBVIOUS
    <3>3. i \in 1..Len(run) /\ run[i].kind # "gap" /\ run[i].at = a /\ told = run[i].geo
      BY <1>2, <1>4, <1>g, <3>1, <3>2
    <3>4. \A j \in 1..Len(run) : run[j].kind # "gap" => j <= i
      BY <1>4, <1>g, <3>1, <3>2
    <3>5. \A j \in 1..Len(run) : j > i /\ run[j].kind # "gap" => ~(run[j].at <= k)
      BY <3>3, <3>4
    <3>6. Len(run) \in Nat
      BY <1>4, <1>g
    <3>7. WordAt(run, k, w) = run[i].geo
      <4>1. i \in 1..Len(run) /\ run[i].kind # "gap" /\ run[i].at <= k
        BY <2>2, <3>3
      <4>2. IsWord(run, k, i)
        BY <3>5, <4>1 DEF IsWord
      <4> QED
        BY <3>6, <4>2, WordIs DEF IsWord
    <3> QED
      BY <2>1, <2>2, <3>3, <3>7
  <2>3. CASE ~(geos # {} /\ a <= k)
    <3>1. \A j \in 1..Len(run) : run[j].at = a /\ (run[j].kind # "gap" => j \in geos)
      BY <1>2, <1>4, <1>g
    <3>2. \A j \in 1..Len(run) : run[j].kind # "gap" => ~(run[j].at <= k)
      BY <2>3, <3>1
    <3>3. WordAt(run, k, w) = w
      BY <3>2, WordIsBefore
    <3> QED
      BY <2>1, <2>3, <3>3
  <2> QED
    BY <2>2, <2>3
<1>21. ASSUME NEW x
       PROVE  GapIn(p, x) <=> GapIn(rest, x) \/ (gap /\ x = a)
  <2>1. GapIn(p, x) <=> GapIn(run, x) \/ GapIn(rest, x)
    BY <1>6, JoinedFacts
  <2>2. \A i \in 1..f : i \in 1..Len(run) /\ run[i].kind = p[i].kind /\ run[i].at = a
    BY <1>2, <1>4
  <2>3. Len(run) = f
    BY <1>4
  <2>4. GapIn(run, x) <=> gap /\ x = a
    BY <2>2, <2>3 DEF GapIn
  <2> QED
    BY <2>1, <2>4
<1> QED
  BY <1>3, <1>9, <1>10, <1>14, <1>17, <1>19, <1>21 DEF Leaves
-----------------------------------------------------------------------------
(***************************************************************************)
(* The invariant, action by action.                                        *)
(***************************************************************************)
LEMMA InvMeans ==
  ASSUME Inv
  PROVE  /\ Len(sample_buffer) \in Nat /\ Len(copied) \in Nat /\ produced \in Nat
         /\ pending_breaks \in Seq(Break) /\ Len(pending_breaks) \in Nat
         /\ \A i \in 1..Len(pending_breaks) : pending_breaks[i].at \in Nat
         /\ sink \in Seq(Break) /\ Len(sink) \in Nat
         /\ \A i \in 1..Len(sink) : sink[i].at \in Nat /\ sink[i].at < produced + Len(copied)
         /\ Announces(sink) \in BOOLEAN
         /\ Declared(published_geometry) <=> Announces(sink)
<1>1. /\ Len(sample_buffer) \in Nat /\ Len(copied) \in Nat /\ produced \in Nat
      /\ pending_breaks \in Seq(Break) /\ sink \in Seq(Break)
  BY DEF Inv, TypeOK
<1>2. /\ Len(pending_breaks) \in Nat
      /\ \A i \in 1..Len(pending_breaks) : pending_breaks[i].at \in Nat
  BY <1>1, BreaksAre
<1>3. /\ Len(sink) \in Nat
      /\ \A i \in 1..Len(sink) : sink[i].at \in Nat
  BY <1>1, BreaksAre
<1>4. \A i \in 1..Len(sink) : sink[i].at < produced + Len(copied)
  BY DEF Inv, SinkIsBehind
<1>5. Declared(published_geometry) <=> Announces(sink)
  <2>1. PICK k, none : k = produced + Len(copied) /\ none = NoGeometry
    OBVIOUS
  <2>2. Sound(sink) /\ Within(sink, k) /\ published_geometry = WordAt(sink, k, none)
    BY <2>1 DEF Inv, InQueue, PublishedIsLast
  <2>3. ~Declared(none)
    BY <2>1 DEF Declared, NoGeometry
  <2> QED
    BY <1>3, <2>2, <2>3, DeclaredWord
<1> QED
  BY <1>1, <1>2, <1>3, <1>4, <1>5 DEF Announces

LEMMA Behind ==
  ASSUME NEW s \in Seq(Break), NEW P \in Nat, \A i \in 1..Len(s) : s[i].at < P,
         NEW p \in Seq(Break)
  PROVE  \A i \in 1..Len(s) : \A j \in 1..Len(p) : s[i].at < P + p[j].at
<1>1. /\ \A i \in 1..Len(s) : s[i].at \in Nat
      /\ \A j \in 1..Len(p) : p[j].at \in Nat
  BY BreaksAre
<1> QED
  BY <1>1

\* A gap noted behind the last sample held, while a sweep is under way.
LEMMA GapHeld ==
  ASSUME Inv, copied = <<>>, NEW q, q = note_gap(pending_breaks, Len(sample_buffer))
  PROVE  /\ InQueue(q, Announces(sink), Len(copied) + Len(sample_buffer))
         /\ \A a : GapIn(q, a) <=> GapIn(pending_breaks, a) \/ a = Len(sample_buffer)
         /\ \A k, before : WordAt(q, k, before) = WordAt(pending_breaks, k, before)
         /\ Len(copied) = 0
<1>1. Len(copied) = 0 /\ Len(copied) + Len(sample_buffer) = Len(sample_buffer)
  BY InvMeans
<1>2. InQueue(pending_breaks, Announces(sink), Len(sample_buffer))
  BY <1>1 DEF Inv
<1>3. Len(sample_buffer) \in Nat /\ Announces(sink) \in BOOLEAN
  BY InvMeans
<1>4. /\ InQueue(q, Announces(sink), Len(sample_buffer))
      /\ \A a : GapIn(q, a) <=> GapIn(pending_breaks, a) \/ a = Len(sample_buffer)
      /\ \A k, before : WordAt(q, k, before) = WordAt(pending_breaks, k, before)
  BY <1>2, <1>3, GapNoted
<1> QED
  BY <1>1, <1>4

LEMMA LostPacketStep ==
  ASSUME Inv, NEW n \in PacketLens \ {0}, LostPacket(n)
  PROVE  Inv'
<1>1. /\ pc = "sweep" /\ copied = <<>> /\ n \in Nat
      /\ pending_breaks' = note_gap(pending_breaks, Len(sample_buffer))
      /\ last_end' = <<>> /\ end' = end + n /\ sent' = sent + n
      /\ UNCHANGED <<sample_buffer, epoch, published_geometry, produced,
                     max_packet_samples, pc, o_len, fetches, fetched, copied, sink, out>>
  BY TrafficAssumption DEF LostPacket, Inv, CallsAreInStep, working, consumer
<1>2. /\ InQueue(pending_breaks', Announces(sink), Len(copied) + Len(sample_buffer))
      /\ \A a : GapIn(pending_breaks', a) <=> GapIn(pending_breaks, a) \/ a = Len(sample_buffer)
      /\ \A k, before : WordAt(pending_breaks', k, before) = WordAt(pending_breaks, k, before)
      /\ Len(copied) = 0
  BY <1>1, GapHeld
<1>3. /\ Len(sample_buffer) \in Nat /\ produced \in Nat /\ sink \in Seq(Break)
      /\ \A i \in 1..Len(sink) : sink[i].at < produced + Len(copied)
      /\ pending_breaks' \in Seq(Break)
  BY <1>2, InvMeans DEF InQueue
<1>4. TypeOK'
  BY <1>1, <1>3 DEF Inv, TypeOK
<1>5. CallsAreInStep'
  BY <1>1 DEF Inv, CallsAreInStep
<1>6. InQueue(sink, FALSE, produced + Len(copied))'
  BY <1>1 DEF Inv
<1>7. InQueue(pending_breaks, Announces(sink), Len(copied) + Len(sample_buffer))'
  BY <1>1, <1>2
<1>8. SinkIsBehind'
  <2>1. \A i \in 1..Len(sink) : sink[i].at < produced
    BY <1>2, <1>3
  <2>2. \A i \in 1..Len(sink) : \A j \in 1..Len(pending_breaks') :
           sink[i].at < produced + pending_breaks'[j].at
    BY <1>3, <2>1, Behind
  <2> QED
    BY <1>1, <1>3, <2>2 DEF SinkIsBehind
<1>9. PublishedIsLast'
  BY <1>1 DEF Inv, PublishedIsLast
<1>10. EpochIsLast'
  BY <1>1, <1>2 DEF Inv, EpochIsLast
<1>11. ForgottenIsFlagged'
  BY <1>1, <1>2, <1>3 DEF ForgottenIsFlagged
<1> QED
  BY <1>4, <1>5, <1>6, <1>7, <1>8, <1>9, <1>10, <1>11 DEF Inv

\* The gaps of a failed fetch: the second is the first.
LEMMA GapHeldTwice ==
  ASSUME Inv, copied = <<>>,
         NEW r, r = note_gap(note_gap(pending_breaks, Len(sample_buffer)), Len(sample_buffer))
  PROVE  /\ InQueue(r, Announces(sink), Len(copied) + Len(sample_buffer))
         /\ \A a : GapIn(r, a) <=> GapIn(pending_breaks, a) \/ a = Len(sample_buffer)
         /\ \A k, before : WordAt(r, k, before) = WordAt(pending_breaks, k, before)
         /\ Len(copied) = 0
<1>1. PICK q : q = note_gap(pending_breaks, Len(sample_buffer))
  OBVIOUS
<1>2. /\ InQueue(q, Announces(sink), Len(copied) + Len(sample_buffer))
      /\ \A a : GapIn(q, a) <=> GapIn(pending_breaks, a) \/ a = Len(sample_buffer)
      /\ \A k, before : WordAt(q, k, before) = WordAt(pending_breaks, k, before)
      /\ Len(copied) = 0
  BY <1>1, GapHeld
<1>3. Len(sample_buffer) \in Nat /\ Announces(sink) \in BOOLEAN
  BY InvMeans
<1>4. InQueue(q, Announces(sink), Len(sample_buffer)) /\ Len(copied) + Len(sample_buffer) = Len(sample_buffer)
  BY <1>2, <1>3
<1>5. r = note_gap(q, Len(sample_buffer))
  BY <1>1
<1>6. /\ InQueue(note_gap(q, Len(sample_buffer)), Announces(sink), Len(sample_buffer))
      /\ \A a : GapIn(note_gap(q, Len(sample_buffer)), a) <=> GapIn(q, a) \/ a = Len(sample_buffer)
      /\ \A k, before : WordAt(note_gap(q, Len(sample_buffer)), k, before) = WordAt(q, k, before)
  BY <1>3, <1>4, GapNoted
<1> QED
  BY <1>2, <1>4, <1>5, <1>6

LEMMA FetchFailsStep ==
  ASSUME Inv, FetchFails
  PROVE  Inv'
<1>1. /\ pc = "sweep" /\ copied = <<>>
      /\ pending_breaks' = note_gap(note_gap(pending_breaks, Len(sample_buffer)),
                                    Len(sample_buffer))
      /\ last_end' = <<>> /\ end' = end + 1 /\ sent' = sent + 1
      /\ pc' = "idle" /\ o_len' = 0 /\ fetches' = 0 /\ fetched' = FALSE
      /\ UNCHANGED <<sample_buffer, epoch, published_geometry, produced,
                     max_packet_samples, copied, sink, out>>
  BY DEF FetchFails, cleanup_stream, Inv, CallsAreInStep, consumer
<1>2. /\ InQueue(pending_breaks', Announces(sink), Len(copied) + Len(sample_buffer))
      /\ \A a : GapIn(pending_breaks', a) <=> GapIn(pending_breaks, a) \/ a = Len(sample_buffer)
      /\ \A k, before : WordAt(pending_breaks', k, before) = WordAt(pending_breaks, k, before)
      /\ Len(copied) = 0
  BY <1>1, GapHeldTwice
<1>3. /\ Len(sample_buffer) \in Nat /\ produced \in Nat /\ sink \in Seq(Break)
      /\ \A i \in 1..Len(sink) : sink[i].at < produced + Len(copied)
      /\ pending_breaks' \in Seq(Break)
  BY <1>2, InvMeans DEF InQueue
<1>4. TypeOK'
  <2>1. end' \in Int /\ sent' \in Nat /\ last_end' = <<>>
    BY <1>1 DEF Inv, TypeOK
  <2>2. pc' = "idle" /\ o_len' \in 0..Downstream /\ fetches' \in 0..MaxFetches /\ fetched' \in BOOLEAN
    <3>1. 0 \in 0..Downstream /\ 0 \in 0..MaxFetches
      BY CapacityAssumption
    <3> QED
      BY <1>1, <3>1
  <2>3. /\ sample_buffer' \in Seq(Sample) /\ epoch' \in Geometry /\ published_geometry' \in Geometry
        /\ produced' \in Nat /\ max_packet_samples' \in Nat /\ copied' \in Seq(Sample)
        /\ sink' \in Seq(Break) /\ out' \in Seq(Sample)
    BY <1>1 DEF Inv, TypeOK
  <2> QED
    BY <1>3, <2>1, <2>2, <2>3 DEF TypeOK
<1>5. CallsAreInStep'
  BY <1>1 DEF Inv, CallsAreInStep
<1>6. InQueue(sink, FALSE, produced + Len(copied))'
  BY <1>1 DEF Inv
<1>7. InQueue(pending_breaks, Announces(sink), Len(copied) + Len(sample_buffer))'
  BY <1>1, <1>2
<1>8. SinkIsBehind'
  <2>1. \A i \in 1..Len(sink) : sink[i].at < produced
    BY <1>2, <1>3
  <2>2. \A i \in 1..Len(sink) : \A j \in 1..Len(pending_breaks') :
           sink[i].at < produced + pending_breaks'[j].at
    BY <1>3, <2>1, Behind
  <2> QED
    BY <1>1, <1>3, <2>2 DEF SinkIsBehind
<1>9. PublishedIsLast'
  BY <1>1 DEF Inv, PublishedIsLast
<1>10. EpochIsLast'
  BY <1>1, <1>2 DEF Inv, EpochIsLast
<1>11. ForgottenIsFlagged'
  BY <1>1, <1>2, <1>3 DEF ForgottenIsFlagged
<1> QED
  BY <1>4, <1>5, <1>6, <1>7, <1>8, <1>9, <1>10, <1>11 DEF Inv

\* A step that only moves work() along.
LEMMA WorkingStep ==
  ASSUME Inv, UNCHANGED <<source, consumer, server, copied>>, pc # "publish",
         pc' \in {"refill", "sweep", "copy"},
         o_len' \in 0..Downstream, fetches' \in 0..MaxFetches, fetched' \in BOOLEAN
  PROVE  Inv'
<1>1. UNCHANGED <<sample_buffer, pending_breaks, epoch, published_geometry, produced,
                  max_packet_samples, last_end, sink, out, end, sent, copied>>
  BY DEF source, consumer, server
<1>2. TypeOK'
  <2>1. pc' \in {"idle", "refill", "sweep", "copy", "publish"}
    OBVIOUS
  <2> QED
    BY <1>1, <2>1 DEF Inv, TypeOK
<1>3. CallsAreInStep'
  BY <1>1 DEF Inv, CallsAreInStep
<1>4. /\ InQueue(sink, FALSE, produced + Len(copied))'
      /\ InQueue(pending_breaks, Announces(sink), Len(copied) + Len(sample_buffer))'
  BY <1>1 DEF Inv
<1>5. SinkIsBehind'
  BY <1>1 DEF Inv, SinkIsBehind
<1>6. PublishedIsLast' /\ EpochIsLast' /\ ForgottenIsFlagged'
  BY <1>1 DEF Inv, PublishedIsLast, EpochIsLast, ForgottenIsFlagged
<1> QED
  BY <1>2, <1>3, <1>4, <1>5, <1>6 DEF Inv

LEMMA WorkBeginsStep ==
  ASSUME Inv, NEW room \in 0..Downstream, WorkBegins(room)
  PROVE  Inv'
<1>1. /\ UNCHANGED <<source, consumer, server, copied, fetched>> /\ pc # "publish"
      /\ pc' = "refill" /\ o_len' = room /\ fetches' = 0
  BY DEF WorkBegins
<1>2. fetches' \in 0..MaxFetches /\ fetched' \in BOOLEAN
  BY <1>1, CapacityAssumption DEF Inv, TypeOK
<1> QED
  BY <1>1, <1>2, WorkingStep

LEMMA FetchBeginsStep ==
  ASSUME Inv, FetchBegins
  PROVE  Inv'
<1>1. /\ UNCHANGED <<source, consumer, server, copied, o_len>> /\ pc # "publish"
      /\ pc' = "sweep" /\ fetches' = fetches + 1 /\ fetches < MaxFetches /\ fetched' = FALSE
  BY DEF FetchBegins
<1>2. o_len' \in 0..Downstream /\ fetches' \in 0..MaxFetches
  BY <1>1, CapacityAssumption DEF Inv, TypeOK
<1> QED
  BY <1>1, <1>2, WorkingStep

LEMMA FetchEndsStep ==
  ASSUME Inv, FetchEnds
  PROVE  Inv'
<1>1. /\ UNCHANGED <<source, consumer, server, copied, o_len, fetches, fetched>> /\ pc # "publish"
      /\ pc' \in {"refill", "copy"}
  BY DEF FetchEnds
<1>2. o_len' \in 0..Downstream /\ fetches' \in 0..MaxFetches /\ fetched' \in BOOLEAN
  BY <1>1 DEF Inv, TypeOK
<1> QED
  BY <1>1, <1>2, WorkingStep

\* The queue a restart leaves: one gap at its front.
LEMMA OneGap ==
  ASSUME NEW told \in BOOLEAN, NEW q, q = <<Gap(0)>>
  PROVE  /\ InQueue(q, told, 0)
         /\ \A a : GapIn(q, a) <=> a = 0
         /\ \A k, before : WordAt(q, k, before) = before
<1>1. PICK b : b = Gap(0)
  OBVIOUS
<1>2. /\ b \in Break /\ b.at = 0 /\ b.kind = "gap" /\ b.geo = NoGeometry
      /\ q \in Seq(Break) /\ Len(q) = 1 /\ q[1] = b
  <2>1. b \in Break /\ b.at = 0 /\ b.kind = "gap" /\ b.geo = NoGeometry
    BY <1>1, GapIs
  <2> QED
    BY <1>1, <2>1
<1>3. /\ \A a : GapIn(q, a) <=> b.kind = "gap" /\ b.at = a
      /\ Sound(q) <=> IF b.kind = "gap" THEN b.geo = NoGeometry ELSE Declared(b.geo)
      /\ Rising(q)
      /\ \A most : Within(q, most) <=> b.at <= most
      /\ InitialIn(q, told) <=> (b.kind # "gap" => (b.kind = "initial" <=> ~told))
      /\ \A k, before : WordAt(q, k, before) = IF b.kind # "gap" /\ b.at <= k THEN b.geo ELSE before
  BY <1>2, SingleIs
<1>4. Within(q, 0)
  BY <1>2, <1>3
<1> QED
  BY <1>2, <1>3, <1>4 DEF InQueue

LEMMA WorkRestartsStep ==
  ASSUME Inv, NEW room \in 0..Downstream, WorkRestarts(room)
  PROVE  Inv'
<1>1. /\ pc = "idle" /\ copied = <<>>
      /\ sample_buffer' = <<>> /\ pending_breaks' = <<Gap(0)>> /\ epoch' = published_geometry
      /\ last_end' = <<>> /\ end' = end + 1 /\ sent' = sent + 1
      /\ pc' = "refill" /\ o_len' = room /\ fetches' = 0
      /\ UNCHANGED <<published_geometry, produced, max_packet_samples, fetched, copied, sink, out>>
  BY DEF WorkRestarts, cleanup_stream, Inv, CallsAreInStep, consumer
<1>2. /\ InQueue(pending_breaks', Announces(sink), 0)
      /\ \A a : GapIn(pending_breaks', a) <=> a = 0
      /\ \A k, before : WordAt(pending_breaks', k, before) = before
  <2>1. Announces(sink) \in BOOLEAN
    BY InvMeans
  <2> QED
    BY <1>1, <2>1, OneGap
<1>3. /\ Len(copied) = 0 /\ Len(sample_buffer') = 0 /\ produced \in Nat /\ sink \in Seq(Break)
      /\ \A i \in 1..Len(sink) : sink[i].at < produced + Len(copied)
      /\ pending_breaks' \in Seq(Break)
  BY <1>1, <1>2, InvMeans DEF InQueue
<1>4. TypeOK'
  <2>1. end' \in Int /\ sent' \in Nat /\ last_end' = <<>>
    BY <1>1 DEF Inv, TypeOK
  <2>2. pc' = "refill" /\ o_len' \in 0..Downstream /\ fetches' \in 0..MaxFetches
    BY <1>1, CapacityAssumption
  <2>3. /\ sample_buffer' \in Seq(Sample) /\ epoch' \in Geometry /\ published_geometry' \in Geometry
        /\ produced' \in Nat /\ max_packet_samples' \in Nat /\ copied' \in Seq(Sample)
        /\ sink' \in Seq(Break) /\ out' \in Seq(Sample) /\ fetched' \in BOOLEAN
    BY <1>1 DEF Inv, TypeOK
  <2> QED
    BY <1>3, <2>1, <2>2, <2>3 DEF TypeOK
<1>5. CallsAreInStep'
  BY <1>1 DEF Inv, CallsAreInStep
<1>6. InQueue(sink, FALSE, produced + Len(copied))'
  BY <1>1 DEF Inv
<1>7. InQueue(pending_breaks, Announces(sink), Len(copied) + Len(sample_buffer))'
  BY <1>1, <1>2, <1>3
<1>8. SinkIsBehind'
  <2>1. \A i \in 1..Len(sink) : sink[i].at < produced
    BY <1>3
  <2>2. \A i \in 1..Len(sink) : \A j \in 1..Len(pending_breaks') :
           sink[i].at < produced + pending_breaks'[j].at
    BY <1>3, <2>1, Behind
  <2> QED
    BY <1>1, <1>3, <2>2 DEF SinkIsBehind
<1>9. PublishedIsLast'
  BY <1>1 DEF Inv, PublishedIsLast
<1>10. EpochIsLast'
  BY <1>1, <1>2 DEF EpochIsLast
<1>11. ForgottenIsFlagged'
  BY <1>1, <1>2, <1>3 DEF ForgottenIsFlagged
<1> QED
  BY <1>4, <1>5, <1>6, <1>7, <1>8, <1>9, <1>10, <1>11 DEF Inv

LEMMA SplitsAt ==
  ASSUME NEW T, NEW q \in Seq(T), NEW m \in 0..Len(q)
  PROVE  SubSeq(q, 1, m) \o SubSeq(q, m + 1, Len(q)) = q
<1>1. Len(q) \in Nat
  OBVIOUS
<1>2. SubSeq(q, 1, m) \o SubSeq(q, m + 1, Len(q)) = SubSeq(q, 1, Len(q))
  <2>1. 1 \in 1..Len(q) + 1 /\ m \in 1-1..Len(q) /\ Len(q) \in m..Len(q)
    BY <1>1
  <2> QED
    BY <2>1, ConcatAdjacentSubSeq
<1>3. SubSeq(q, 1, Len(q)) = q
  BY SubSeqFull
<1> QED
  BY <1>2, <1>3

LEMMA CopyOutStep ==
  ASSUME Inv, CopyOut
  PROVE  Inv' /\ copied' \o sample_buffer' = sample_buffer /\ copied = <<>>
<1> DEFINE n == Smaller(Len(sample_buffer), o_len)
           L == Len(sample_buffer)
<1>1. /\ pc # "publish" /\ pc' = "publish" /\ copied = <<>>
      /\ copied' = SubSeq(sample_buffer, 1, n)
      /\ sample_buffer' = SubSeq(sample_buffer, n + 1, L)
      /\ UNCHANGED <<pending_breaks, epoch, published_geometry, produced, max_packet_samples,
                     last_end, o_len, fetches, fetched, sink, out, end, sent>>
  BY DEF CopyOut, Inv, CallsAreInStep, consumer, server
<1>2. L \in Nat /\ n \in 0..L /\ sample_buffer \in Seq(Sample) /\ Len(copied) = 0 /\ produced \in Nat
  BY <1>1 DEF Inv, TypeOK, Smaller
<1> HIDE DEF n
<1>3. /\ copied' \in Seq(Sample) /\ sample_buffer' \in Seq(Sample)
      /\ Len(copied') = n /\ Len(sample_buffer') = L - n
  BY <1>1, <1>2
<1>4. copied' \o sample_buffer' = sample_buffer
  BY <1>1, <1>2, SplitsAt
<1>5. Len(copied') + Len(sample_buffer') = Len(copied) + Len(sample_buffer)
  BY <1>2, <1>3
<1>6. TypeOK'
  BY <1>1, <1>3 DEF Inv, TypeOK
<1>7. CallsAreInStep'
  BY <1>1 DEF Inv, CallsAreInStep
<1>8. /\ InQueue(sink, FALSE, produced + Len(copied'))
      /\ WordAt(sink, produced + Len(copied'), NoGeometry) = WordAt(sink, produced + Len(copied), NoGeometry)
  <2>1. PICK x, y : x = produced + Len(copied) /\ y = produced + Len(copied')
    OBVIOUS
  <2>2. x \in Int /\ y \in Int /\ x <= y
    BY <1>2, <1>3, <2>1
  <2>3. PICK told, s : told = FALSE /\ s = sink
    OBVIOUS
  <2>4. InQueue(s, told, x)
    BY <2>1, <2>3 DEF Inv
  <2>5. /\ InQueue(s, told, y)
        /\ \A before : WordAt(s, y, before) = WordAt(s, x, before)
    BY <2>2, <2>4, MostGrows
  <2> QED
    BY <2>1, <2>3, <2>5
<1>9. InQueue(pending_breaks, Announces(sink), Len(copied) + Len(sample_buffer))'
  BY <1>1, <1>5 DEF Inv
<1>10. SinkIsBehind'
  <2>1. \A i \in 1..Len(sink) : sink[i].at \in Nat /\ sink[i].at < produced + Len(copied)
    BY InvMeans
  <2>2. \A i \in 1..Len(sink) : sink[i].at < produced + Len(copied')
    BY <1>2, <1>3, <2>1
  <2> QED
    BY <1>1, <2>2 DEF Inv, SinkIsBehind
<1>11. PublishedIsLast'
  BY <1>1, <1>8 DEF Inv, PublishedIsLast
<1>12. EpochIsLast'
  BY <1>1, <1>5 DEF Inv, EpochIsLast
<1>13. ForgottenIsFlagged'
  <2>1. produced + Len(copied') + Len(sample_buffer') = produced + Len(copied) + Len(sample_buffer)
    BY <1>2, <1>3
  <2> QED
    BY <1>1, <1>5, <2>1 DEF Inv, ForgottenIsFlagged
<1> QED
  BY <1>1, <1>4, <1>6, <1>7, <1>8, <1>9, <1>10, <1>11, <1>12, <1>13 DEF Inv

LEMMA ReportBoundaryStep ==
  ASSUME Inv, ReportBoundary
  PROVE  /\ Inv'
         /\ \A k \in Int : Ann(k)' = Ann(k) /\ (Hole(k)' <=> Hole(k))
         /\ Len(sink) <= Len(sink')
         /\ \A i \in 1..Len(sink) : sink'[i] = sink[i]
         /\ \A i \in 1..Len(sink') : i > Len(sink) =>
              /\ sink'[i].at >= Len(out)
              /\ \A j \in 1..Len(sink) : sink[j].at < sink'[i].at
<1> DEFINE geos == {i \in 1..FrontRun : pending_breaks[i].kind # "gap"}
           gap == \E i \in 1..FrontRun : pending_breaks[i].kind = "gap"
           told == pending_breaks[Latest(geos)].geo
           a == pending_breaks[1].at
           at == produced + a
           kind == GeometryKind(geos)
           rest == SubSeq(pending_breaks, FrontRun + 1, Len(pending_breaks))
           most == Len(copied) + Len(sample_buffer)
           b == [at |-> at, kind |-> kind, geo |-> told]
           s == sink
           p == pending_breaks
<1>1. /\ pc = "publish" /\ p # <<>> /\ a < Len(copied)
      /\ pending_breaks' = rest
      /\ published_geometry' = IF geos = {} THEN published_geometry ELSE told
      /\ UNCHANGED <<sample_buffer, epoch, produced, max_packet_samples, last_end,
                     pc, o_len, fetches, fetched, copied, out, end, sent>>
  BY DEF ReportBoundary, Due, working, server
<1>2. sink' = sink \o (IF gap /\ at # 0 THEN <<Gap(at)>> ELSE <<>>)
                   \o (IF geos = {} THEN <<>> ELSE <<b>>)
  BY DEF ReportBoundary
<1>3. /\ most \in Nat /\ produced \in Nat /\ Len(copied) \in Nat /\ Len(sample_buffer) \in Nat
      /\ Len(copied) <= most
      /\ s \in Seq(Break)
      /\ \A i \in 1..Len(s) : s[i].at \in Nat /\ s[i].at < produced + Len(copied)
      /\ \A i \in 1..Len(p) : p[i].at \in Nat
      /\ 1 \in 1..Len(p) /\ a \in Nat /\ at \in Nat
  <2>1. Len(p) \in Nat /\ p \in Seq(Break)
    BY InvMeans
  <2>2. 1 \in 1..Len(p)
    BY <1>1, <2>1, EmptySeq
  <2> QED
    BY <2>1, <2>2, InvMeans
<1>4. /\ \A i \in 1..Len(s) : s[i].at < at
      /\ InQueue(s, FALSE, at)
  <2>1. \A i \in 1..Len(s) : s[i].at < at
    BY <1>3 DEF Inv, SinkIsBehind
  <2>2. \A i \in 1..Len(s) : s[i].at <= at
    BY <1>3, <2>1
  <2> QED
    BY <2>1, <2>2 DEF Inv, InQueue, Within
<1>4a. Leaves(p, Announces(s), most, a, geos, gap, told, kind, rest)
  <2>1. InQueue(p, Announces(s), most)
    BY DEF Inv
  <2>2. /\ a = p[1].at
        /\ geos = {i \in 1..FrontRun : p[i].kind # "gap"}
        /\ gap = (\E i \in 1..FrontRun : p[i].kind = "gap")
        /\ told = p[Latest(geos)].geo
        /\ rest = SubSeq(p, FrontRun + 1, Len(p))
        /\ kind = GeometryKind(geos)
    OBVIOUS
  <2>3. Announces(s) \in BOOLEAN
    BY DEF Announces
  <2> HIDE DEF a, at, geos, gap, told, rest, kind, most, b
  <2> QED
    BY <1>1, <1>3, <2>1, <2>2, <2>3, Reporting
<1>5. /\ a <= most
      /\ InQueue(rest, Announces(s) \/ geos # {}, most)
      /\ \A i \in 1..Len(rest) : a < rest[i].at
      /\ geos # {} => /\ told \in Geometry /\ Declared(told)
                      /\ kind \in {"initial", "retune"}
                      /\ kind = "initial" <=> ~Announces(s)
      /\ \A k, before : WordAt(p, k, before)
                         = WordAt(rest, k, IF geos # {} /\ a <= k THEN told ELSE before)
      /\ \A x : GapIn(p, x) <=> GapIn(rest, x) \/ (gap /\ x = a)
  BY <1>4a DEF Leaves
<1> HIDE DEF geos, gap, told, a, kind, rest
<1>b. at < produced + Len(copied)
  BY <1>1, <1>3
<1>6. InQueue(sink', FALSE, at) /\ Records(s, gap /\ at # 0, geos # {}, told, at, sink')
  <2> DEFINE c1 == gap /\ at # 0
             c2 == geos # {}
             h == Gap(at)
  <2>1. c1 \in BOOLEAN /\ c2 \in BOOLEAN
    BY DEF gap
  <2>2. h \in Break /\ h.at = at /\ h.kind = "gap" /\ h.geo = NoGeometry
    BY <1>3, GapIs
  <2>3. sink' = Extension(Extension(s, c1, h), c2, b)
    <3>1. CASE c2
      BY <1>2, <3>1 DEF Extension
    <3>2. CASE ~c2
      BY <1>2, <3>2 DEF Extension
    <3> QED
      BY <3>1, <3>2
  <2>4. c2 => /\ b \in Break /\ b.at = at /\ b.kind = kind /\ b.geo = told
    <3>1. ASSUME c2 PROVE b \in Break
      BY <1>3, <1>5, <3>1 DEF Break
    <3> QED
      BY <3>1
  <2> HIDE DEF b, h, at, s, c2
  <2>5. c2 => Fits(b, at, Announces(s)) /\ b.kind # "gap" /\ b.geo = told
    BY <1>5, <2>4 DEF Fits, c2
  <2> HIDE DEF c1
  <2>6. InQueue(sink', FALSE, at) /\ Records(s, c1, c2, b.geo, at, sink')
    BY <1>3, <1>4, <2>1, <2>2, <2>3, <2>5, Recorded
  <2>7. Records(s, c1, c2, told, at, sink')
    BY <2>5, <2>6 DEF Records
  <2> QED
    BY <2>6, <2>7 DEF c1, c2
<1> HIDE DEF b
<1>7. \A k, before : WordAt(sink', k, before) = IF geos # {} /\ at <= k THEN told ELSE WordAt(s, k, before)
  BY <1>6 DEF Records
<1>8. TypeOK'
  <2>1. published_geometry' \in Geometry
    BY <1>1, <1>5 DEF Inv, TypeOK
  <2>2. sink' \in Seq(Break) /\ pending_breaks' \in Seq(Break)
    BY <1>1, <1>5, <1>6 DEF InQueue
  <2> QED
    BY <1>1, <2>1, <2>2 DEF Inv, TypeOK
<1>9. CallsAreInStep'
  BY <1>1 DEF Inv, CallsAreInStep
<1>10. /\ InQueue(sink', FALSE, produced + Len(copied))
       /\ WordAt(sink', produced + Len(copied), NoGeometry) = WordAt(sink', at, NoGeometry)
  <2>1. PICK no, x, y, q : no = FALSE /\ x = at /\ y = produced + Len(copied) /\ q = sink'
    OBVIOUS
  <2>2. x \in Int /\ y \in Int /\ x <= y
    BY <1>b, <1>3, <2>1
  <2>3. InQueue(q, no, x)
    BY <1>6, <2>1
  <2>4. /\ InQueue(q, no, y)
        /\ \A before : WordAt(q, y, before) = WordAt(q, x, before)
    BY <2>2, <2>3, MostGrows
  <2> QED
    BY <2>1, <2>4
<1>11. InQueue(pending_breaks', Announces(sink'), most)
  <2>1. Announces(sink') <=> Announces(s) \/ geos # {}
    BY <1>6 DEF Records
  <2>2. Announces(sink') = (Announces(s) \/ geos # {})
    BY <2>1 DEF Announces
  <2> QED
    BY <1>1, <1>5, <2>2
<1>12. /\ Len(s) \in Nat /\ Len(sink') \in Nat /\ Len(s) <= Len(sink')
       /\ \A i \in 1..Len(s) : sink'[i] = s[i]
       /\ \A i \in 1..Len(sink') : i > Len(s) => sink'[i].at = at
  BY <1>6 DEF Records
<1>13. \A i \in 1..Len(sink') : sink'[i].at \in Nat /\ sink'[i].at <= at
  <2> TAKE i \in 1..Len(sink')
  <2>0. PICK x : x = sink'[i].at
    OBVIOUS
  <2>1. CASE i \in 1..Len(s)
    <3>1. x = s[i].at /\ s[i].at \in Nat /\ s[i].at < at
      <4>1. sink'[i] = s[i]
        BY <1>12, <2>1
      <4>2. s[i].at \in Nat /\ s[i].at < at
        BY <1>3, <1>4, <2>1
      <4> QED
        BY <2>0, <4>1, <4>2
    <3> QED
      BY <1>3, <2>0, <3>1
  <2>2. CASE i > Len(s)
    <3>1. x = at
      BY <1>12, <2>0, <2>2
    <3> QED
      BY <1>3, <2>0, <3>1
  <2> QED
    BY <1>12, <2>1, <2>2
<1>14. SinkIsBehind'
  <2>1. at < produced + Len(copied) /\ \A j \in 1..Len(rest) : at < produced + rest[j].at
    <3>1. \A j \in 1..Len(rest) : rest[j].at \in Nat
      BY <1>5, BreaksAre DEF InQueue
    <3> QED
      BY <1>1, <1>3, <1>5, <3>1
  <2>2. \A j \in 1..Len(rest) : rest[j].at \in Nat
    BY <1>5, BreaksAre DEF InQueue
  <2> HIDE DEF at
  <2>3. \A i \in 1..Len(sink') : /\ sink'[i].at < produced + Len(copied)
                                 /\ \A j \in 1..Len(rest) : sink'[i].at < produced + rest[j].at
    <3> SUFFICES ASSUME NEW i \in 1..Len(sink')
                 PROVE  /\ sink'[i].at < produced + Len(copied)
                        /\ \A j \in 1..Len(rest) : sink'[i].at < produced + rest[j].at
      OBVIOUS
    <3>1. PICK x : x = sink'[i].at
      OBVIOUS
    <3>2. x \in Nat /\ x <= at
      BY <1>13, <3>1
    <3>3. x < produced + Len(copied)
      BY <1>3, <2>1, <3>2
    <3>4. \A j \in 1..Len(rest) : x < produced + rest[j].at
      BY <1>3, <2>1, <2>2, <3>2, SMTT(30)
    <3> QED
      BY <3>1, <3>3, <3>4
  <2> QED
    BY <1>1, <2>3 DEF SinkIsBehind
<1>15. PublishedIsLast'
  <2>1. published_geometry = WordAt(s, at, NoGeometry)
    <3>1. PICK no, x, y, q : no = FALSE /\ x = at /\ y = produced + Len(copied) /\ q = s
      OBVIOUS
    <3>2. x \in Int /\ y \in Int /\ x <= y
      BY <1>b, <1>3, <3>1
    <3>3. InQueue(q, no, x)
      BY <1>4, <3>1
    <3>4. \A before : WordAt(q, y, before) = WordAt(q, x, before)
      BY <3>2, <3>3, MostGrows
    <3> QED
      BY <3>1, <3>4 DEF Inv, PublishedIsLast
  <2>2. at <= at
    BY <1>3
  <2>3. WordAt(sink', at, NoGeometry) = IF geos # {} THEN told ELSE WordAt(s, at, NoGeometry)
    BY <1>7, <2>2
  <2>4. published_geometry' = WordAt(sink', produced + Len(copied), NoGeometry)
    BY <1>1, <1>10, <2>1, <2>3
  <2> QED
    BY <1>1, <2>4 DEF PublishedIsLast
<1>16. EpochIsLast'
  <2>1. epoch = WordAt(p, most, published_geometry)
    BY DEF Inv, EpochIsLast
  <2>2. WordAt(p, most, published_geometry)
          = WordAt(rest, most, IF geos # {} THEN told ELSE published_geometry)
    BY <1>5
  <2> QED
    BY <1>1, <2>1, <2>2 DEF EpochIsLast
<1>17. ForgottenIsFlagged'
  <2>1. most # a
    BY <1>1, <1>3
  <2>2. GapIn(p, most) <=> GapIn(rest, most)
    BY <1>5, <2>1
  <2> QED
    BY <1>1, <2>2 DEF Inv, ForgottenIsFlagged
<1>18. ASSUME NEW k \in Int
       PROVE  Ann(k)' = Ann(k) /\ (Hole(k)' <=> Hole(k))
  <2>1. at <= k <=> a <= k - produced
    BY <1>3
  <2>2. k = at <=> k - produced = a
    BY <1>3
  <2>3. /\ Ann(k)' = WordAt(rest, k - produced, WordAt(sink', k, NoGeometry))
        /\ Ann(k) = WordAt(p, k - produced, WordAt(s, k, NoGeometry))
    BY <1>1 DEF Ann
  <2>4. Ann(k)' = Ann(k)
    <3>1. PICK x, w : x = k - produced /\ w = WordAt(s, k, NoGeometry)
      OBVIOUS
    <3>2. WordAt(sink', k, NoGeometry) = IF geos # {} /\ a <= x THEN told ELSE w
      BY <1>7, <2>1, <3>1
    <3>3. WordAt(p, x, w) = WordAt(rest, x, IF geos # {} /\ a <= x THEN told ELSE w)
      BY <1>5
    <3> QED
      BY <2>3, <3>1, <3>2, <3>3
  <2>5. /\ Hole(k)' <=> k > 0 /\ (GapIn(sink', k) \/ GapIn(rest, k - produced))
        /\ Hole(k) <=> k > 0 /\ (GapIn(s, k) \/ GapIn(p, k - produced))
    BY <1>1 DEF Hole
  <2>6. /\ GapIn(sink', k) <=> GapIn(s, k) \/ (gap /\ at # 0 /\ k = at)
        /\ GapIn(p, k - produced) <=> GapIn(rest, k - produced) \/ (gap /\ k - produced = a)
    BY <1>5, <1>6 DEF Records
  <2>7. Hole(k)' <=> Hole(k)
    <3>1. k > 0 => (at # 0 /\ k = at <=> k - produced = a)
      BY <2>2
    <3> QED
      BY <2>5, <2>6, <3>1
  <2> QED
    BY <2>4, <2>7
<1>19. ASSUME NEW i \in 1..Len(sink'), i > Len(sink)
       PROVE  /\ sink'[i].at >= Len(out)
              /\ \A j \in 1..Len(sink) : sink[j].at < sink'[i].at
  <2>1. sink'[i].at = at /\ Len(out) = produced
    BY <1>12, <1>19 DEF Inv, CallsAreInStep
  <2> QED
    BY <1>3, <1>4, <2>1
<1> QED
  BY <1>1, <1>8, <1>9, <1>10, <1>11, <1>12, <1>14, <1>15, <1>16, <1>17, <1>18, <1>19 DEF Inv

LEMMA PublishStep ==
  ASSUME Inv, Publish
  PROVE  /\ Inv'
         /\ \A k \in Int : Ann(k)' = Ann(k) /\ (Hole(k)' <=> Hole(k))
<1> DEFINE c == Len(copied)
           L == Len(sample_buffer)
           p == pending_breaks
           r == Rebase(p, c)
<1>1. /\ pc = "publish" /\ ~Due
      /\ pending_breaks' = r /\ produced' = produced + c /\ out' = out \o copied /\ copied' = <<>>
      /\ pc' = "idle" /\ o_len' = 0 /\ fetches' = 0 /\ fetched' = FALSE
      /\ UNCHANGED <<sample_buffer, epoch, published_geometry, max_packet_samples,
                     last_end, sink, end, sent>>
  BY DEF Publish, server
<1>2. /\ c \in Nat /\ L \in Nat /\ produced \in Nat /\ produced = Len(out)
      /\ p \in Seq(Break) /\ Len(p) \in Nat /\ \A i \in 1..Len(p) : p[i].at \in Nat
      /\ copied \in Seq(Sample) /\ out \in Seq(Sample)
      /\ sink \in Seq(Break) /\ \A i \in 1..Len(sink) : sink[i].at \in Nat /\ sink[i].at < produced + c
      /\ InQueue(p, Announces(sink), c + L) /\ Announces(sink) \in BOOLEAN
  BY InvMeans DEF Inv, CallsAreInStep, TypeOK
<1>3. \A i \in 1..Len(p) : c <= p[i].at
  <2> TAKE i \in 1..Len(p)
  <2>1. p # <<>> /\ 1 \in 1..Len(p)
    BY <1>2
  <2>2. c <= p[1].at
    BY <1>1, <1>2, <2>1 DEF Due
  <2>3. i = 1 \/ p[1].at <= p[i].at
    BY <1>2, <2>1 DEF InQueue, Rising
  <2> QED
    BY <1>2, <2>1, <2>2, <2>3
<1>4. /\ InQueue(r, Announces(sink), L)
      /\ \A k \in Int : \A w : WordAt(r, k, w) = WordAt(p, k + c, w)
      /\ \A a \in Int : GapIn(r, a) <=> GapIn(p, a + c)
  <2> HIDE DEF c, L, p
  <2> QED
    BY <1>2, <1>3, Rebased
<1> HIDE DEF r
<1>5. TypeOK'
  <2>1. pc' = "idle" /\ o_len' \in 0..Downstream /\ fetches' \in 0..MaxFetches /\ fetched' \in BOOLEAN
    <3>1. 0 \in 0..Downstream /\ 0 \in 0..MaxFetches
      BY CapacityAssumption
    <3> QED
      BY <1>1, <3>1
  <2>2. /\ pending_breaks' \in Seq(Break) /\ produced' \in Nat /\ copied' \in Seq(Sample)
        /\ out' \in Seq(Sample)
    BY <1>1, <1>2, <1>4 DEF InQueue
  <2>3. /\ sample_buffer' \in Seq(Sample) /\ epoch' \in Geometry /\ published_geometry' \in Geometry
        /\ max_packet_samples' \in Nat /\ sink' \in Seq(Break) /\ end' \in Int /\ sent' \in Nat
        /\ last_end' \in {<<>>} \cup {<<t>> : t \in {end'}}
    BY <1>1 DEF Inv, TypeOK
  <2> QED
    BY <2>1, <2>2, <2>3 DEF TypeOK
<1>6. CallsAreInStep'
  BY <1>1, <1>2 DEF CallsAreInStep
<1>7. Len(copied') = 0 /\ produced' + Len(copied') = produced + c
  BY <1>1, <1>2
<1>8. InQueue(sink, FALSE, produced + Len(copied))'
  BY <1>1, <1>7 DEF Inv
<1>9. InQueue(pending_breaks, Announces(sink), Len(copied) + Len(sample_buffer))'
  BY <1>1, <1>2, <1>4, <1>7
<1>10. SinkIsBehind'
  <2>1. PICK P : P = produced + c
    OBVIOUS
  <2>2. P \in Nat /\ r \in Seq(Break)
    BY <1>2, <1>4, <2>1 DEF InQueue
  <2>3. \A i \in 1..Len(sink) : \A j \in 1..Len(r) : sink[i].at < P + r[j].at
    BY <1>2, <2>1, <2>2, Behind
  <2> QED
    BY <1>1, <1>2, <1>7, <2>1, <2>3 DEF SinkIsBehind
<1>11. PublishedIsLast'
  BY <1>1, <1>7 DEF Inv, PublishedIsLast
<1>12. EpochIsLast'
  <2>1. WordAt(r, L, published_geometry) = WordAt(p, L + c, published_geometry) /\ L + c = c + L
    BY <1>2, <1>4
  <2> QED
    BY <1>1, <1>2, <1>7, <2>1 DEF Inv, EpochIsLast
<1>13. ForgottenIsFlagged'
  <2>1. (GapIn(r, L) <=> GapIn(p, L + c)) /\ L + c = c + L
    BY <1>2, <1>4
  <2> QED
    BY <1>1, <1>2, <1>7, <2>1 DEF Inv, ForgottenIsFlagged
<1>14. ASSUME NEW k \in Int
       PROVE  Ann(k)' = Ann(k) /\ (Hole(k)' <=> Hole(k))
  <2>1. PICK x : x = k - (produced + c)
    OBVIOUS
  <2>2. x \in Int /\ x + c = k - produced
    BY <1>2, <2>1
  <2>3. WordAt(r, x, WordAt(sink, k, NoGeometry)) = WordAt(p, k - produced, WordAt(sink, k, NoGeometry))
    BY <1>4, <2>2
  <2>4. GapIn(r, x) <=> GapIn(p, k - produced)
    BY <1>4, <2>2
  <2> QED
    BY <1>1, <2>1, <2>3, <2>4 DEF Ann, Hole
<1> QED
  BY <1>5, <1>6, <1>8, <1>9, <1>10, <1>11, <1>12, <1>13, <1>14 DEF Inv

LEMMA CapacityIs ==
  ASSUME NEW m \in Nat
  PROVE  buffer_capacity(m) \in Nat /\ buffer_capacity(m) >= 1 /\ buffer_capacity(m) >= m
<1>1. PICK x : x = CapacityFactor * m
  OBVIOUS
<1>2. x \in Nat /\ BufferSize \in Nat /\ Downstream \in Nat
  BY <1>1, CapacityAssumption
<1> QED
  BY <1>1, <1>2 DEF buffer_capacity, refill_capacity, Larger

\* What a packet of n samples stamped t0 does, by the parts of IqPacket.
Jumped(t0) == last_end # <<>> /\ last_end # <<t0>>
Overflow(n) ==
  Larger(Len(sample_buffer) + n - buffer_capacity(Larger(max_packet_samples, n)), 0)

\* The queue after the packet: shifted by what was trimmed, with the packet's news
\* behind the last sample held before it.
PacketNoted(p, t0, n, g, q) ==
  /\ \A m \in Nat : \A w : WordAt(q, m, w)
        = IF GeometryNews(epoch, g) # {} /\ Len(sample_buffer) <= m + Overflow(n)
          THEN g ELSE WordAt(p, m + Overflow(n), w)
  /\ \A m \in Nat : GapIn(q, m) <=>
        \/ m = 0 /\ Overflow(n) > 0
        \/ GapIn(p, m + Overflow(n))
        \/ Jumped(t0) /\ m + Overflow(n) = Len(sample_buffer)

LEMMA PacketSamplesAre ==
  ASSUME NEW t0 \in Int, NEW first \in Nat, NEW n \in Nat, NEW g \in Geometry
  PROVE  /\ PacketSamples(t0, first, n, g) \in Seq(Sample)
         /\ Len(PacketSamples(t0, first, n, g)) = n
<1> DEFINE s == PacketSamples(t0, first, n, g)
<1>1. s = [j \in 1..n |-> [t |-> t0 + j - 1, nr |-> first + j, geo |-> g]]
  BY DEF PacketSamples
<1>2. \A j \in 1..n : t0 + j - 1 \in Int /\ first + j \in Nat
  OBVIOUS
<1>3. \A j \in 1..n : [t |-> t0 + j - 1, nr |-> first + j, geo |-> g] \in Sample
  BY <1>2 DEF Sample
<1> HIDE DEF s
<1>4. s \in [1..n -> Sample]
  BY <1>1, <1>3
<1>5. s \in Seq(Sample) /\ Len(s) = n
  BY <1>4
<1> QED
  BY <1>5 DEF s

LEMMA IqPacketQueue ==
  ASSUME Inv, copied = <<>>, NEW t0 \in Int, NEW n \in Nat, NEW g \in Geometry,
         NEW gapped, gapped = IF Jumped(t0) THEN note_gap(pending_breaks, Len(sample_buffer))
                              ELSE pending_breaks,
         NEW noted, noted = note_geometry(gapped, Len(sample_buffer), GeometryNews(epoch, g), g),
         NEW q, q = IF Overflow(n) > 0 THEN note_trim(noted, Overflow(n)) ELSE noted
  PROVE  /\ Overflow(n) \in 0..(Len(sample_buffer) + n)
         /\ Overflow(n) <= Len(sample_buffer)
         /\ Overflow(n) < Len(sample_buffer) + n \/ Overflow(n) = 0
         /\ InQueue(q, Announces(sink), Len(sample_buffer) + n - Overflow(n))
         /\ PacketNoted(pending_breaks, t0, n, g, q)
         /\ EpochAfter(epoch, GeometryNews(epoch, g), g)
               = WordAt(q, Len(sample_buffer) + n - Overflow(n), published_geometry)
<1> DEFINE at == Len(sample_buffer)
           d == Overflow(n)
           told == Announces(sink)
           news == GeometryNews(epoch, g)
           p == pending_breaks
           J == Jumped(t0)
<1>1. /\ at \in Nat /\ Len(copied) = 0 /\ told \in BOOLEAN
      /\ Declared(published_geometry) <=> told
  BY InvMeans
<1>2. d \in 0..(at + n) /\ d <= at /\ (d < at + n \/ d = 0)
  <2>1. max_packet_samples \in Nat
    BY DEF Inv, TypeOK
  <2>2. PICK m : m = Larger(max_packet_samples, n)
    OBVIOUS
  <2>3. m \in Nat /\ n <= m
    BY <2>1, <2>2 DEF Larger
  <2>4. PICK cap : cap = buffer_capacity(m)
    OBVIOUS
  <2>5. cap \in Nat /\ cap >= 1 /\ cap >= m
    BY <2>3, <2>4, CapacityIs
  <2>6. d = Larger(at + n - cap, 0)
    BY <2>2, <2>4 DEF Overflow
  <2> HIDE DEF d, at
  <2> QED
    BY <1>1, <2>3, <2>5, <2>6 DEF Larger
<1>3. InQueue(p, told, at) /\ epoch = WordAt(p, at, published_geometry)
  <2>1. Len(copied) + Len(sample_buffer) = Len(sample_buffer)
    BY <1>1
  <2> QED
    BY <2>1 DEF Inv, EpochIsLast
<1>4. /\ J => gapped = note_gap(p, at)
      /\ ~J => gapped = p
      /\ noted = note_geometry(gapped, at, news, g)
      /\ q = IF d > 0 THEN note_trim(noted, d) ELSE noted
  OBVIOUS
<1> HIDE DEF at, d, told, p, J
<1>5. /\ InQueue(gapped, told, at)
      /\ \A a : GapIn(gapped, a) <=> GapIn(p, a) \/ (J /\ a = at)
      /\ \A k, w : WordAt(gapped, k, w) = WordAt(p, k, w)
  <2>1. CASE J
    <3>1. /\ InQueue(note_gap(p, at), told, at)
          /\ \A a : GapIn(note_gap(p, at), a) <=> GapIn(p, a) \/ a = at
          /\ \A k, w : WordAt(note_gap(p, at), k, w) = WordAt(p, k, w)
      BY <1>1, <1>3, GapNoted
    <3> QED
      BY <1>4, <2>1, <3>1
  <2>2. CASE ~J
    BY <1>3, <1>4, <2>2
  <2> QED
    BY <2>1, <2>2
<1>6. /\ InQueue(noted, told, at)
      /\ \A a : GapIn(noted, a) <=> GapIn(gapped, a)
      /\ \A k, w : WordAt(noted, k, w) = IF news # {} /\ at <= k THEN g ELSE WordAt(gapped, k, w)
  <2>1. epoch = WordAt(gapped, at, published_geometry)
    BY <1>3, <1>5
  <2>2. PICK e, before : e = epoch /\ before = published_geometry
    OBVIOUS
  <2>3. /\ e = WordAt(gapped, at, before) /\ (Declared(before) <=> told)
        /\ noted = note_geometry(gapped, at, GeometryNews(e, g), g)
    BY <1>1, <1>4, <2>1, <2>2
  <2>4. /\ InQueue(noted, told, at)
        /\ \A a : GapIn(noted, a) <=> GapIn(gapped, a)
        /\ \A k, w : WordAt(noted, k, w)
                      = IF GeometryNews(e, g) # {} /\ at <= k THEN g ELSE WordAt(gapped, k, w)
    BY <1>1, <1>5, <2>3, GeometryNoted
  <2> QED
    BY <2>2, <2>4
<1> HIDE DEF news
<1>7. InQueue(noted, told, at + n)
  <2>1. at + n \in Int /\ at <= at + n
    BY <1>1
  <2> QED
    BY <1>1, <1>6, <2>1, MostGrows
<1>8. /\ InQueue(q, told, at + n - d)
      /\ \A m \in Nat : GapIn(q, m) <=> (m = 0 /\ d > 0) \/ GapIn(noted, m + d)
      /\ \A m \in Nat : \A w : WordAt(q, m, w) = WordAt(noted, m + d, w)
  <2>1. CASE d > 0
    <3>1. PICK most : most = at + n
      OBVIOUS
    <3>a. q = note_trim(noted, d) /\ most \in Nat /\ d \in 0..most /\ InQueue(noted, told, most)
      BY <1>1, <1>2, <1>4, <1>7, <2>1, <3>1
    <3>2. /\ InQueue(q, told, most - d)
          /\ GapIn(q, 0)
          /\ \A a \in Nat \ {0} : GapIn(q, a) <=> GapIn(noted, a + d)
          /\ \A m \in Nat : \A w : WordAt(q, m, w) = WordAt(noted, m + d, w)
      BY <1>1, <3>a, TrimNoted
    <3>3. ASSUME NEW m \in Nat
          PROVE  GapIn(q, m) <=> (m = 0 /\ d > 0) \/ GapIn(noted, m + d)
      <4>1. CASE m = 0
        BY <2>1, <3>2, <4>1
      <4>2. CASE m # 0
        BY <3>2, <4>2
      <4> QED
        BY <4>1, <4>2
    <3>4. at + n - d = most - d
      BY <1>1, <1>2, <3>1
    <3>5. InQueue(q, told, at + n - d)
      BY <3>2, <3>4
    <3> QED
      BY <3>1, <3>2, <3>3, <3>5
  <2>2. CASE d = 0
    <3>1. q = noted /\ at + n - d = at + n /\ \A m \in Nat : m + d = m
      BY <1>1, <1>4, <2>2
    <3> QED
      BY <1>7, <2>2, <3>1
  <2> QED
    BY <1>1, <1>2, <2>1, <2>2
<1>9. \A m \in Nat : GapIn(q, m) <=> (m = 0 /\ d > 0) \/ GapIn(p, m + d) \/ (J /\ m + d = at)
  BY <1>5, <1>6, <1>8
<1>10. \A m \in Nat : \A w : WordAt(q, m, w)
          = IF news # {} /\ at <= m + d THEN g ELSE WordAt(p, m + d, w)
  BY <1>5, <1>6, <1>8
<1>11. EpochAfter(epoch, news, g) = WordAt(q, at + n - d, published_geometry)
  <2>1. at + n - d \in Nat /\ (at + n - d) + d = at + n /\ at <= at + n
    BY <1>1, <1>2
  <2>2. WordAt(q, at + n - d, published_geometry)
          = IF news # {} THEN g ELSE WordAt(p, at + n, published_geometry)
    BY <1>10, <2>1
  <2>3. WordAt(p, at + n, published_geometry) = WordAt(p, at, published_geometry)
    <3>1. PICK more : more = at + n
      OBVIOUS
    <3>2. more \in Int /\ at <= more
      BY <1>1, <3>1
    <3>3. /\ InQueue(p, told, more)
          /\ \A w : WordAt(p, more, w) = WordAt(p, at, w)
      <4>1. at \in Int /\ InQueue(p, told, at)
        BY <1>1, <1>3
      <4> QED
        BY <3>2, <4>1, MostGrows
    <3> QED
      BY <3>1, <3>3
  <2> QED
    BY <1>3, <2>2, <2>3 DEF EpochAfter
<1>12. PacketNoted(p, t0, n, g, q)
  BY <1>9, <1>10 DEF PacketNoted, at, d, news, J
<1> QED
  BY <1>2, <1>8, <1>11, <1>12 DEF at, d, told, news, p

\* What IqPacket does, in the terms of IqPacketQueue.
First(t0) == IF t0 = end THEN sent ELSE sent + 1

LEMMA IqPacketMeans ==
  ASSUME Inv, NEW t0 \in Int, NEW n \in Nat, NEW g \in Geometry, IqPacket(t0, n, g)
  PROVE  /\ copied = <<>> /\ copied' = <<>> /\ pc = "sweep" /\ First(t0) + n <= MaxSamples
         /\ last_end' = <<t0 + n>> /\ end' = t0 + n /\ sent' = First(t0) + n
         /\ sample_buffer' = SubSeq(sample_buffer \o PacketSamples(t0, First(t0), n, g),
                                    Overflow(n) + 1, Len(sample_buffer) + n)
         /\ max_packet_samples' \in Nat /\ fetched' \in BOOLEAN
         /\ UNCHANGED <<published_geometry, produced, pc, o_len, fetches, copied, sink, out>>
         /\ Overflow(n) \in 0..(Len(sample_buffer) + n)
         /\ Overflow(n) <= Len(sample_buffer)
         /\ Overflow(n) < Len(sample_buffer) + n \/ Overflow(n) = 0
         /\ InQueue(pending_breaks', Announces(sink), Len(sample_buffer) + n - Overflow(n))
         /\ PacketNoted(pending_breaks, t0, n, g, pending_breaks')
         /\ epoch' = EpochAfter(epoch, GeometryNews(epoch, g), g)
         /\ epoch' = WordAt(pending_breaks', Len(sample_buffer) + n - Overflow(n), published_geometry)
<1> DEFINE s == PacketSamples(t0, First(t0), n, g)
           grown == sample_buffer \o s
           widest == Larger(max_packet_samples, n)
           gapped == IF Jumped(t0) THEN note_gap(pending_breaks, Len(sample_buffer)) ELSE pending_breaks
           news == GeometryNews(epoch, g)
           noted == note_geometry(gapped, Len(sample_buffer), news, g)
<1>1. /\ pc = "sweep" /\ First(t0) + n <= MaxSamples
      /\ last_end' = <<t0 + n>> /\ end' = t0 + n /\ sent' = First(t0) + n
      /\ max_packet_samples' = widest
      /\ fetched' = (fetched \/ n > 0)
      /\ epoch' = EpochAfter(epoch, news, g)
      /\ UNCHANGED <<published_geometry, produced, pc, o_len, fetches, copied, sink, out>>
  BY DEF IqPacket, consumer, First
<1>2. /\ First(t0) \in Nat /\ sample_buffer \in Seq(Sample) /\ Len(sample_buffer) \in Nat
      /\ copied = <<>> /\ max_packet_samples \in Nat
  BY <1>1 DEF Inv, TypeOK, CallsAreInStep, First
<1>3. Len(grown) = Len(sample_buffer) + n
  <2>1. s \in Seq(Sample) /\ Len(s) = n
    BY <1>2, PacketSamplesAre
  <2> HIDE DEF s
  <2> QED
    BY <1>2, <2>1
<1>4. Overflow(n) = Larger(Len(grown) - buffer_capacity(widest), 0)
  <2>1. PICK cap : cap = buffer_capacity(widest)
    OBVIOUS
  <2>2. widest \in Nat
    BY <1>2 DEF Larger
  <2> HIDE DEF grown, widest
  <2>3. cap \in Nat
    BY <2>1, <2>2, CapacityIs
  <2>4. Len(sample_buffer) + n - cap = Len(grown) - cap
    BY <1>2, <1>3, <2>3
  <2> QED
    BY <2>1, <2>4 DEF Overflow, widest
<1>5. /\ sample_buffer' = SubSeq(grown, Overflow(n) + 1, Len(sample_buffer) + n)
      /\ pending_breaks' = IF Overflow(n) > 0 THEN note_trim(noted, Overflow(n)) ELSE noted
  <2> HIDE DEF noted
  <2>1. /\ sample_buffer' = SubSeq(grown, Larger(Len(grown) - buffer_capacity(widest), 0) + 1, Len(grown))
        /\ pending_breaks' = IF Larger(Len(grown) - buffer_capacity(widest), 0) > 0
                             THEN note_trim(noted, Larger(Len(grown) - buffer_capacity(widest), 0))
                             ELSE noted
    BY DEF IqPacket, First, Jumped, noted
  <2> QED
    BY <1>3, <1>4, <2>1
<1>6. max_packet_samples' \in Nat /\ fetched' \in BOOLEAN
  BY <1>1, <1>2 DEF Larger
<1>7. /\ Overflow(n) \in 0..(Len(sample_buffer) + n)
      /\ Overflow(n) <= Len(sample_buffer)
      /\ Overflow(n) < Len(sample_buffer) + n \/ Overflow(n) = 0
      /\ InQueue(pending_breaks', Announces(sink), Len(sample_buffer) + n - Overflow(n))
      /\ PacketNoted(pending_breaks, t0, n, g, pending_breaks')
      /\ EpochAfter(epoch, news, g)
            = WordAt(pending_breaks', Len(sample_buffer) + n - Overflow(n), published_geometry)
  <2>1. PICK q1, q2, q : q1 = gapped /\ q2 = noted /\ q = pending_breaks'
    OBVIOUS
  <2>2. /\ q1 = IF Jumped(t0) THEN note_gap(pending_breaks, Len(sample_buffer)) ELSE pending_breaks
        /\ q2 = note_geometry(q1, Len(sample_buffer), GeometryNews(epoch, g), g)
        /\ q = IF Overflow(n) > 0 THEN note_trim(q2, Overflow(n)) ELSE q2
    BY <1>5, <2>1
  <2> HIDE DEF gapped, noted, news
  <2>3. /\ Overflow(n) \in 0..(Len(sample_buffer) + n)
        /\ Overflow(n) <= Len(sample_buffer)
        /\ Overflow(n) < Len(sample_buffer) + n \/ Overflow(n) = 0
        /\ InQueue(q, Announces(sink), Len(sample_buffer) + n - Overflow(n))
        /\ PacketNoted(pending_breaks, t0, n, g, q)
        /\ EpochAfter(epoch, GeometryNews(epoch, g), g)
              = WordAt(q, Len(sample_buffer) + n - Overflow(n), published_geometry)
    BY <1>2, <2>2, IqPacketQueue
  <2> QED
    BY <2>1, <2>3 DEF news
<1> QED
  BY <1>1, <1>2, <1>5, <1>6, <1>7

LEMMA RestIs ==
  ASSUME NEW T, NEW q \in Seq(T), NEW m \in 0..Len(q)
  PROVE  /\ SubSeq(q, m + 1, Len(q)) \in Seq(T)
         /\ Len(SubSeq(q, m + 1, Len(q))) = Len(q) - m
         /\ \A i \in 1..(Len(q) - m) : SubSeq(q, m + 1, Len(q))[i] = q[m + i]
OBVIOUS

LEMMA IqPacketStep ==
  ASSUME Inv, NEW t0 \in Int, NEW n \in Nat, NEW g \in Geometry, IqPacket(t0, n, g)
  PROVE  Inv'
<1> DEFINE L == Len(sample_buffer)
           d == Overflow(n)
           most == L + n - d
<1>1. /\ copied = <<>> /\ copied' = <<>> /\ pc = "sweep"
      /\ last_end' = <<t0 + n>> /\ end' = t0 + n /\ sent' = First(t0) + n
      /\ sample_buffer' = SubSeq(sample_buffer \o PacketSamples(t0, First(t0), n, g), d + 1, L + n)
      /\ max_packet_samples' \in Nat /\ fetched' \in BOOLEAN
      /\ UNCHANGED <<published_geometry, produced, pc, o_len, fetches, copied, sink, out>>
      /\ d \in 0..(L + n)
      /\ InQueue(pending_breaks', Announces(sink), most)
      /\ epoch' = EpochAfter(epoch, GeometryNews(epoch, g), g)
      /\ epoch' = WordAt(pending_breaks', most, published_geometry)
  BY IqPacketMeans
<1>2. /\ sample_buffer \in Seq(Sample) /\ L \in Nat /\ First(t0) \in Nat /\ produced \in Nat
      /\ sink \in Seq(Break)
      /\ \A i \in 1..Len(sink) : sink[i].at < produced + Len(copied)
      /\ Len(copied) = 0
  <2>1. sample_buffer \in Seq(Sample) /\ sent \in Nat
    BY DEF Inv, TypeOK
  <2>2. First(t0) \in Nat
    BY <2>1 DEF First
  <2>3. Len(copied) = 0
    BY <1>1
  <2> QED
    BY <2>1, <2>2, <2>3, InvMeans
<1>3. sample_buffer' \in Seq(Sample) /\ Len(sample_buffer') = most
  <2>1. PICK s : s = PacketSamples(t0, First(t0), n, g)
    OBVIOUS
  <2>2. s \in Seq(Sample) /\ Len(s) = n
    BY <1>2, <2>1, PacketSamplesAre, SMTT(30)
  <2>3. PICK w : w = sample_buffer \o s
    OBVIOUS
  <2>4. w \in Seq(Sample) /\ Len(w) = L + n
    BY <1>2, <2>2, <2>3, ConcatProperties
  <2>5. sample_buffer' = SubSeq(w, d + 1, Len(w))
    BY <1>1, <2>1, <2>3, <2>4
  <2> HIDE DEF L, d
  <2>6. sample_buffer' \in Seq(Sample) /\ Len(sample_buffer') = Len(w) - d
    <3>1. d \in 0..Len(w)
      BY <1>1, <2>4
    <3> QED
      BY <2>4, <2>5, <3>1, RestIs
  <2>7. Len(w) - d = most
    BY <1>1, <1>2, <2>4
  <2> QED
    BY <2>6, <2>7
<1> HIDE DEF d, L, most
<1>4. TypeOK'
  <2>1. /\ epoch' \in Geometry /\ published_geometry' \in Geometry
        /\ produced' \in Nat /\ copied' \in Seq(Sample) /\ pc' = "sweep"
        /\ o_len' \in 0..Downstream /\ fetches' \in 0..MaxFetches
        /\ sink' \in Seq(Break) /\ out' \in Seq(Sample)
    BY <1>1 DEF Inv, TypeOK, EpochAfter
  <2>2. end' \in Int /\ sent' \in Nat /\ last_end' \in {<<>>} \cup {<<t>> : t \in {end'}}
    BY <1>1, <1>2, SMTT(30)
  <2>3. pending_breaks' \in Seq(Break)
    BY <1>1 DEF InQueue
  <2> QED
    BY <1>1, <1>3, <2>1, <2>2, <2>3 DEF TypeOK
<1>5. CallsAreInStep'
  BY <1>1 DEF Inv, CallsAreInStep
<1>6. InQueue(sink, FALSE, produced + Len(copied))'
  BY <1>1 DEF Inv
<1>7. Len(copied') + Len(sample_buffer') = most
  BY <1>1, <1>2, <1>3 DEF most
<1>8. InQueue(pending_breaks, Announces(sink), Len(copied) + Len(sample_buffer))'
  BY <1>1, <1>7
<1>9. SinkIsBehind'
  <2>1. \A i \in 1..Len(sink) : sink[i].at < produced
    BY <1>2
  <2>2. \A i \in 1..Len(sink) : \A j \in 1..Len(pending_breaks') :
           sink[i].at < produced + pending_breaks'[j].at
    BY <1>1, <1>2, <2>1, Behind DEF InQueue
  <2> QED
    BY <1>1, <1>2, <2>2 DEF SinkIsBehind
<1>10. PublishedIsLast'
  BY <1>1 DEF Inv, PublishedIsLast
<1>11. EpochIsLast'
  BY <1>1, <1>7 DEF EpochIsLast
<1>12. ForgottenIsFlagged'
  <2>1. last_end' # <<>>
    BY <1>1
  <2> QED
    BY <2>1 DEF ForgottenIsFlagged
<1> QED
  BY <1>4, <1>5, <1>6, <1>8, <1>9, <1>10, <1>11, <1>12 DEF Inv

LEMMA InitGivesInv == Init => Inv
<1> SUFFICES ASSUME Init PROVE Inv
  OBVIOUS
<1>1. /\ sample_buffer = <<>> /\ pending_breaks = <<>> /\ epoch = NoGeometry
      /\ published_geometry = NoGeometry /\ produced = 0 /\ last_end = <<>>
      /\ copied = <<>> /\ sink = <<>> /\ out = <<>>
  BY DEF Init
<1>2. TypeOK
  <2>1. 0 \in 0..Downstream /\ 0 \in 0..MaxFetches /\ NoGeometry \in Geometry
    BY CapacityAssumption DEF NoGeometry, Geometry
  <2>2. end \in Int /\ sent \in Nat /\ o_len \in 0..Downstream /\ fetches \in 0..MaxFetches
        /\ fetched \in BOOLEAN /\ pc = "idle" /\ max_packet_samples \in Nat
    <3>1. /\ end = 0 /\ sent = 0 /\ o_len = 0 /\ fetches = 0 /\ fetched = FALSE
          /\ pc = "idle" /\ max_packet_samples = 0
      BY DEF Init
    <3>2. end \in Int /\ sent \in Nat /\ max_packet_samples \in Nat
      BY <3>1
    <3>3. o_len \in 0..Downstream /\ fetches \in 0..MaxFetches
      BY <2>1, <3>1
    <3>4. fetched \in BOOLEAN
      BY <3>1
    <3> QED
      BY <3>1, <3>2, <3>3, <3>4
  <2> QED
    BY <1>1, <2>1, <2>2 DEF TypeOK
<1>3. PICK none, most, no : none = <<>> /\ most = 0 /\ no = FALSE
  OBVIOUS
<1>4. InQueue(none, no, most) /\ ~Announces(none) /\ Len(none) = 0 /\ none \in Seq(Break)
  BY <1>3 DEF InQueue, Sound, Rising, Within, InitialIn, Announces, News
<1>5. \A k, before : WordAt(none, k, before) = before
  BY <1>4, WordIsBefore
<1>6. Len(copied) = 0 /\ Len(sample_buffer) = 0 /\ Len(out) = 0 /\ 0 + 0 = 0
  BY <1>1
<1>7. /\ InQueue(sink, FALSE, produced + Len(copied))
      /\ InQueue(pending_breaks, Announces(sink), Len(copied) + Len(sample_buffer))
  <2>1. Announces(none) = no
    BY <1>3, <1>4 DEF Announces
  <2> QED
    BY <1>1, <1>3, <1>4, <1>6, <2>1
<1>8. SinkIsBehind /\ CallsAreInStep /\ ForgottenIsFlagged
  BY <1>1, <1>6 DEF SinkIsBehind, CallsAreInStep, ForgottenIsFlagged
<1>9. PublishedIsLast /\ EpochIsLast
  BY <1>1, <1>3, <1>5 DEF PublishedIsLast, EpochIsLast
<1> QED
  BY <1>2, <1>7, <1>8, <1>9 DEF Inv

LEMMA StutterKeepsInv ==
  ASSUME Inv, UNCHANGED vars
  PROVE  Inv'
<1>1. UNCHANGED <<sample_buffer, pending_breaks, epoch, published_geometry, produced,
                  max_packet_samples, last_end, pc, o_len, fetches, fetched, copied,
                  sink, out, end, sent>>
  BY DEF vars, source, working, consumer, server
<1>2. TypeOK' /\ CallsAreInStep'
  BY <1>1 DEF Inv, TypeOK, CallsAreInStep
<1>3. /\ InQueue(sink, FALSE, produced + Len(copied))'
      /\ InQueue(pending_breaks, Announces(sink), Len(copied) + Len(sample_buffer))'
  BY <1>1 DEF Inv
<1>4. SinkIsBehind' /\ PublishedIsLast' /\ EpochIsLast' /\ ForgottenIsFlagged'
  BY <1>1 DEF Inv, SinkIsBehind, PublishedIsLast, EpochIsLast, ForgottenIsFlagged
<1> QED
  BY <1>2, <1>3, <1>4 DEF Inv

LEMMA NextKeepsInv ==
  ASSUME Inv, [Next]_vars
  PROVE  Inv'
<1>1. CASE \E room \in 0..Downstream : WorkBegins(room)
  BY <1>1, WorkBeginsStep
<1>2. CASE \E room \in 0..Downstream : WorkRestarts(room)
  BY <1>2, WorkRestartsStep
<1>3. CASE FetchBegins
  BY <1>3, FetchBeginsStep
<1>4. CASE \E skew \in Skews, n \in PacketLens, g \in Geometries : IqPacket(end + skew, n, g)
  <2>1. PICK skew \in Skews, n \in PacketLens, g \in Geometries : IqPacket(end + skew, n, g)
    BY <1>4
  <2>2. PICK t0 : t0 = end + skew
    OBVIOUS
  <2>3. t0 \in Int /\ n \in Nat /\ g \in Geometry /\ IqPacket(t0, n, g)
    <3>1. end \in Int
      BY DEF Inv, TypeOK
    <3>2. t0 \in Int /\ n \in Nat
      BY <2>2, <3>1, TrafficAssumption
    <3>3. g \in Geometry
      BY GeometriesAssumption DEF Geometry
    <3> QED
      BY <2>1, <2>2, <3>2, <3>3
  <2> QED
    BY <2>3, IqPacketStep
<1>5. CASE \E n \in PacketLens \ {0} : LostPacket(n)
  BY <1>5, LostPacketStep
<1>6. CASE FetchEnds
  BY <1>6, FetchEndsStep
<1>7. CASE FetchFails
  BY <1>7, FetchFailsStep
<1>8. CASE CopyOut
  BY <1>8, CopyOutStep
<1>9. CASE ReportBoundary
  BY <1>9, ReportBoundaryStep
<1>10. CASE Publish
  BY <1>10, PublishStep
<1>11. CASE UNCHANGED vars
  BY <1>11, StutterKeepsInv
<1> QED
  BY <1>1, <1>2, <1>3, <1>4, <1>5, <1>6, <1>7, <1>8, <1>9, <1>10, <1>11 DEF Next

\* However packets, losses, trims, reconnects, restarts and calls of work() interleave,
\* what was reported and what is queued are the two halves of one record of the stream.
THEOREM InvIsInvariant == Spec => []Inv
<1>1. Init => Inv
  BY InitGivesInv
<1>2. Inv /\ [Next]_vars => Inv'
  BY NextKeepsInv
<1> QED
  BY <1>1, <1>2, PTL DEF Spec
-----------------------------------------------------------------------------
(***************************************************************************)
(* The promises about the queue and the record.                            *)
(***************************************************************************)
\* The record and the queue, put together as the properties do it.
Says(r, s, p, P) ==
  /\ \A k \in Int : WordAt(r, k, NoGeometry) = WordAt(p, k - P, WordAt(s, k, NoGeometry))
  /\ \A k \in Nat : (\E i \in 1..Len(r) : r[i] = Gap(k)) <=> GapIn(s, k) \/ GapIn(p, k - P)

LEMMA ReportedIs ==
  ASSUME NEW P \in Nat, NEW s \in Seq(Break), NEW p \in Seq(Break), Sound(s), Sound(p),
         NEW r, r = s \o Shifted(p, P)
  PROVE  Says(r, s, p, P)
<1> DEFINE q == Shifted(p, P)
<1>1. /\ q \in Seq(Break) /\ Alike(p, q)
      /\ \A k \in Int : \A w : WordAt(q, k, w) = WordAt(p, k - P, w)
      /\ \A a \in Int : GapIn(q, a) <=> GapIn(p, a - P)
  BY ShiftedIs
<1> HIDE DEF q
<1>2. r \in Seq(Break) /\ Joined(s, q, r)
  BY <1>1, JoinedIs DEF q
<1>3. Sound(q)
  BY <1>1, AlikeFacts
<1>4. Sound(r) /\ \A a : GapIn(r, a) <=> GapIn(s, a) \/ GapIn(q, a)
  BY <1>2, <1>3, JoinedFacts
<1>5. \A k \in Int : WordAt(r, k, NoGeometry) = WordAt(q, k, WordAt(s, k, NoGeometry))
  BY <1>2, JoinedWord
<1>6. ASSUME NEW k \in Nat
      PROVE  (\E i \in 1..Len(r) : r[i] = Gap(k)) <=> GapIn(r, k)
  <2>1. PICK b : b = Gap(k)
    OBVIOUS
  <2>2. b \in Break /\ b.at = k /\ b.kind = "gap" /\ b.geo = NoGeometry
    BY <2>1, GapIs
  <2>3. ASSUME NEW i \in 1..Len(r), r[i].kind = "gap", r[i].at = k
        PROVE  r[i] = b
    <3>1. PICK c : c = r[i]
      OBVIOUS
    <3>2. c \in Break /\ c.kind = "gap" /\ c.at = k /\ c.geo = NoGeometry
      <4>1. c \in Break
        BY <1>2, <3>1
      <4>2. c.geo = NoGeometry
        BY <1>4, <2>3, <3>1 DEF Sound
      <4> QED
        BY <2>3, <3>1, <4>1, <4>2
    <3>3. c = b
      BY <2>2, <3>2 DEF Break
    <3> QED
      BY <3>1, <3>3
  <2> QED
    BY <2>1, <2>2, <2>3 DEF GapIn
<1>7. ASSUME NEW k \in Nat
      PROVE  (\E i \in 1..Len(r) : r[i] = Gap(k)) <=> GapIn(s, k) \/ GapIn(p, k - P)
  <2>1. k \in Int
    OBVIOUS
  <2>2. GapIn(r, k) <=> GapIn(s, k) \/ GapIn(p, k - P)
    BY <1>1, <1>4, <2>1
  <2> QED
    BY <1>6, <2>2
<1>8. \A k \in Int : WordAt(r, k, NoGeometry) = WordAt(p, k - P, WordAt(s, k, NoGeometry))
  BY <1>1, <1>5
<1> QED
  BY <1>7, <1>8 DEF Says

LEMMA AnnouncedIs ==
  ASSUME Inv
  PROVE  /\ \A k \in Int : AnnouncedAt(k) = Ann(k)
         /\ \A k \in Int : GapAt(k) <=> Hole(k)
<1>1. /\ produced \in Nat /\ sink \in Seq(Break) /\ pending_breaks \in Seq(Break)
      /\ Sound(sink) /\ Sound(pending_breaks)
  BY InvMeans DEF Inv, InQueue
<1>2. Reported = sink \o Shifted(pending_breaks, produced)
  BY DEF Reported, Shifted
<1>3. PICK r : r = Reported
  OBVIOUS
<1>4. Says(r, sink, pending_breaks, produced)
  BY <1>1, <1>2, <1>3, ReportedIs
<1>5. \A k \in Int : k > 0 => k \in Nat
  OBVIOUS
<1> QED
  BY <1>3, <1>4, <1>5 DEF AnnouncedAt, GapAt, Ann, Hole, Says

\* The geometry announced at and behind the last sample held is the epoch.
LEMMA LastWord ==
  ASSUME Inv
  PROVE  Ann(produced + (Len(copied) + Len(sample_buffer))) = epoch
<1> DEFINE H == Len(copied) + Len(sample_buffer)
           k == produced + H
<1>1. /\ H \in Nat /\ produced \in Nat /\ Len(copied) \in Nat /\ Len(copied) <= H
  BY InvMeans
<1> HIDE DEF H
<1>2. k \in Int /\ k - produced = H
  BY <1>1
<1>3. WordAt(sink, k, NoGeometry) = published_geometry
  <2>1. PICK no, x, y, q : no = FALSE /\ x = produced + Len(copied) /\ y = k /\ q = sink
    OBVIOUS
  <2>2. x \in Int /\ y \in Int /\ x <= y
    BY <1>1, <2>1
  <2>3. InQueue(q, no, x)
    BY <2>1 DEF Inv
  <2>4. /\ InQueue(q, no, y)
        /\ \A before : WordAt(q, y, before) = WordAt(q, x, before)
    BY <2>2, <2>3, MostGrows
  <2> QED
    BY <2>1, <2>4 DEF Inv, PublishedIsLast
<1>4. epoch = WordAt(pending_breaks, H, published_geometry)
  BY DEF Inv, EpochIsLast, H
<1> QED
  BY <1>2, <1>3, <1>4 DEF Ann, H

\* What the publishing loop of publish_breaks relies on: the queue is in order and
\* within the samples held, the first geometry the consumer is told is the initial one
\* and no later one is, and new packets are compared with the last word on geometry.
THEOREM QueueIsAlwaysWellFormed == Spec => []QueueIsWellFormed
<1>1. ASSUME Inv PROVE QueueIsWellFormed
  <2>1. TypeOK
    BY <1>1 DEF Inv
  <2>2. QueueInOrder
    BY <1>1 DEF Inv, InQueue, Rising, Within, QueueInOrder
  <2>3. InitialComesOnceAndFirst
    BY <1>1 DEF Inv, InQueue, InitialIn, InitialComesOnceAndFirst
  <2>4. EpochIsLastWord
    <3>1. /\ Len(Held) = Len(copied) + Len(sample_buffer) /\ Len(out) = produced
          /\ Len(copied) + Len(sample_buffer) \in Nat /\ produced \in Nat
      <4>1. copied \in Seq(Sample) /\ sample_buffer \in Seq(Sample)
        BY <1>1 DEF Inv, TypeOK
      <4>2. Len(Held) = Len(copied) + Len(sample_buffer)
        BY <4>1, ConcatProperties DEF Held
      <4> QED
        BY <1>1, <4>1, <4>2, InvMeans DEF Inv, CallsAreInStep
    <3>2. PICK k : k = produced + (Len(copied) + Len(sample_buffer))
      OBVIOUS
    <3>3. k \in Int /\ k = Len(out) + Len(Held)
      BY <3>1, <3>2
    <3>4. AnnouncedAt(k) = Ann(k) /\ Ann(k) = epoch
      BY <1>1, <3>2, <3>3, AnnouncedIs, LastWord
    <3> QED
      BY <3>3, <3>4 DEF EpochIsLastWord
  <2> QED
    BY <2>1, <2>2, <2>3, <2>4 DEF QueueIsWellFormed
<1> QED
  BY <1>1, InvIsInvariant, PTL

LEMMA OnlyReportingReports ==
  ASSUME [Next]_vars
  PROVE  ReportBoundary \/ UNCHANGED <<sink>>
<1>1. CASE \E room \in 0..Downstream : WorkBegins(room)
  BY <1>1 DEF WorkBegins, consumer
<1>2. CASE \E room \in 0..Downstream : WorkRestarts(room)
  BY <1>2 DEF WorkRestarts, consumer
<1>3. CASE FetchBegins
  BY <1>3 DEF FetchBegins, consumer
<1>4. CASE \E skew \in Skews, n \in PacketLens, g \in Geometries : IqPacket(end + skew, n, g)
  BY <1>4 DEF IqPacket, consumer
<1>5. CASE \E n \in PacketLens \ {0} : LostPacket(n)
  BY <1>5 DEF LostPacket, consumer
<1>6. CASE FetchEnds
  BY <1>6 DEF FetchEnds, consumer
<1>7. CASE FetchFails
  BY <1>7 DEF FetchFails, consumer
<1>8. CASE CopyOut
  BY <1>8 DEF CopyOut, consumer
<1>9. CASE Publish
  BY <1>9 DEF Publish
<1>10. CASE UNCHANGED vars
  BY <1>10 DEF vars, consumer
<1> QED
  BY <1>1, <1>2, <1>3, <1>4, <1>5, <1>6, <1>7, <1>8, <1>9, <1>10 DEF Next

\* Guarantee 2 of stream_break.rs: a break is reported at an index behind every one
\* reported before, and never at one whose sample the consumer already holds.
THEOREM IndexIsNeverRevisited == Spec => IndexNeverRevisited
<1> DEFINE Onward == \A i \in (Len(sink) + 1)..Len(sink') :
                       /\ sink'[i].at >= Len(out)
                       /\ \A j \in 1..Len(sink) : sink[j].at < sink'[i].at
<1>1. ASSUME Inv, [Next]_vars PROVE Onward
  <2>1. CASE ReportBoundary
    <3>1. \A i \in 1..Len(sink') : i > Len(sink) =>
            /\ sink'[i].at >= Len(out)
            /\ \A j \in 1..Len(sink) : sink[j].at < sink'[i].at
      BY <1>1, <2>1, ReportBoundaryStep
    <3>2. Len(sink) \in Nat
      BY <1>1, InvMeans
    <3>3. \A i \in (Len(sink) + 1)..Len(sink') : i \in 1..Len(sink') /\ i > Len(sink)
      BY <3>2
    <3> QED
      BY <3>1, <3>3
  <2>2. CASE UNCHANGED <<sink>>
    <3>1. Len(sink) \in Nat /\ sink' = sink
      BY <1>1, <2>2, InvMeans
    <3> QED
      BY <3>1
  <2> QED
    BY <1>1, <2>1, <2>2, OnlyReportingReports
<1>2. Inv /\ [Next]_vars => [Onward]_vars
  BY <1>1
<1> QED
  BY <1>2, InvIsInvariant, PTL DEF Spec, IndexNeverRevisited
-----------------------------------------------------------------------------
(***************************************************************************)
(* The refinement of BreakContract.                                        *)
(***************************************************************************)
LEMMA AnnouncedIsNext ==
  ASSUME Inv'
  PROVE  /\ \A k \in Int : AnnouncedAt(k)' = Ann(k)'
         /\ \A k \in Int : GapAt(k)' <=> Hole(k)'
<1>1. /\ produced' \in Nat /\ sink' \in Seq(Break) /\ pending_breaks' \in Seq(Break)
      /\ Sound(sink') /\ Sound(pending_breaks')
  BY DEF Inv, InQueue, TypeOK
<1>2. Reported' = sink' \o Shifted(pending_breaks', produced')
  BY DEF Reported, Shifted
<1>3. PICK r : r = Reported'
  OBVIOUS
<1>4. Says(r, sink', pending_breaks', produced')
  BY <1>1, <1>2, <1>3, ReportedIs
<1>5. \A k \in Int : k > 0 => k \in Nat
  OBVIOUS
<1> QED
  BY <1>3, <1>4, <1>5 DEF AnnouncedAt, GapAt, Ann, Hole, Says

LEMMA HeldIs ==
  ASSUME Inv
  PROVE  /\ Held \in Seq(Sample) /\ Len(Held) \in Nat /\ Len(Held) = Len(copied) + Len(sample_buffer)
         /\ out \in Seq(Sample) /\ Len(out) \in Nat /\ Len(out) = produced
         /\ copied = <<>> => Held = sample_buffer
<1>1. /\ copied \in Seq(Sample) /\ sample_buffer \in Seq(Sample) /\ out \in Seq(Sample)
      /\ Len(out) = produced
  BY DEF Inv, TypeOK, CallsAreInStep
<1>2. Held \in Seq(Sample) /\ Len(Held) = Len(copied) + Len(sample_buffer)
  BY <1>1, ConcatProperties DEF Held
<1>3. copied = <<>> => Held = sample_buffer
  BY <1>1 DEF Held
<1> QED
  BY <1>1, <1>2, <1>3

\* Labelled samples, for given words on geometry and given gaps by output index.
LabelledSample == [s : Sample, gap : BOOLEAN, ann : Geometry]

LabelOf(s, k, words, gaps) == [s |-> s, gap |-> gaps[k], ann |-> words[k]]

Tagged(samples, base, words, gaps) ==
  [i \in 1..Len(samples) |-> LabelOf(samples[i], base + i - 1, words, gaps)]

Tags(q, samples, base, words, gaps) ==
  /\ q \in Seq(LabelledSample) /\ Len(q) = Len(samples)
  /\ \A i \in 1..Len(samples) : q[i] = LabelOf(samples[i], base + i - 1, words, gaps)

LEMMA LabelIs ==
  ASSUME NEW s \in Sample, NEW k \in Int,
         NEW words \in [Int -> Geometry], NEW gaps \in [Int -> BOOLEAN]
  PROVE  LabelOf(s, k, words, gaps) \in LabelledSample
BY DEF LabelledSample, LabelOf

LEMMA TaggedIs ==
  ASSUME NEW samples \in Seq(Sample), NEW base \in Int,
         NEW words \in [Int -> Geometry], NEW gaps \in [Int -> BOOLEAN]
  PROVE  Tags(Tagged(samples, base, words, gaps), samples, base, words, gaps)
<1>1. PICK n, q : n = Len(samples) /\ q = Tagged(samples, base, words, gaps)
  OBVIOUS
<1>2. n \in Nat /\ \A i \in 1..n : samples[i] \in Sample /\ base + i - 1 \in Int
  BY <1>1
<1>3. q = [i \in 1..n |-> LabelOf(samples[i], base + i - 1, words, gaps)]
  BY <1>1 DEF Tagged
<1>4. \A i \in 1..n : LabelOf(samples[i], base + i - 1, words, gaps) \in LabelledSample
  BY <1>2, LabelIs
<1>5. q \in [1..n -> LabelledSample]
  BY <1>3, <1>4
<1>6. q \in Seq(LabelledSample) /\ Len(q) = n
  BY <1>2, <1>5
<1> QED
  BY <1>1, <1>3, <1>6 DEF Tags

\* The parts of a sequence, and the sequence from its parts.
LEMMA JoinedWhole ==
  ASSUME NEW T, NEW x \in Seq(T), NEW y \in Seq(T), NEW z \in Seq(T), Joined(x, y, z)
  PROVE  z = x \o y /\ x = SubSeq(z, 1, Len(x)) /\ y = SubSeq(z, Len(x) + 1, Len(z))
<1>1. PICK n, m : n = Len(x) /\ m = Len(y)
  OBVIOUS
<1>2. /\ n \in Nat /\ m \in Nat /\ Len(z) = n + m
      /\ \A i \in 1..n : z[i] = x[i]
      /\ \A i \in 1..(n + m) : i > n => z[i] = y[i - n]
  BY <1>1 DEF Joined
<1>3. z = x \o y
  <2>1. PICK w : w = x \o y
    OBVIOUS
  <2>2. w \in Seq(T) /\ Joined(x, y, w)
    BY <2>1, JoinedIs
  <2>3. Len(w) = n + m /\ \A i \in 1..(n + m) : w[i] = z[i]
    <3>1. /\ Len(w) = n + m
          /\ \A i \in 1..n : w[i] = x[i]
          /\ \A i \in 1..(n + m) : i > n => w[i] = y[i - n]
      BY <1>1, <2>2 DEF Joined
    <3>2. ASSUME NEW i \in 1..(n + m)
          PROVE  w[i] = z[i]
      <4>1. i \in 1..n \/ i > n
        BY <1>2
      <4> QED
        BY <1>2, <3>1, <4>1
    <3> QED
      BY <3>1, <3>2
  <2> QED
    BY <1>2, <2>1, <2>2, <2>3, SeqEqual
<1>4. x = SubSeq(z, 1, n)
  <2>1. PICK w : w = SubSeq(z, 1, n)
    OBVIOUS
  <2>2. w \in Seq(T) /\ Len(w) = n /\ \A i \in 1..n : w[i] = z[i]
    BY <1>2, <2>1
  <2> QED
    BY <1>1, <1>2, <2>1, <2>2, SeqEqual
<1>5. y = SubSeq(z, n + 1, Len(z))
  <2>1. PICK w : w = SubSeq(z, n + 1, Len(z))
    OBVIOUS
  <2>2. w \in Seq(T) /\ Len(w) = m /\ \A i \in 1..m : w[i] = z[n + i]
    <3>1. n \in 0..Len(z) /\ Len(z) - n = m
      BY <1>2
    <3> QED
      BY <2>1, <3>1, RestIs
  <2>3. \A i \in 1..m : n + i \in 1..(n + m) /\ n + i > n /\ (n + i) - n = i
    BY <1>2
  <2>4. \A i \in 1..m : w[i] = y[i]
    BY <1>2, <2>2, <2>3
  <2> QED
    BY <1>1, <2>1, <2>2, <2>4, SeqEqual
<1> QED
  BY <1>1, <1>3, <1>4, <1>5

\* The samples of a run and those behind it are labelled as if they were one.
LEMMA TaggedJoins ==
  ASSUME NEW a, NEW b, NEW c, Joined(a, b, c), NEW base \in Nat, NEW words, NEW gaps,
         NEW x, NEW y, NEW z,
         Tags(x, a, base, words, gaps), Tags(y, b, base + Len(a), words, gaps),
         Tags(z, c, base, words, gaps)
  PROVE  Joined(x, y, z)
<1>1. PICK n, m : n = Len(a) /\ m = Len(b)
  OBVIOUS
<1>2. /\ n \in Nat /\ m \in Nat /\ Len(c) = n + m
      /\ \A i \in 1..n : c[i] = a[i]
      /\ \A i \in 1..(n + m) : i > n => c[i] = b[i - n]
  BY <1>1 DEF Joined
<1> DEFINE L(s, k) == LabelOf(s, k, words, gaps)
<1>3. Len(x) = n /\ \A i \in 1..n : x[i] = L(a[i], base + i - 1)
  BY <1>1 DEF Tags
<1>4. Len(y) = m /\ \A i \in 1..m : y[i] = L(b[i], (base + n) + i - 1)
  BY <1>1 DEF Tags
<1>5. Len(z) = n + m /\ \A i \in 1..(n + m) : z[i] = L(c[i], base + i - 1)
  BY <1>2 DEF Tags
<1> HIDE DEF L
<1>6. \A i \in 1..n : z[i] = x[i]
  <2>1. \A i \in 1..n : i \in 1..(n + m)
    BY <1>2
  <2> QED
    BY <1>2, <1>3, <1>5, <2>1
<1>7. ASSUME NEW i \in 1..(n + m), i > n
      PROVE  z[i] = y[i - n]
  <2>1. PICK j : j = i - n
    OBVIOUS
  <2>2. j \in 1..m /\ (base + n) + j - 1 = base + i - 1
    BY <1>2, <1>7, <2>1
  <2>3. c[i] = b[j]
    BY <1>2, <1>7, <2>1
  <2>4. z[i] = L(c[i], base + i - 1) /\ y[j] = L(b[j], (base + n) + j - 1)
    BY <1>4, <1>5, <2>2
  <2> QED
    BY <2>1, <2>2, <2>3, <2>4
<1> QED
  BY <1>2, <1>3, <1>4, <1>5, <1>6, <1>7 DEF Joined

\* What is announced, and where gaps are, by output index.
Words == [k \in Int |-> Ann(k)]
Gaps == [k \in Int |-> Hole(k)]

LEMMA WordType ==
  ASSUME NEW p \in Seq(Break), NEW k, NEW before \in Geometry
  PROVE  WordAt(p, k, before) \in Geometry
<1>1. Len(p) \in Nat /\ \A i \in 1..Len(p) : p[i] \in Break
  BY BreaksAre
<1>2. \A i \in 1..Len(p) : p[i].geo \in Geometry
  BY <1>1 DEF Break
<1>3. CASE WordAt(p, k, before) = before
  BY <1>3
<1>4. CASE \E i \in 1..Len(p) : IsWord(p, k, i) /\ WordAt(p, k, before) = p[i].geo
  BY <1>2, <1>4
<1> QED
  BY <1>1, <1>3, <1>4, WordCases

LEMMA LabelsAre ==
  ASSUME Inv
  PROVE  /\ Words \in [Int -> Geometry] /\ Gaps \in [Int -> BOOLEAN]
         /\ \A k \in Int : AnnouncedAt(k) = Words[k] /\ GapAt(k) = Gaps[k]
<1>1. ASSUME NEW k \in Int
      PROVE  Ann(k) \in Geometry /\ Hole(k) \in BOOLEAN /\ GapAt(k) \in BOOLEAN
  <2>1. Hole(k) \in BOOLEAN /\ GapAt(k) \in BOOLEAN
    BY DEF Hole, GapAt
  <2>2. sink \in Seq(Break) /\ pending_breaks \in Seq(Break) /\ NoGeometry \in Geometry
    BY InvMeans DEF NoGeometry, Geometry
  <2>3. PICK w : w = WordAt(sink, k, NoGeometry)
    OBVIOUS
  <2>4. w \in Geometry
    BY <2>2, <2>3, WordType
  <2>5. WordAt(pending_breaks, k - produced, w) \in Geometry
    BY <2>2, <2>4, WordType
  <2> QED
    BY <2>1, <2>3, <2>5 DEF Ann
<1>2. \A k \in Int : AnnouncedAt(k) = Ann(k) /\ (GapAt(k) <=> Hole(k))
  BY AnnouncedIs
<1>3. \A k \in Int : GapAt(k) = Hole(k)
  BY <1>1, <1>2
<1> QED
  BY <1>1, <1>2, <1>3 DEF Words, Gaps

LEMMA LabelsAreNext ==
  ASSUME Inv'
  PROVE  /\ Words' \in [Int -> Geometry] /\ Gaps' \in [Int -> BOOLEAN]
         /\ \A k \in Int : AnnouncedAt(k)' = Words'[k] /\ GapAt(k)' = Gaps'[k]
<1>1. ASSUME NEW k \in Int
      PROVE  Ann(k)' \in Geometry /\ Hole(k)' \in BOOLEAN /\ GapAt(k)' \in BOOLEAN
  <2>1. Hole(k)' \in BOOLEAN /\ GapAt(k)' \in BOOLEAN
    BY DEF Hole, GapAt
  <2>2. sink' \in Seq(Break) /\ pending_breaks' \in Seq(Break) /\ NoGeometry \in Geometry
    BY DEF Inv, TypeOK, NoGeometry, Geometry
  <2>3. PICK w : w = WordAt(sink', k, NoGeometry)
    OBVIOUS
  <2>4. w \in Geometry
    BY <2>2, <2>3, WordType
  <2>5. WordAt(pending_breaks', k - produced', w) \in Geometry
    BY <2>2, <2>4, WordType
  <2> QED
    BY <2>1, <2>3, <2>5 DEF Ann
<1>2. \A k \in Int : AnnouncedAt(k)' = Ann(k)' /\ (GapAt(k)' <=> Hole(k)')
  BY AnnouncedIsNext
<1>3. \A k \in Int : GapAt(k)' = Hole(k)'
  BY <1>1, <1>2
<1> QED
  BY <1>1, <1>2, <1>3 DEF Words, Gaps

\* The state of the contract, as tagged samples.
View(o, h, t, words, gaps) ==
  /\ Tags(o, out, 0, words, gaps)
  /\ Tags(h, Held, Len(out), words, gaps)
  /\ t = [gap |-> gaps[Len(out) + Len(Held)], ann |-> words[Len(out) + Len(Held)]]

LastLabel == [gap |-> GapAt(Len(out) + Len(Held)), ann |-> AnnouncedAt(Len(out) + Len(Held))]

LEMMA ViewIs ==
  ASSUME Inv
  PROVE  View(Labels(out, 0), Labels(Held, Len(out)), LastLabel, Words, Gaps)
<1>1. /\ out \in Seq(Sample) /\ Held \in Seq(Sample) /\ Len(out) \in Nat /\ Len(Held) \in Nat
  BY HeldIs
<1>2. /\ Words \in [Int -> Geometry] /\ Gaps \in [Int -> BOOLEAN]
      /\ \A k \in Int : AnnouncedAt(k) = Words[k] /\ GapAt(k) = Gaps[k]
  BY LabelsAre
<1>3. ASSUME NEW samples \in Seq(Sample), NEW base \in Nat
      PROVE  Labels(samples, base) = Tagged(samples, base, Words, Gaps)
  <2>1. \A i \in 1..Len(samples) : base + i - 1 \in Int
    OBVIOUS
  <2>2. \A i \in 1..Len(samples) :
          [s |-> samples[i], gap |-> GapAt(base + i - 1), ann |-> AnnouncedAt(base + i - 1)]
            = LabelOf(samples[i], base + i - 1, Words, Gaps)
    BY <1>2, <2>1 DEF LabelOf
  <2> QED
    BY <2>2 DEF Labels, Tagged
<1>4. Labels(out, 0) = Tagged(out, 0, Words, Gaps) /\ Labels(Held, Len(out)) = Tagged(Held, Len(out), Words, Gaps)
  BY <1>1, <1>3
<1>5. /\ Tags(Labels(out, 0), out, 0, Words, Gaps)
      /\ Tags(Labels(Held, Len(out)), Held, Len(out), Words, Gaps)
  BY <1>1, <1>2, <1>4, TaggedIs
<1>6. Len(out) + Len(Held) \in Int
  BY <1>1
<1> QED
  BY <1>2, <1>5, <1>6 DEF View, LastLabel

LEMMA HeldIsNext ==
  ASSUME Inv'
  PROVE  /\ Held' \in Seq(Sample) /\ Len(Held') \in Nat
         /\ out' \in Seq(Sample) /\ Len(out') \in Nat /\ Len(out') = produced'
<1>1. /\ copied' \in Seq(Sample) /\ sample_buffer' \in Seq(Sample) /\ out' \in Seq(Sample)
      /\ Len(out') = produced'
  BY DEF Inv, TypeOK, CallsAreInStep
<1>2. Held' \in Seq(Sample)
  BY <1>1, ConcatProperties DEF Held
<1> QED
  BY <1>1, <1>2

LEMMA ViewIsNext ==
  ASSUME Inv'
  PROVE  View(Labels(out, 0), Labels(Held, Len(out)), LastLabel, Words, Gaps)'
<1>1. /\ out' \in Seq(Sample) /\ Held' \in Seq(Sample) /\ Len(out') \in Nat /\ Len(Held') \in Nat
  BY HeldIsNext
<1>2. /\ Words' \in [Int -> Geometry] /\ Gaps' \in [Int -> BOOLEAN]
      /\ \A k \in Int : AnnouncedAt(k)' = Words'[k] /\ GapAt(k)' = Gaps'[k]
  BY LabelsAreNext
<1>3. ASSUME NEW samples \in Seq(Sample), NEW base \in Nat
      PROVE  Labels(samples, base)' = Tagged(samples, base, Words', Gaps')
  <2>1. \A i \in 1..Len(samples) : base + i - 1 \in Int
    OBVIOUS
  <2>2. \A i \in 1..Len(samples) :
          [s |-> samples[i], gap |-> GapAt(base + i - 1)', ann |-> AnnouncedAt(base + i - 1)']
            = LabelOf(samples[i], base + i - 1, Words', Gaps')
    BY <1>2, <2>1 DEF LabelOf
  <2> QED
    BY <2>2 DEF Labels, Tagged
<1>4. Labels(out, 0)' = Tagged(out', 0, Words', Gaps') /\ Labels(Held, Len(out))' = Tagged(Held', Len(out'), Words', Gaps')
  BY <1>1, <1>3 DEF Labels
<1>5. /\ Tags(Labels(out, 0)', out', 0, Words', Gaps')
      /\ Tags(Labels(Held, Len(out))', Held', Len(out'), Words', Gaps')
  BY <1>1, <1>2, <1>4, TaggedIs
<1>6. Len(out') + Len(Held') \in Int
  BY <1>1
<1> QED
  BY <1>2, <1>5, <1>6 DEF View, LastLabel, Tags, GapAt, AnnouncedAt

\* Samples whose words and gaps stay keep their labels.
LEMMA TagsAlike ==
  ASSUME NEW samples, Len(samples) \in Nat, NEW base \in Nat,
         NEW words, NEW gaps, NEW words2, NEW gaps2, NEW q, NEW r,
         Tags(q, samples, base, words, gaps), Tags(r, samples, base, words2, gaps2),
         \A k \in Nat : base <= k /\ k < base + Len(samples) =>
            words2[k] = words[k] /\ gaps2[k] = gaps[k]
  PROVE  r = q
<1>1. ASSUME NEW i \in 1..Len(samples)
      PROVE  r[i] = q[i]
  <2>1. PICK k : k = base + i - 1
    OBVIOUS
  <2>2. k \in Nat /\ base <= k /\ k < base + Len(samples)
    BY <2>1
  <2>3. q[i] = LabelOf(samples[i], k, words, gaps) /\ r[i] = LabelOf(samples[i], k, words2, gaps2)
    BY <2>1 DEF Tags
  <2> QED
    BY <2>2, <2>3 DEF LabelOf
<1>2. /\ q \in Seq(LabelledSample) /\ r \in Seq(LabelledSample)
      /\ Len(q) = Len(samples) /\ Len(r) = Len(samples)
  BY DEF Tags
<1> QED
  BY <1>1, <1>2, SeqEqual

LEMMA TagsEmpty ==
  ASSUME NEW samples, NEW base, NEW words, NEW gaps, NEW q, Tags(q, samples, base, words, gaps)
  PROVE  q = <<>> <=> Len(samples) = 0
BY EmptySeq DEF Tags

\* Steps that move no sample to the consumer and no label.
LEMMA Stutters ==
  ASSUME Inv, Inv', UNCHANGED <<out, Held, end, sent>>,
         \A k \in Int : Ann(k)' = Ann(k) /\ (Hole(k)' <=> Hole(k))
  PROVE  UNCHANGED Contract!vars
<1>1. Words' = Words /\ Gaps' = Gaps
  <2>1. \A k \in Int : Hole(k)' = Hole(k)
    BY DEF Hole
  <2> QED
    BY <2>1 DEF Words, Gaps
<1>2. View(Labels(out, 0), Labels(Held, Len(out)), LastLabel, Words, Gaps)
  BY ViewIs
<1>3. View(Labels(out, 0), Labels(Held, Len(out)), LastLabel, Words, Gaps)'
  BY ViewIsNext
<1>4. Len(out) \in Nat /\ Len(Held) \in Nat
  BY HeldIs
<1>5. Labels(out, 0)' = Labels(out, 0)
  <2>1. Tags(Labels(out, 0), out, 0, Words, Gaps) /\ Tags(Labels(out, 0)', out, 0, Words, Gaps)
    BY <1>1, <1>2, <1>3 DEF View
  <2> QED
    BY <1>4, <2>1, TagsAlike
<1>6. Labels(Held, Len(out))' = Labels(Held, Len(out))
  <2>1. /\ Tags(Labels(Held, Len(out)), Held, Len(out), Words, Gaps)
        /\ Tags(Labels(Held, Len(out))', Held, Len(out), Words, Gaps)
    BY <1>1, <1>2, <1>3 DEF View
  <2> QED
    BY <1>4, <2>1, TagsAlike
<1>7. LastLabel' = LastLabel
  BY <1>1, <1>2, <1>3 DEF View
<1> QED
  BY <1>5, <1>6, <1>7 DEF Contract!vars, LastLabel

LEMMA WorkingStutters ==
  ASSUME Inv, Inv', UNCHANGED <<source, consumer, server, copied>>
  PROVE  UNCHANGED Contract!vars
<1>1. UNCHANGED <<sample_buffer, pending_breaks, produced, sink, out, end, sent, copied>>
  BY DEF source, consumer, server
<1>2. UNCHANGED <<out, Held, end, sent>>
  BY <1>1 DEF Held
<1>3. \A k \in Int : Ann(k)' = Ann(k) /\ (Hole(k)' <=> Hole(k))
  BY <1>1 DEF Ann, Hole
<1> QED
  BY <1>2, <1>3, Stutters

LEMMA CopyOutStutters ==
  ASSUME Inv, CopyOut
  PROVE  UNCHANGED Contract!vars
<1>1. Inv' /\ copied' \o sample_buffer' = sample_buffer /\ copied = <<>>
  BY CopyOutStep
<1>2. UNCHANGED <<pending_breaks, produced, sink, out, end, sent>>
  BY DEF CopyOut, consumer, server
<1>3. Held' = Held
  BY <1>1, HeldIs DEF Held
<1>4. \A k \in Int : Ann(k)' = Ann(k) /\ (Hole(k)' <=> Hole(k))
  BY <1>2 DEF Ann, Hole
<1> QED
  BY <1>1, <1>2, <1>3, <1>4, Stutters

LEMMA ReportBoundaryStutters ==
  ASSUME Inv, ReportBoundary
  PROVE  UNCHANGED Contract!vars
<1>1. Inv' /\ \A k \in Int : Ann(k)' = Ann(k) /\ (Hole(k)' <=> Hole(k))
  BY ReportBoundaryStep
<1>2. UNCHANGED <<out, Held, end, sent>>
  BY DEF ReportBoundary, working, server, Held
<1> QED
  BY <1>1, <1>2, Stutters

\* A loss behind the last sample held.
LEMMA Losing ==
  ASSUME Inv, Inv', UNCHANGED <<out, Held>>, NEW n, sent + n <= MaxSamples,
         sent' = sent + n, end' = end + n,
         NEW T, T = Len(out) + Len(Held),
         \A k \in Int : Ann(k)' = Ann(k),
         \A k \in Int : Hole(k)' <=> Hole(k) \/ (k > 0 /\ k = T)
  PROVE  Contract!Lose(n)
<1>0. Len(out) \in Nat /\ Len(Held) \in Nat /\ T \in Nat
  BY HeldIs
<1>1. Words' = Words
  BY DEF Words
<1>2. Gaps' \in [Int -> BOOLEAN] /\ Gaps \in [Int -> BOOLEAN]
  BY LabelsAre, LabelsAreNext
<1>3. \A k \in Int : k # T => Gaps'[k] = Gaps[k]
  <2> TAKE k \in Int
  <2> HAVE k # T
  <2>1. Gaps'[k] = Hole(k)' /\ Gaps[k] = Hole(k) /\ (Hole(k)' <=> Hole(k))
    BY DEF Gaps
  <2> QED
    BY <1>2, <2>1
<1>4. Gaps'[T] = (T > 0)
  <2>1. Gaps'[T] = Hole(T)' /\ (Hole(T)' <=> Hole(T) \/ T > 0) /\ (Hole(T) => T > 0)
    BY <1>0 DEF Gaps, Hole
  <2> QED
    BY <1>0, <1>2, <2>1
<1>5. View(Labels(out, 0), Labels(Held, Len(out)), LastLabel, Words, Gaps)
  BY ViewIs
<1>6. View(Labels(out, 0), Labels(Held, Len(out)), LastLabel, Words, Gaps)'
  BY ViewIsNext
<1>7. Labels(out, 0)' = Labels(out, 0)
  <2>1. Tags(Labels(out, 0), out, 0, Words, Gaps) /\ Tags(Labels(out, 0)', out, 0, Words, Gaps')
    BY <1>1, <1>5, <1>6 DEF View
  <2>2. \A k \in Nat : 0 <= k /\ k < 0 + Len(out) => Words[k] = Words[k] /\ Gaps'[k] = Gaps[k]
    BY <1>0, <1>3
  <2> QED
    BY <1>0, <2>1, <2>2, TagsAlike
<1>8. Labels(Held, Len(out))' = Labels(Held, Len(out))
  <2>1. /\ Tags(Labels(Held, Len(out)), Held, Len(out), Words, Gaps)
        /\ Tags(Labels(Held, Len(out))', Held, Len(out), Words, Gaps')
    BY <1>1, <1>5, <1>6 DEF View
  <2>2. \A k \in Nat : Len(out) <= k /\ k < Len(out) + Len(Held) =>
           Words[k] = Words[k] /\ Gaps'[k] = Gaps[k]
    BY <1>0, <1>3
  <2> QED
    BY <1>0, <2>1, <2>2, TagsAlike
<1>9. LastLabel' = [LastLabel EXCEPT !.gap = Contract!HasPredecessor]
  <2>1. LastLabel = [gap |-> Gaps[T], ann |-> Words[T]] /\ LastLabel' = [gap |-> Gaps'[T], ann |-> Words[T]]
    BY <1>1, <1>5, <1>6 DEF View
  <2>2. (Labels(out, 0) = <<>> <=> Len(out) = 0) /\ (Labels(Held, Len(out)) = <<>> <=> Len(Held) = 0)
    BY <1>5, TagsEmpty DEF View
  <2>3. Contract!HasPredecessor = (T > 0)
    BY <1>0, <2>2 DEF Contract!HasPredecessor
  <2> QED
    BY <1>4, <2>1, <2>3
<1> QED
  BY <1>7, <1>8, <1>9 DEF Contract!Lose, LastLabel

LEMMA LostPacketLoses ==
  ASSUME Inv, NEW n \in PacketLens \ {0}, LostPacket(n)
  PROVE  Contract!Lose(n)
<1>1. /\ copied = <<>> /\ copied' = <<>>
      /\ pending_breaks' = note_gap(pending_breaks, Len(sample_buffer))
      /\ sent + n <= MaxSamples /\ sent' = sent + n /\ end' = end + n
      /\ UNCHANGED <<sample_buffer, produced, sink, out>>
  BY DEF LostPacket, Inv, CallsAreInStep, working, consumer
<1>2. Inv'
  BY LostPacketStep
<1>3. /\ \A a : GapIn(pending_breaks', a) <=> GapIn(pending_breaks, a) \/ a = Len(sample_buffer)
      /\ \A k, before : WordAt(pending_breaks', k, before) = WordAt(pending_breaks, k, before)
  BY <1>1, GapHeld
<1>4. PICK T : T = Len(out) + Len(Held)
  OBVIOUS
<1>5. /\ T = produced + Len(sample_buffer) /\ produced \in Nat /\ Len(sample_buffer) \in Nat
      /\ Held' = Held
  BY <1>1, <1>4, HeldIs, InvMeans DEF Held
<1>6. \A k \in Int : Ann(k)' = Ann(k)
  BY <1>1, <1>3 DEF Ann
<1>7. ASSUME NEW k \in Int
      PROVE  Hole(k)' <=> Hole(k) \/ (k > 0 /\ k = T)
  <2>1. k - produced = Len(sample_buffer) <=> k = T
    BY <1>5
  <2> QED
    BY <1>1, <1>3, <2>1 DEF Hole
<1> QED
  BY <1>1, <1>2, <1>4, <1>5, <1>6, <1>7, Losing

LEMMA FetchFailsLoses ==
  ASSUME Inv, FetchFails
  PROVE  Contract!Lose(1)
<1>1. /\ copied = <<>> /\ copied' = <<>>
      /\ pending_breaks' = note_gap(note_gap(pending_breaks, Len(sample_buffer)), Len(sample_buffer))
      /\ sent < MaxSamples /\ sent' = sent + 1 /\ end' = end + 1
      /\ UNCHANGED <<sample_buffer, produced, sink, out>>
  BY DEF FetchFails, cleanup_stream, Inv, CallsAreInStep, consumer
<1>2. Inv'
  BY FetchFailsStep
<1>3. /\ \A a : GapIn(pending_breaks', a) <=> GapIn(pending_breaks, a) \/ a = Len(sample_buffer)
      /\ \A k, before : WordAt(pending_breaks', k, before) = WordAt(pending_breaks, k, before)
  BY <1>1, GapHeldTwice
<1>4. PICK T : T = Len(out) + Len(Held)
  OBVIOUS
<1>5. /\ T = produced + Len(sample_buffer) /\ produced \in Nat /\ Len(sample_buffer) \in Nat
      /\ Held' = Held
  BY <1>1, <1>4, HeldIs, InvMeans DEF Held
<1>6. \A k \in Int : Ann(k)' = Ann(k)
  BY <1>1, <1>3 DEF Ann
<1>7. ASSUME NEW k \in Int
      PROVE  Hole(k)' <=> Hole(k) \/ (k > 0 /\ k = T)
  <2>1. k - produced = Len(sample_buffer) <=> k = T
    BY <1>5
  <2> QED
    BY <1>1, <1>3, <2>1 DEF Hole
<1>8. sent + 1 <= MaxSamples
  BY <1>1, TrafficAssumption DEF Inv, TypeOK
<1> QED
  BY <1>1, <1>2, <1>4, <1>5, <1>6, <1>7, <1>8, Losing

\* A run copied out and published: the contract produces it, label for label.
LEMMA PublishProduces ==
  ASSUME Inv, Publish
  PROVE  \/ UNCHANGED Contract!vars
         \/ Len(copied) \in 1..Len(Labels(Held, Len(out))) /\ Contract!Produce(Len(copied))
<1> DEFINE c == Len(copied)
<1>1. Inv' /\ \A k \in Int : Ann(k)' = Ann(k) /\ (Hole(k)' <=> Hole(k))
  BY PublishStep
<1>2. /\ out' = out \o copied /\ copied' = <<>> /\ sample_buffer' = sample_buffer
      /\ UNCHANGED <<end, sent>>
  BY DEF Publish, server
<1>3. /\ copied \in Seq(Sample) /\ sample_buffer \in Seq(Sample) /\ out \in Seq(Sample)
      /\ c \in Nat /\ Len(sample_buffer) \in Nat /\ Len(out) \in Nat
  BY DEF Inv, TypeOK
<1>4. Held = copied \o sample_buffer /\ Held' = sample_buffer
  BY <1>2, <1>3 DEF Held
<1>5. Joined(copied, sample_buffer, Held) /\ Joined(out, copied, out') /\ Held \in Seq(Sample)
  BY <1>2, <1>3, <1>4, JoinedIs
<1>6. Len(Held) = c + Len(sample_buffer) /\ Len(out') = Len(out) + c
  BY <1>5 DEF Joined
<1>7. CASE c = 0
  <2>1. copied = <<>>
    BY <1>3, <1>7, EmptySeq
  <2>2. out' = out /\ Held' = Held
    BY <1>2, <1>3, <1>4, <2>1
  <2> QED
    BY <1>1, <1>2, <2>2, Stutters
<1>8. CASE c # 0
  <2>1. Words' = Words /\ Gaps' = Gaps
    <3>1. \A k \in Int : Hole(k)' = Hole(k)
      BY <1>1 DEF Hole
    <3> QED
      BY <1>1, <3>1 DEF Words, Gaps
  <2>2. Words \in [Int -> Geometry] /\ Gaps \in [Int -> BOOLEAN]
    BY LabelsAre
  <2>3. View(Labels(out, 0), Labels(Held, Len(out)), LastLabel, Words, Gaps)
    BY ViewIs
  <2>4. View(Labels(out, 0), Labels(Held, Len(out)), LastLabel, Words, Gaps)'
    BY <1>1, ViewIsNext
  <2>5. PICK o, q, o2, q2, x :
           /\ o = Labels(out, 0) /\ q = Labels(Held, Len(out))
           /\ o2 = Labels(out, 0)' /\ q2 = Labels(Held, Len(out))'
           /\ x = Tagged(copied, Len(out), Words, Gaps)
    OBVIOUS
  <2>6. /\ Tags(o, out, 0, Words, Gaps) /\ Tags(q, Held, Len(out), Words, Gaps)
        /\ Tags(o2, out', 0, Words, Gaps) /\ Tags(q2, sample_buffer, Len(out) + c, Words, Gaps)
        /\ LastLabel' = LastLabel
    <3>1. Len(out') + Len(Held') = Len(out) + Len(Held)
      BY <1>3, <1>4, <1>6
    <3> QED
      BY <1>4, <1>6, <2>1, <2>3, <2>4, <2>5, <3>1 DEF View
  <2>7. Tags(x, copied, Len(out), Words, Gaps)
    BY <1>3, <2>2, <2>5, TaggedIs, SMTT(30)
  <2>8. Joined(x, q2, q)
    BY <1>3, <1>5, <2>6, <2>7, TaggedJoins
  <2>9. Joined(o, x, o2)
    <3>1. 0 \in Nat /\ 0 + Len(out) = Len(out)
      BY <1>3
    <3> QED
      BY <1>5, <2>6, <2>7, <3>1, TaggedJoins
  <2>10. /\ o \in Seq(LabelledSample) /\ x \in Seq(LabelledSample) /\ o2 \in Seq(LabelledSample)
         /\ q \in Seq(LabelledSample) /\ q2 \in Seq(LabelledSample)
         /\ Len(x) = c /\ Len(q) = Len(Held)
    BY <2>6, <2>7 DEF Tags
  <2>11. x = SubSeq(q, 1, c) /\ q2 = SubSeq(q, c + 1, Len(q))
    BY <2>8, <2>10, JoinedWhole
  <2>12. o2 = o \o SubSeq(q, 1, c)
    <3>1. o2 = o \o x
      BY <2>9, <2>10, JoinedWhole
    <3> QED
      BY <2>11, <3>1
  <2>13. c \in 1..Len(q)
    BY <1>3, <1>6, <1>8, <2>10
  <2> QED
    BY <1>2, <2>5, <2>6, <2>11, <2>12, <2>13 DEF Contract!Produce, LastLabel
<1> QED
  BY <1>7, <1>8

\* Where nothing was reported and nothing queued is due, the word is the one before.
LEMMA WordBehind ==
  ASSUME Inv, copied = <<>>
  PROVE  /\ \A k \in Int : k < produced => Ann(k) = WordAt(sink, k, NoGeometry)
         /\ \A k \in Int : k < produced => (Hole(k) <=> k > 0 /\ GapIn(sink, k))
         /\ \A k \in Int : k >= produced - 1 =>
              WordAt(sink, k, NoGeometry) = WordAt(sink, produced, NoGeometry)
         /\ produced = 0 => WordAt(sink, produced, NoGeometry) = NoGeometry
         /\ \A k \in Int : k >= produced => ~GapIn(sink, k)
<1>1. /\ produced \in Nat /\ Len(pending_breaks) \in Nat /\ Len(sink) \in Nat
      /\ \A i \in 1..Len(pending_breaks) : pending_breaks[i].at \in Nat
      /\ \A i \in 1..Len(sink) : sink[i].at \in Nat /\ sink[i].at < produced
  <2>1. Len(copied) = 0
    OBVIOUS
  <2>2. \A i \in 1..Len(sink) : sink[i].at \in Nat /\ sink[i].at < produced
    <3> TAKE i \in 1..Len(sink)
    <3>1. sink[i].at \in Nat /\ sink[i].at < produced + Len(copied) /\ produced \in Nat
      BY InvMeans
    <3> QED
      BY <2>1, <3>1
  <2> QED
    BY <2>2, InvMeans
<1>2. ASSUME NEW k \in Int, k < produced
      PROVE  /\ Ann(k) = WordAt(sink, k, NoGeometry)
             /\ Hole(k) <=> k > 0 /\ GapIn(sink, k)
  <2>1. PICK x : x = k - produced
    OBVIOUS
  <2>2. \A j \in 1..Len(pending_breaks) :
           ~(pending_breaks[j].at <= x) /\ pending_breaks[j].at # x
    BY <1>1, <1>2, <2>1
  <2>3. \A w : WordAt(pending_breaks, x, w) = w
    BY <2>2, WordIsBefore
  <2>4. ~GapIn(pending_breaks, x)
    BY <2>2 DEF GapIn
  <2> QED
    BY <2>1, <2>3, <2>4 DEF Ann, Hole
<1>3. ASSUME NEW k \in Int, k >= produced - 1
      PROVE  WordAt(sink, k, NoGeometry) = WordAt(sink, produced, NoGeometry)
  <2>1. \A i \in 1..Len(sink) : sink[i].at <= k <=> sink[i].at <= produced
    BY <1>1, <1>3
  <2>2. Alike(sink, sink)
    BY <1>1 DEF Alike
  <2> QED
    BY <2>1, <2>2, AlikeWord
<1>4. ASSUME produced = 0
      PROVE  WordAt(sink, produced, NoGeometry) = NoGeometry
  <2>1. \A i \in 1..Len(sink) : ~(sink[i].at <= produced)
    BY <1>1, <1>4
  <2> QED
    BY <2>1, WordIsBefore
<1>5. ASSUME NEW k \in Int, k >= produced
      PROVE  ~GapIn(sink, k)
  <2>1. \A i \in 1..Len(sink) : sink[i].at # k
    BY <1>1, <1>5
  <2> QED
    BY <2>1 DEF GapIn
<1> QED
  BY <1>2, <1>3, <1>4, <1>5

\* A restart throws away what is queued; what the consumer was told remains.
LEMMA RestartClears ==
  ASSUME Inv, NEW room \in 0..Downstream, WorkRestarts(room)
  PROVE  Contract!Clear
<1> DEFINE P == produced
<1>1. /\ copied = <<>> /\ copied' = <<>>
      /\ sample_buffer' = <<>> /\ pending_breaks' = <<Gap(0)>>
      /\ sent < MaxSamples /\ end' = end + 1 /\ sent' = sent + 1
      /\ UNCHANGED <<produced, sink, out>>
  BY DEF WorkRestarts, cleanup_stream, Inv, CallsAreInStep, consumer
<1>2. Inv'
  BY WorkRestartsStep
<1>3. /\ \A a : GapIn(pending_breaks', a) <=> a = 0
      /\ \A k, before : WordAt(pending_breaks', k, before) = before
  <2>1. Announces(sink) \in BOOLEAN
    BY InvMeans
  <2> QED
    BY <1>1, <2>1, OneGap
<1>4. Held' = <<>> /\ Len(Held') = 0
  BY <1>1 DEF Held
<1>5. P \in Nat /\ Len(out) = P /\ Len(Held) \in Nat
  BY HeldIs, InvMeans
<1>6. /\ Words \in [Int -> Geometry] /\ Gaps \in [Int -> BOOLEAN]
      /\ Words' \in [Int -> Geometry] /\ Gaps' \in [Int -> BOOLEAN]
  BY <1>2, LabelsAre, LabelsAreNext
<1>7. ASSUME NEW k \in Nat, k < P
      PROVE  /\ Words'[k] = Words[k] /\ Gaps'[k] = Gaps[k]
             /\ Words[k] = WordAt(sink, k, NoGeometry)
  <2>1. Ann(k) = WordAt(sink, k, NoGeometry) /\ (Hole(k) <=> k > 0 /\ GapIn(sink, k))
    BY <1>1, <1>7, WordBehind
  <2>2. Ann(k)' = WordAt(sink, k, NoGeometry)
    BY <1>1, <1>3 DEF Ann
  <2>3. k - P # 0
    BY <1>5, <1>7
  <2>4. Hole(k)' <=> k > 0 /\ GapIn(sink, k)
    BY <1>1, <1>3, <2>3 DEF Hole
  <2>5. Words'[k] = Words[k] /\ Words[k] = WordAt(sink, k, NoGeometry)
    BY <2>1, <2>2 DEF Words
  <2>6. Gaps'[k] = Hole(k)' /\ Gaps[k] = Hole(k)
    BY DEF Gaps
  <2> QED
    BY <1>6, <2>1, <2>4, <2>5, <2>6
<1>8. Words'[P] = WordAt(sink, P, NoGeometry) /\ Gaps'[P] = (P > 0)
  <2>1. PICK x : x = P
    OBVIOUS
  <2>2. x \in Int /\ x - produced' = 0
    BY <1>1, <1>5, <2>1
  <2>3. Ann(x)' = WordAt(sink, x, NoGeometry)
    BY <1>1, <1>3 DEF Ann
  <2>4. Hole(x)' <=> x > 0
    BY <1>1, <1>3, <2>2 DEF Hole
  <2>5. Words'[x] = Ann(x)' /\ Gaps'[x] = Hole(x)'
    BY <2>2 DEF Words, Gaps
  <2> QED
    BY <1>6, <2>1, <2>2, <2>3, <2>4, <2>5
<1>9. View(Labels(out, 0), Labels(Held, Len(out)), LastLabel, Words, Gaps)
  BY ViewIs
<1>10. View(Labels(out, 0), Labels(Held, Len(out)), LastLabel, Words, Gaps)'
  BY <1>2, ViewIsNext
<1>11. PICK o, q2, t2 : o = Labels(out, 0) /\ q2 = Labels(Held, Len(out))' /\ t2 = LastLabel'
  OBVIOUS
<1>12. /\ Tags(o, out, 0, Words, Gaps) /\ Tags(Labels(out, 0)', out, 0, Words', Gaps')
       /\ Tags(q2, Held', Len(out), Words', Gaps')
       /\ t2 = [gap |-> Gaps'[P], ann |-> Words'[P]]
  <2>1. Len(out') + Len(Held') = P
    BY <1>1, <1>4, <1>5
  <2> QED
    BY <1>1, <1>9, <1>10, <1>11, <2>1 DEF View
<1>13. Labels(out, 0)' = o
  <2>1. \A k \in Nat : 0 <= k /\ k < 0 + Len(out) => Words'[k] = Words[k] /\ Gaps'[k] = Gaps[k]
    BY <1>5, <1>7
  <2> QED
    BY <1>5, <1>12, <2>1, TagsAlike
<1>14. q2 = <<>> /\ (o = <<>> <=> P = 0)
  BY <1>4, <1>5, <1>12, TagsEmpty
<1>15. WordAt(sink, P, NoGeometry) = IF o = <<>> THEN NoGeometry ELSE o[Len(o)].ann
  <2>1. CASE P = 0
    BY <1>1, <1>14, <2>1, WordBehind
  <2>2. CASE P # 0
    <3>1. PICK k : k = P - 1
      OBVIOUS
    <3>2. k \in Nat /\ k < P /\ P \in 1..Len(out) /\ 0 + P - 1 = k
      BY <1>5, <2>2, <3>1
    <3>3. Len(o) = P /\ o[P] = LabelOf(out[P], k, Words, Gaps)
      BY <1>5, <1>12, <3>2 DEF Tags
    <3>4. o[P].ann = Words[k]
      BY <3>3 DEF LabelOf
    <3>5. Words[k] = WordAt(sink, k, NoGeometry)
      BY <1>7, <3>2
    <3>6. WordAt(sink, k, NoGeometry) = WordAt(sink, P, NoGeometry)
      <4>1. k \in Int /\ k >= P - 1
        BY <1>5, <3>1
      <4> QED
        BY <1>1, <4>1, WordBehind
    <3> QED
      BY <1>14, <2>2, <3>3, <3>4, <3>5, <3>6
  <2> QED
    BY <2>1, <2>2
<1>16. t2 = [gap |-> o # <<>>, ann |-> IF o = <<>> THEN NoGeometry ELSE o[Len(o)].ann]
  <2>1. (P > 0) = (o # <<>>)
    BY <1>5, <1>14
  <2> QED
    BY <1>8, <1>12, <1>15, <2>1
<1>17. Contract!NoGeometry = NoGeometry
  BY DEF Contract!NoGeometry, NoGeometry
<1> QED
  BY <1>1, <1>11, <1>13, <1>14, <1>16, <1>17 DEF Contract!Clear, Contract!Told, LastLabel

Marked(s, gap, ann) == [s |-> s, gap |-> gap, ann |-> ann]

\* The labels after a packet of n samples of which d were given up, offset by offset:
\* what was queued moves up by d, the hole is at the front, the packet's own behind it.
Arrived(P, L, n, d, words, gaps, words2, gaps2, gap, ann) ==
  \A m \in 0..(L + n - d) :
    /\ words2[P + m] = IF m + d < L THEN words[P + (m + d)] ELSE ann
    /\ gaps2[P + m] = IF m = 0 /\ d > 0 THEN P > 0
                      ELSE IF m + d < L THEN gaps[P + (m + d)] ELSE gap /\ m + d = L

\* The samples of a packet, labelled by the contract.
Delivered(s, n, gap, ann) == [j \in 1..n |-> [s |-> s[j], gap |-> gap /\ j = 1, ann |-> ann]]

LEMMA DeliveredIs ==
  ASSUME NEW n \in Nat, NEW s \in Seq(Sample), Len(s) = n, NEW gap \in BOOLEAN, NEW ann \in Geometry
  PROVE  /\ Delivered(s, n, gap, ann) \in Seq(LabelledSample) /\ Len(Delivered(s, n, gap, ann)) = n
         /\ \A j \in 1..n : Delivered(s, n, gap, ann)[j] = Marked(s[j], gap /\ j = 1, ann)
<1>1. PICK q : q = Delivered(s, n, gap, ann)
  OBVIOUS
<1>2. q = [j \in 1..n |-> Marked(s[j], gap /\ j = 1, ann)]
  BY <1>1 DEF Delivered, Marked
<1>3. \A j \in 1..n : Marked(s[j], gap /\ j = 1, ann) \in LabelledSample
  <2> TAKE j \in 1..n
  <2>1. s[j] \in Sample /\ (gap /\ j = 1) \in BOOLEAN
    OBVIOUS
  <2> QED
    BY <2>1 DEF Marked, LabelledSample
<1>4. q \in [1..n -> LabelledSample]
  BY <1>2, <1>3
<1>5. q \in Seq(LabelledSample) /\ Len(q) = n
  BY <1>4
<1> QED
  BY <1>1, <1>2, <1>5

LEMMA HoleMarked ==
  ASSUME NEW s, NEW gap, NEW hole, NEW ann
  PROVE  [Marked(s, gap, ann) EXCEPT !.gap = hole] = Marked(s, hole, ann)
BY DEF Marked

\* The queue with its first d samples given up, as the contract marks it.
Dropped(q, d, hole) ==
  [i \in 1..(Len(q) - d) |->
     IF i = 1 /\ d > 0 THEN [q[d + 1] EXCEPT !.gap = hole] ELSE q[i + d]]

LEMMA DroppedIs ==
  ASSUME NEW P \in Nat, NEW L \in Nat, NEW n \in Nat, NEW d \in 0..L,
         NEW words, NEW gaps, NEW words2, NEW gaps2, NEW gap \in BOOLEAN, NEW ann \in Geometry,
         Arrived(P, L, n, d, words, gaps, words2, gaps2, gap, ann),
         NEW h, Len(h) = L, NEW s \in Seq(Sample), Len(s) = n, NEW w, Joined(h, s, w),
         NEW kept, Len(kept) = L + n - d, \A i \in 1..(L + n - d) : kept[i] = w[d + i],
         NEW q, Tags(q, h, P, words, gaps), NEW q2, Tags(q2, kept, P, words2, gaps2),
         NEW grown \in Seq(LabelledSample), Joined(q, Delivered(s, n, gap, ann), grown)
  PROVE  q2 = Dropped(grown, d, P > 0)
<1> DEFINE new == Delivered(s, n, gap, ann)
<1>1. Len(new) = n /\ \A j \in 1..n : new[j] = Marked(s[j], gap /\ j = 1, ann)
  BY DeliveredIs
<1>2. Len(q) = L /\ \A i \in 1..L : q[i] = Marked(h[i], gaps[P + i - 1], words[P + i - 1])
  BY DEF Tags, LabelOf, Marked
<1>3. /\ q2 \in Seq(LabelledSample) /\ Len(q2) = L + n - d
      /\ \A i \in 1..(L + n - d) : q2[i] = Marked(kept[i], gaps2[P + i - 1], words2[P + i - 1])
  BY DEF Tags, LabelOf, Marked
<1> HIDE DEF new
<1>4. /\ Len(grown) = L + n /\ \A i \in 1..L : grown[i] = q[i]
      /\ \A i \in 1..(L + n) : i > L => grown[i] = new[i - L]
  BY <1>1, <1>2 DEF Joined, new
<1>5. /\ \A i \in 1..L : w[i] = h[i]
      /\ \A i \in 1..(L + n) : i > L => w[i] = s[i - L]
  BY DEF Joined
<1>6. Len(grown) - d = L + n - d /\ L + n - d \in Nat
  BY <1>4
<1>7. ASSUME NEW i \in 1..(L + n - d)
      PROVE  q2[i] = IF i = 1 /\ d > 0 THEN [grown[d + 1] EXCEPT !.gap = P > 0] ELSE grown[i + d]
  <2>1. PICK m, x : m = i - 1 /\ x = i + d
    OBVIOUS
  <2>2. /\ m \in 0..(L + n - d) /\ x \in 1..(L + n) /\ P + i - 1 = P + m /\ d + i = x
        /\ m + d = x - 1 /\ (m = 0 <=> i = 1) /\ (m + d < L <=> x <= L)
    BY <2>1
  <2>3. q2[i] = Marked(w[x], gaps2[P + m], words2[P + m])
    BY <1>3, <2>2
  <2>4. /\ words2[P + m] = IF x <= L THEN words[P + (m + d)] ELSE ann
        /\ gaps2[P + m] = IF i = 1 /\ d > 0 THEN P > 0
                          ELSE IF x <= L THEN gaps[P + (m + d)] ELSE gap /\ m + d = L
    BY <2>2 DEF Arrived
  <2>5. CASE x <= L
    <3>1. x \in 1..L /\ P + x - 1 = P + (m + d)
      BY <2>2, <2>5
    <3>2. grown[x] = Marked(w[x], gaps[P + (m + d)], words[P + (m + d)])
      BY <1>2, <1>4, <1>5, <3>1
    <3>3. CASE i = 1 /\ d > 0
      <4>1. d + 1 = x
        BY <2>2, <3>3
      <4>2. [Marked(w[x], gaps[P + (m + d)], words[P + (m + d)]) EXCEPT !.gap = P > 0]
              = Marked(w[x], P > 0, words[P + (m + d)])
        BY HoleMarked
      <4> QED
        BY <2>3, <2>4, <2>5, <3>2, <3>3, <4>1, <4>2
    <3>4. CASE ~(i = 1 /\ d > 0)
      BY <2>1, <2>3, <2>4, <2>5, <3>2, <3>4
    <3> QED
      BY <3>3, <3>4
  <2>6. CASE ~(x <= L)
    <3>1. PICK j : j = x - L
      OBVIOUS
    <3>2. j \in 1..n /\ x > L /\ x - L = j /\ (m + d = L <=> j = 1)
      BY <2>2, <2>6, <3>1
    <3>3. grown[x] = Marked(s[j], gap /\ j = 1, ann) /\ w[x] = s[j]
      BY <1>1, <1>4, <1>5, <2>2, <3>2
    <3>4. CASE i = 1 /\ d > 0
      <4>1. d + 1 = x
        BY <2>2, <3>4
      <4>2. [Marked(s[j], gap /\ j = 1, ann) EXCEPT !.gap = P > 0] = Marked(s[j], P > 0, ann)
        BY HoleMarked
      <4> QED
        BY <2>3, <2>4, <2>6, <3>3, <3>4, <4>1, <4>2
    <3>5. CASE ~(i = 1 /\ d > 0)
      <4>1. (gap /\ m + d = L) = (gap /\ j = 1)
        BY <3>2
      <4> QED
        BY <2>1, <2>3, <2>4, <2>6, <3>3, <3>5, <4>1
    <3> QED
      BY <3>4, <3>5
  <2> QED
    BY <2>5, <2>6
<1>8. q2 = [i \in 1..(L + n - d) |-> q2[i]]
  BY <1>3
<1> QED
  BY <1>6, <1>7, <1>8 DEF Dropped

\* What is announced at and behind the first sample held, while a sweep is under way.
LEMMA HeldWords ==
  ASSUME Inv, copied = <<>>, NEW x \in Nat
  PROVE  /\ Words[produced + x] = WordAt(pending_breaks, x, published_geometry)
         /\ Gaps[produced + x] = (produced + x > 0 /\ GapIn(pending_breaks, x))
<1>1. produced \in Nat /\ Len(copied) = 0
  BY InvMeans
<1>2. PICK k : k = produced + x
  OBVIOUS
<1>3. k \in Int /\ k >= produced /\ k >= produced - 1 /\ k - produced = x
  BY <1>1, <1>2
<1>4. WordAt(sink, k, NoGeometry) = published_geometry
  <2>1. WordAt(sink, k, NoGeometry) = WordAt(sink, produced, NoGeometry)
    BY <1>3, WordBehind
  <2>2. produced + Len(copied) = produced
    BY <1>1
  <2> QED
    BY <2>1, <2>2 DEF Inv, PublishedIsLast
<1>5. ~GapIn(sink, k)
  BY <1>3, WordBehind
<1>6. Words[k] = Ann(k) /\ Gaps[k] = Hole(k)
  BY <1>3 DEF Words, Gaps
<1> QED
  BY <1>2, <1>3, <1>4, <1>5, <1>6 DEF Ann, Hole

LEMMA HeldWordsNext ==
  ASSUME Inv, copied = <<>>, UNCHANGED <<produced, sink>>, NEW x \in Nat
  PROVE  /\ Words'[produced + x] = WordAt(pending_breaks', x, published_geometry)
         /\ Gaps'[produced + x] = (produced + x > 0 /\ GapIn(pending_breaks', x))
<1>1. produced \in Nat /\ Len(copied) = 0
  BY InvMeans
<1>2. PICK k : k = produced + x
  OBVIOUS
<1>3. k \in Int /\ k >= produced /\ k >= produced - 1 /\ k - produced = x
  BY <1>1, <1>2
<1>4. WordAt(sink, k, NoGeometry) = published_geometry
  <2>1. WordAt(sink, k, NoGeometry) = WordAt(sink, produced, NoGeometry)
    BY <1>3, WordBehind
  <2>2. produced + Len(copied) = produced
    BY <1>1
  <2> QED
    BY <2>1, <2>2 DEF Inv, PublishedIsLast
<1>5. ~GapIn(sink, k)
  BY <1>3, WordBehind
<1>6. Words'[k] = Ann(k)' /\ Gaps'[k] = Hole(k)'
  BY <1>3 DEF Words, Gaps
<1>7. /\ Ann(k)' = WordAt(pending_breaks', x, WordAt(sink, k, NoGeometry))
      /\ Hole(k)' = (k > 0 /\ (GapIn(sink, k) \/ GapIn(pending_breaks', x)))
  BY <1>3 DEF Ann, Hole
<1> QED
  BY <1>2, <1>4, <1>5, <1>6, <1>7

\* Nothing is announced behind the last place a break can be at.
Settled(p, most, x) ==
  /\ \A before : WordAt(p, x, before) = WordAt(p, most, before)
  /\ GapIn(p, x) => x = most

LEMMA WordsSettle ==
  ASSUME NEW told, NEW p, NEW most \in Int, InQueue(p, told, most), NEW x \in Int, most <= x
  PROVE  Settled(p, most, x)
<1>1. \A before : WordAt(p, x, before) = WordAt(p, most, before)
  BY MostGrows
<1>2. ASSUME NEW i \in 1..Len(p), p[i].at = x
      PROVE  x = most
  <2>1. p[i].at \in Nat /\ p[i].at <= most
    BY BreaksAre DEF InQueue, Within
  <2> QED
    BY <1>2, <2>1
<1> QED
  BY <1>1, <1>2 DEF Settled, GapIn

\* The queue of offsets after a packet stands for what the contract says arrives.
LEMMA PacketArrives ==
  ASSUME Inv, copied = <<>>, UNCHANGED <<produced, sink>>,
         NEW t0 \in Int, NEW n \in Nat, NEW g \in Geometry,
         NEW P, P = produced, NEW L, L = Len(sample_buffer), NEW d \in 0..L, d = Overflow(n),
         PacketNoted(pending_breaks, t0, n, g, pending_breaks'),
         NEW ann, ann = EpochAfter(epoch, GeometryNews(epoch, g), g),
         NEW gap, gap = (Gaps[P + L] \/ (P + L > 0 /\ t0 # end))
  PROVE  Arrived(P, L, n, d, Words, Gaps, Words', Gaps', gap, ann)
<1> DEFINE W(x) == WordAt(pending_breaks, x, published_geometry)
           G(x) == GapIn(pending_breaks, x)
           J == Jumped(t0)
           newsy == GeometryNews(epoch, g) # {}
<1>1. P \in Nat /\ L \in Nat /\ Len(copied) = 0
  BY InvMeans
<1>2. /\ InQueue(pending_breaks, Announces(sink), L)
      /\ epoch = W(L)
      /\ last_end = <<>> => P + L = 0 \/ G(L)
  <2>1. Len(copied) + Len(sample_buffer) = L /\ produced + Len(copied) + Len(sample_buffer) = P + L
    BY <1>1
  <2> QED
    BY <2>1 DEF Inv, EpochIsLast, ForgottenIsFlagged
<1>3. ASSUME NEW x \in Nat, L <= x
      PROVE  W(x) = W(L) /\ (G(x) => x = L)
  <2>1. PICK told, p, y, z :
          told = Announces(sink) /\ p = pending_breaks /\ y = L /\ z = x
    OBVIOUS
  <2>2. y \in Int /\ z \in Int /\ y <= z /\ InQueue(p, told, y)
    BY <1>1, <1>2, <1>3, <2>1
  <2>3. Settled(p, y, z)
    BY <2>2, WordsSettle
  <2> QED
    BY <2>1, <2>3 DEF Settled
<1>4. \A x \in Nat : Words[P + x] = W(x) /\ Gaps[P + x] = (P + x > 0 /\ G(x))
  BY HeldWords
<1>5. ASSUME NEW m \in Nat
      PROVE  /\ Words'[P + m] = IF newsy /\ L <= m + d THEN g ELSE W(m + d)
             /\ Gaps'[P + m] = (P + m > 0 /\ ((m = 0 /\ d > 0) \/ G(m + d) \/ (J /\ m + d = L)))
  <2>1. /\ Words'[P + m] = WordAt(pending_breaks', m, published_geometry)
        /\ Gaps'[P + m] = (P + m > 0 /\ GapIn(pending_breaks', m))
    BY HeldWordsNext
  <2>2. /\ WordAt(pending_breaks', m, published_geometry) = IF newsy /\ L <= m + d THEN g ELSE W(m + d)
        /\ GapIn(pending_breaks', m) <=> ((m = 0 /\ d > 0) \/ G(m + d) \/ (J /\ m + d = L))
    BY DEF PacketNoted
  <2> QED
    BY <2>1, <2>2
<1>6. P + L > 0 => (G(L) \/ J <=> G(L) \/ t0 # end)
  <2>1. last_end = <<>> \/ last_end = <<end>>
    BY DEF Inv, TypeOK
  <2>2. CASE last_end = <<>>
    BY <1>1, <1>2, <2>2
  <2>3. CASE last_end = <<end>>
    <3>1. J <=> t0 # end
      BY <2>3 DEF Jumped
    <3> QED
      BY <3>1
  <2> QED
    BY <2>1, <2>2, <2>3
<1>7. ann = IF newsy THEN g ELSE W(L)
  BY <1>2 DEF EpochAfter
<1>8. gap = (P + L > 0 /\ (G(L) \/ J))
  <2>1. Gaps[P + L] = (P + L > 0 /\ G(L))
    BY <1>1, <1>4
  <2> QED
    BY <1>6, <2>1
<1> HIDE DEF W, G, J, newsy
<1>9. ASSUME NEW m \in 0..(L + n - d)
      PROVE  /\ Words'[P + m] = IF m + d < L THEN Words[P + (m + d)] ELSE ann
             /\ Gaps'[P + m] = IF m = 0 /\ d > 0 THEN P > 0
                               ELSE IF m + d < L THEN Gaps[P + (m + d)] ELSE gap /\ m + d = L
  <2>1. PICK x : x = m + d
    OBVIOUS
  <2>2. m \in Nat /\ x \in Nat
    BY <1>1, <1>9, <2>1
  <2>3. /\ Words'[P + m] = IF newsy /\ L <= x THEN g ELSE W(x)
        /\ Gaps'[P + m] = (P + m > 0 /\ ((m = 0 /\ d > 0) \/ G(x) \/ (J /\ x = L)))
    BY <1>5, <2>1, <2>2
  <2>4. Words[P + x] = W(x) /\ Gaps[P + x] = (P + x > 0 /\ G(x))
    BY <1>4, <2>2
  <2>5. Words'[P + m] = IF x < L THEN Words[P + x] ELSE ann
    <3>1. x < L <=> ~(L <= x)
      BY <1>1, <2>2
    <3>2. L <= x => W(x) = W(L)
      BY <1>3, <2>2
    <3> QED
      BY <1>7, <2>3, <2>4, <3>1, <3>2
  <2>6. CASE m = 0 /\ d > 0
    <3>1. P + m > 0 <=> P > 0
      BY <1>1, <2>6
    <3> QED
      BY <2>1, <2>3, <2>5, <2>6, <3>1
  <2>7. CASE ~(m = 0 /\ d > 0)
    <3>1. P + m > 0 <=> P + x > 0
      <4>1. d \in Nat /\ P \in Nat
        BY <1>1
      <4>2. CASE d = 0
        BY <2>1, <2>2, <4>2
      <4>3. CASE d > 0
        <5>1. m > 0
          BY <2>2, <2>7, <4>3
        <5> QED
          BY <2>1, <2>2, <4>1, <5>1
      <4> QED
        BY <4>1, <4>2, <4>3
    <3>2. CASE x < L
      <4>1. x # L
        BY <1>1, <2>2, <3>2
      <4>2. Gaps'[P + m] = Gaps[P + x]
        BY <2>3, <2>4, <2>7, <3>1, <4>1
      <4> QED
        BY <2>1, <2>5, <2>7, <3>2, <4>2
    <3>3. CASE ~(x < L)
      <4>1. L <= x /\ (G(x) => x = L)
        BY <1>1, <1>3, <2>2, <3>3
      <4>2. Gaps'[P + m] = (gap /\ x = L)
        <5>1. CASE x = L
          BY <1>8, <2>3, <2>7, <3>1, <5>1
        <5>2. CASE x # L
          BY <2>3, <2>7, <4>1, <5>2
        <5> QED
          BY <5>1, <5>2
      <4> QED
        BY <2>1, <2>5, <2>7, <3>3, <4>2
    <3> QED
      BY <3>2, <3>3
  <2> QED
    BY <2>6, <2>7
<1> QED
  BY <1>9 DEF Arrived

\* What the consumer has keeps its labels while a sweep is under way.
LEMMA OutKept ==
  ASSUME Inv, Inv', copied = <<>>, UNCHANGED <<produced, sink, out>>
  PROVE  Labels(out, 0)' = Labels(out, 0)
<1>1. produced \in Nat /\ Len(out) = produced
  BY HeldIs, InvMeans
<1>2. /\ Words \in [Int -> Geometry] /\ Gaps \in [Int -> BOOLEAN]
      /\ Words' \in [Int -> Geometry] /\ Gaps' \in [Int -> BOOLEAN]
  BY LabelsAre, LabelsAreNext
<1>3. Len(pending_breaks') \in Nat /\ \A i \in 1..Len(pending_breaks') : pending_breaks'[i].at \in Nat
  <2>1. pending_breaks' \in Seq(Break)
    BY DEF Inv, TypeOK
  <2> QED
    BY <2>1, BreaksAre
<1>4. ASSUME NEW k \in Nat, k < produced
      PROVE  Words'[k] = Words[k] /\ Gaps'[k] = Gaps[k]
  <2>1. Ann(k) = WordAt(sink, k, NoGeometry) /\ (Hole(k) <=> k > 0 /\ GapIn(sink, k))
    BY <1>4, WordBehind
  <2>2. PICK x : x = k - produced
    OBVIOUS
  <2>3. \A j \in 1..Len(pending_breaks') :
           ~(pending_breaks'[j].at <= x) /\ pending_breaks'[j].at # x
    BY <1>1, <1>3, <1>4, <2>2
  <2>4. \A w : WordAt(pending_breaks', x, w) = w
    BY <2>3, WordIsBefore
  <2>5. ~GapIn(pending_breaks', x)
    BY <2>3 DEF GapIn
  <2>6. Ann(k)' = WordAt(sink, k, NoGeometry) /\ (Hole(k)' <=> k > 0 /\ GapIn(sink, k))
    BY <2>2, <2>4, <2>5 DEF Ann, Hole
  <2>7. Words'[k] = Ann(k)' /\ Words[k] = Ann(k)
    BY DEF Words
  <2>8. Gaps'[k] = Hole(k)' /\ Gaps[k] = Hole(k)
    BY DEF Gaps
  <2> QED
    BY <1>2, <2>1, <2>6, <2>7, <2>8
<1>5. View(Labels(out, 0), Labels(Held, Len(out)), LastLabel, Words, Gaps)
  BY ViewIs
<1>6. View(Labels(out, 0), Labels(Held, Len(out)), LastLabel, Words, Gaps)'
  BY ViewIsNext
<1>7. Tags(Labels(out, 0), out, 0, Words, Gaps) /\ Tags(Labels(out, 0)', out, 0, Words', Gaps')
  BY <1>5, <1>6 DEF View
<1>8. \A k \in Nat : 0 <= k /\ k < 0 + Len(out) => Words'[k] = Words[k] /\ Gaps'[k] = Gaps[k]
  BY <1>1, <1>4
<1> QED
  BY <1>1, <1>7, <1>8, TagsAlike

LEMMA AnnouncedAsNews ==
  ASSUME NEW e, NEW g
  PROVE  Contract!Announced(e, g) = EpochAfter(e, GeometryNews(e, g), g)
<1>1. GeometryNews(e, g) # {} <=> Declared(g) /\ (~Declared(e) \/ Moved(e, g))
  BY DEF GeometryNews
<1>2. /\ \A a : Contract!Declared(a) <=> Declared(a)
      /\ Contract!Moved(e, g) <=> Moved(e, g)
  BY DEF Contract!Declared, Declared, Contract!Moved, Moved, Contract!Distance, Distance,
         Contract!rate_moved, rate_moved
<1> QED
  BY <1>1, <1>2 DEF Contract!Announced, EpochAfter

\* The state of the contract before and after a packet, in one predicate.
Arrives(t0, n, g, d, gap, ann, s, o, q, o2, q2, t2) ==
  /\ First(t0) + n <= MaxSamples
  /\ d < Len(q \o Delivered(s, n, gap, ann)) \/ d = 0
  /\ q2 = Dropped(q \o Delivered(s, n, gap, ann), d, o # <<>>)
  /\ t2 = [gap |-> gap /\ n = 0, ann |-> ann]
  /\ end' = t0 + n /\ sent' = First(t0) + n
  /\ o2 = o

LEMMA ArrivesIs ==
  ASSUME NEW t0, NEW n, NEW g, NEW d,
         Arrives(t0, n, g, d, LastLabel.gap \/ (Contract!HasPredecessor /\ t0 # end),
                 Contract!Announced(LastLabel.ann, g), PacketSamples(t0, First(t0), n, g),
                 Labels(out, 0), Labels(Held, Len(out)),
                 Labels(out, 0)', Labels(Held, Len(out))', LastLabel')
  PROVE  Contract!Arrive(t0, n, g, d)
<1>1. Contract!PacketSamples(t0, First(t0), n, g) = PacketSamples(t0, First(t0), n, g)
  BY DEF Contract!PacketSamples, PacketSamples
<1> QED
  BY <1>1 DEF Arrives, Contract!Arrive, Contract!Discard, Dropped, Delivered, LastLabel, First

LEMMA PacketIsArrival ==
  ASSUME Inv, NEW t0 \in Int, NEW n \in Nat, NEW g \in Geometry, IqPacket(t0, n, g)
  PROVE  \E d \in 0..Len(Labels(Held, Len(out))) : Contract!Arrive(t0, n, g, d)
<1>1. PICK P, L, d, s : /\ P = produced /\ L = Len(sample_buffer) /\ d = Overflow(n)
                        /\ s = PacketSamples(t0, First(t0), n, g)
  OBVIOUS
<1>2. /\ copied = <<>> /\ copied' = <<>> /\ First(t0) + n <= MaxSamples
      /\ end' = t0 + n /\ sent' = First(t0) + n
      /\ sample_buffer' = SubSeq(sample_buffer \o s, d + 1, L + n)
      /\ UNCHANGED <<published_geometry, produced, sink, out>>
      /\ d \in 0..(L + n) /\ d <= L /\ (d < L + n \/ d = 0)
      /\ PacketNoted(pending_breaks, t0, n, g, pending_breaks')
      /\ epoch' = EpochAfter(epoch, GeometryNews(epoch, g), g)
  BY <1>1, IqPacketMeans
<1>3. Inv'
  BY IqPacketStep
<1>4. /\ P \in Nat /\ L \in Nat /\ Len(out) = P /\ sample_buffer \in Seq(Sample)
      /\ Held = sample_buffer /\ Held' = sample_buffer' /\ d \in 0..L
      /\ First(t0) \in Nat
  <2>1. /\ P \in Nat /\ L \in Nat /\ Len(out) = P /\ sample_buffer \in Seq(Sample)
        /\ Held = sample_buffer /\ sent \in Nat
    BY <1>1, <1>2, HeldIs, InvMeans DEF Inv, TypeOK
  <2>2. sample_buffer' \in Seq(Sample)
    BY <1>3 DEF Inv, TypeOK
  <2>3. Held' = sample_buffer'
    BY <1>2, <2>2 DEF Held
  <2>4. First(t0) \in Nat
    BY <2>1 DEF First
  <2> QED
    BY <1>2, <2>1, <2>3, <2>4
<1>5. s \in Seq(Sample) /\ Len(s) = n
  <2>1. PICK f : f = First(t0)
    OBVIOUS
  <2>2. f \in Nat /\ s = PacketSamples(t0, f, n, g)
    BY <1>1, <1>4, <2>1
  <2>3. PacketSamples(t0, f, n, g) \in Seq(Sample) /\ Len(PacketSamples(t0, f, n, g)) = n
    BY <2>2, PacketSamplesAre
  <2> QED
    BY <2>2, <2>3
<1>6. PICK w : w = sample_buffer \o s
  OBVIOUS
<1>7. w \in Seq(Sample) /\ Joined(sample_buffer, s, w) /\ Len(w) = L + n
  <2>1. w \in Seq(Sample) /\ Joined(sample_buffer, s, w)
    BY <1>4, <1>5, <1>6, JoinedIs
  <2> QED
    BY <1>1, <1>5, <2>1 DEF Joined
<1>8. /\ Len(sample_buffer') = L + n - d
      /\ \A i \in 1..(L + n - d) : sample_buffer'[i] = w[d + i]
  <2>1. sample_buffer' = SubSeq(w, d + 1, Len(w)) /\ d \in 0..Len(w) /\ Len(w) - d = L + n - d
    BY <1>2, <1>4, <1>6, <1>7
  <2> QED
    BY <1>7, <2>1, RestIs
<1>9. PICK gap, ann :
        /\ gap = (LastLabel.gap \/ (Contract!HasPredecessor /\ t0 # end))
        /\ ann = Contract!Announced(LastLabel.ann, g)
  OBVIOUS
<1>10. PICK o, q, q2, t2 :
         /\ o = Labels(out, 0) /\ q = Labels(Held, Len(out))
         /\ q2 = Labels(Held, Len(out))' /\ t2 = LastLabel'
  OBVIOUS
<1>11. /\ Tags(o, out, 0, Words, Gaps) /\ Tags(q, sample_buffer, P, Words, Gaps)
       /\ LastLabel = [gap |-> Gaps[P + L], ann |-> Words[P + L]]
  <2>1. View(Labels(out, 0), Labels(Held, Len(out)), LastLabel, Words, Gaps)
    BY ViewIs
  <2> QED
    BY <1>1, <1>4, <1>10, <2>1 DEF View
<1>12. /\ Tags(q2, sample_buffer', P, Words', Gaps')
       /\ t2 = [gap |-> Gaps'[P + (L + n - d)], ann |-> Words'[P + (L + n - d)]]
  <2>1. View(Labels(out, 0), Labels(Held, Len(out)), LastLabel, Words, Gaps)'
    BY <1>3, ViewIsNext
  <2> QED
    BY <1>2, <1>4, <1>8, <1>10, <2>1 DEF View
<1>13. (o = <<>> <=> P = 0) /\ (q = <<>> <=> L = 0)
  BY <1>1, <1>4, <1>11, TagsEmpty
<1>14. gap = (Gaps[P + L] \/ (P + L > 0 /\ t0 # end))
  <2>1. Contract!HasPredecessor <=> o # <<>> \/ q # <<>>
    BY <1>10 DEF Contract!HasPredecessor
  <2>2. o # <<>> \/ q # <<>> <=> P + L > 0
    BY <1>4, <1>13
  <2>3. LastLabel.gap = Gaps[P + L]
    BY <1>11
  <2> QED
    BY <1>9, <2>1, <2>2, <2>3
<1>15. ann = EpochAfter(epoch, GeometryNews(epoch, g), g) /\ ann \in Geometry /\ gap \in BOOLEAN
  <2>1. Words[P + L] = epoch
    <3>1. Words[P + L] = WordAt(pending_breaks, L, published_geometry)
      BY <1>1, <1>2, <1>4, HeldWords
    <3>2. Len(copied) + Len(sample_buffer) = L
      BY <1>1, <1>2, <1>4
    <3> QED
      BY <3>1, <3>2 DEF Inv, EpochIsLast
  <2>2. LastLabel.ann = epoch
    BY <1>11, <2>1
  <2>3. ann = EpochAfter(epoch, GeometryNews(epoch, g), g)
    BY <1>9, <2>2, AnnouncedAsNews
  <2>4. epoch' \in Geometry
    BY <1>3 DEF Inv, TypeOK
  <2>5. Gaps \in [Int -> BOOLEAN] /\ P + L \in Int
    BY <1>4, LabelsAre
  <2> QED
    BY <1>2, <1>14, <2>3, <2>4, <2>5
<1>16. Arrived(P, L, n, d, Words, Gaps, Words', Gaps', gap, ann)
  BY <1>1, <1>2, <1>4, <1>14, <1>15, PacketArrives
<1>17. PICK new, grown : new = Delivered(s, n, gap, ann) /\ grown = q \o new
  OBVIOUS
<1>18. grown \in Seq(LabelledSample) /\ Joined(q, new, grown) /\ Len(grown) = L + n
  <2>1. new \in Seq(LabelledSample) /\ Len(new) = n
    BY <1>5, <1>15, <1>17, DeliveredIs
  <2>2. q \in Seq(LabelledSample) /\ Len(q) = L
    BY <1>1, <1>11 DEF Tags
  <2>3. grown \in Seq(LabelledSample) /\ Joined(q, new, grown)
    BY <1>17, <2>1, <2>2, JoinedIs
  <2> QED
    BY <2>1, <2>2, <2>3 DEF Joined
<1>19. q2 = Dropped(grown, d, P > 0)
  <2>1. PICK h, kept, words, gaps, words2, gaps2 :
           /\ h = sample_buffer /\ kept = sample_buffer'
           /\ words = Words /\ gaps = Gaps /\ words2 = Words' /\ gaps2 = Gaps'
    OBVIOUS
  <2>2. /\ Len(h) = L /\ Joined(h, s, w) /\ Len(kept) = L + n - d
        /\ Tags(q, h, P, words, gaps) /\ Tags(q2, kept, P, words2, gaps2)
        /\ Arrived(P, L, n, d, words, gaps, words2, gaps2, gap, ann)
    BY <1>1, <1>7, <1>8, <1>11, <1>12, <1>16, <2>1
  <2>3. \A i \in 1..(L + n - d) : kept[i] = w[d + i]
    BY <1>8, <2>1
  <2>4. Joined(q, Delivered(s, n, gap, ann), grown)
    BY <1>17, <1>18
  <2> QED
    <3>1. /\ P \in Nat /\ L \in Nat /\ d \in 0..L /\ s \in Seq(Sample) /\ Len(s) = n
          /\ gap \in BOOLEAN /\ ann \in Geometry /\ grown \in Seq(LabelledSample)
      BY <1>4, <1>5, <1>15, <1>18
    <3> QED
      BY <2>2, <2>3, <2>4, <3>1, DroppedIs
<1>20. t2 = [gap |-> gap /\ n = 0, ann |-> ann]
  <2>1. PICK m : m = L + n - d
    OBVIOUS
  <2>2. /\ m \in 0..(L + n - d) /\ ~(m = 0 /\ d > 0) /\ ~(m + d < L) /\ (m + d = L <=> n = 0)
    BY <1>2, <1>4, <2>1
  <2>3. Words'[P + m] = ann /\ Gaps'[P + m] = (gap /\ m + d = L)
    BY <1>16, <2>2 DEF Arrived
  <2>4. (gap /\ m + d = L) = (gap /\ n = 0)
    BY <2>2
  <2> QED
    BY <1>12, <2>1, <2>3, <2>4
<1>21. Labels(out, 0)' = o
  BY <1>2, <1>3, <1>10, OutKept
<1>22. Arrives(t0, n, g, d, gap, ann, s, o, q, o, q2, t2)
  <2>1. (o # <<>>) = (P > 0)
    BY <1>4, <1>13
  <2>2. d < Len(grown) \/ d = 0
    BY <1>2, <1>18
  <2> QED
    BY <1>2, <1>17, <1>19, <1>20, <2>1, <2>2 DEF Arrives
<1>23. Contract!Arrive(t0, n, g, d)
  BY <1>1, <1>9, <1>10, <1>21, <1>22, ArrivesIs
<1>24. d \in 0..Len(Labels(Held, Len(out)))
  BY <1>1, <1>4, <1>10, <1>11 DEF Tags
<1> QED
  BY <1>23, <1>24

LEMMA InitIsContractInit == Init => Contract!Init
<1> SUFFICES ASSUME Init PROVE Contract!Init
  OBVIOUS
<1>1. Inv
  BY InitGivesInv
<1>2. out = <<>> /\ Held = <<>> /\ produced = 0 /\ sink = <<>> /\ pending_breaks = <<>> /\ end = 0 /\ sent = 0
  BY DEF Init, Held
<1>3. View(Labels(out, 0), Labels(Held, Len(out)), LastLabel, Words, Gaps)
  BY <1>1, ViewIs
<1>4. Labels(out, 0) = <<>> /\ Labels(Held, Len(out)) = <<>>
  BY <1>2, <1>3, TagsEmpty DEF View
<1>5. Len(out) + Len(Held) = 0
  BY <1>2
<1>6. LastLabel = [gap |-> Gaps[0], ann |-> Words[0]]
  BY <1>3, <1>5 DEF View
<1>7. Gaps[0] = FALSE
  <2>1. Gaps[0] = Hole(0)
    BY DEF Gaps
  <2>2. Hole(0) = FALSE
    BY DEF Hole
  <2> QED
    BY <2>1, <2>2
<1>8. Words[0] = NoGeometry
  <2>1. \A k, w : WordAt(<<>>, k, w) = w
    BY WordIsBefore
  <2>2. Words[0] = Ann(0)
    BY DEF Words
  <2> QED
    BY <1>2, <2>1, <2>2 DEF Ann
<1>9. Contract!NoGeometry = NoGeometry
  BY DEF Contract!NoGeometry, NoGeometry
<1> QED
  BY <1>2, <1>4, <1>6, <1>7, <1>8, <1>9 DEF Contract!Init, LastLabel

LEMMA StepIsContractStep ==
  ASSUME Inv, [Next]_vars
  PROVE  Contract!Next \/ UNCHANGED Contract!vars
<1>1. CASE \E room \in 0..Downstream : WorkBegins(room)
  <2>1. PICK room \in 0..Downstream : WorkBegins(room)
    BY <1>1
  <2> QED
    BY <2>1, WorkBeginsStep, WorkingStutters DEF WorkBegins
<1>2. CASE \E room \in 0..Downstream : WorkRestarts(room)
  BY <1>2, RestartClears DEF Contract!Next
<1>3. CASE FetchBegins
  BY <1>3, FetchBeginsStep, WorkingStutters DEF FetchBegins
<1>4. CASE \E skew \in Skews, n \in PacketLens, g \in Geometries : IqPacket(end + skew, n, g)
  <2>1. PICK skew \in Skews, n \in PacketLens, g \in Geometries : IqPacket(end + skew, n, g)
    BY <1>4
  <2>2. end + skew \in Int /\ n \in Nat /\ g \in Geometry
    BY TrafficAssumption, GeometriesAssumption DEF Inv, TypeOK, Geometry
  <2>3. \E d \in 0..Len(Labels(Held, Len(out))) : Contract!Arrive(end + skew, n, g, d)
    BY <2>1, <2>2, PacketIsArrival
  <2> QED
    BY <2>3 DEF Contract!Next
<1>5. CASE \E n \in PacketLens \ {0} : LostPacket(n)
  <2>1. PICK n \in PacketLens \ {0} : LostPacket(n)
    BY <1>5
  <2>2. Contract!Lose(n) /\ n \in (PacketLens \cup {1}) \ {0}
    BY <2>1, LostPacketLoses
  <2> QED
    BY <2>2 DEF Contract!Next
<1>6. CASE FetchEnds
  BY <1>6, FetchEndsStep, WorkingStutters DEF FetchEnds
<1>7. CASE FetchFails
  <2>1. Contract!Lose(1) /\ 1 \in (PacketLens \cup {1}) \ {0}
    BY <1>7, FetchFailsLoses
  <2> QED
    BY <2>1 DEF Contract!Next
<1>8. CASE CopyOut
  BY <1>8, CopyOutStutters
<1>9. CASE ReportBoundary
  BY <1>9, ReportBoundaryStutters
<1>10. CASE Publish
  <2>1. \/ UNCHANGED Contract!vars
        \/ Len(copied) \in 1..Len(Labels(Held, Len(out))) /\ Contract!Produce(Len(copied))
    BY <1>10, PublishProduces
  <2> QED
    BY <2>1 DEF Contract!Next
<1>11. CASE UNCHANGED vars
  <2>1. UNCHANGED <<source, consumer, server, copied>>
    BY <1>11 DEF vars, working
  <2> QED
    BY <1>11, <2>1, StutterKeepsInv, WorkingStutters
<1> QED
  BY <1>1, <1>2, <1>3, <1>4, <1>5, <1>6, <1>7, <1>8, <1>9, <1>10, <1>11 DEF Next

\* The offset queue with its rebasing, merging and trimming, the drop detector and the
\* reconnect and restart paths of http_source.rs together implement the contract of
\* stream_break.rs: every step is a step of the labelled stream or leaves it alone.
THEOREM SourceImplementsContract == Spec => ImplementsContract
<1>1. Init => Contract!Init
  BY InitIsContractInit
<1>2. Inv /\ [Next]_vars => [Contract!Next]_(Contract!vars)
  BY StepIsContractStep
<1> QED
  BY <1>1, <1>2, InvIsInvariant, PTL DEF Spec, ImplementsContract, Contract!Spec
-----------------------------------------------------------------------------
(***************************************************************************)
(* The promises of stream_break.rs, for the source itself.                 *)
(***************************************************************************)
Proofs == INSTANCE BreakContractProofs WITH
  out   <- Labels(out, 0),
  queue <- Labels(Held, Len(out)),
  tail  <- [gap |-> GapAt(Len(out) + Len(Held)),
            ann |-> AnnouncedAt(Len(out) + Len(Held))]

\* What the consumer of HttpSource is promised, kept by its bookkeeping: a gap is
\* reported at the exact index of every discontinuity and nowhere else, and no sample
\* reaches the consumer under a geometry out of tolerance with its own.
THEOREM EveryBreakIsTold == Spec => [](GapsAreExact /\ GeometryIsTold)
<1>1. Proofs!Spec => []Proofs!GapsAreExact
  BY Proofs!GapsAreAlwaysExact, GeometriesAssumption, ToleranceAssumption, TrafficAssumption, PTL
<1>2. Proofs!Spec => []Proofs!GeometryIsTold
  BY Proofs!GeometryIsAlwaysTold, GeometriesAssumption, ToleranceAssumption, TrafficAssumption, PTL
<1>3. Contract!Init => Proofs!Init
  BY DEF Contract!Init, Proofs!Init, Contract!NoGeometry, Proofs!NoGeometry
<1>4. Contract!Next => Proofs!Next
  BY DEF Contract!Next, Proofs!Next, Contract!Arrive, Proofs!Arrive, Contract!Lose, Proofs!Lose,
   Contract!Clear, Proofs!Clear, Contract!Produce, Proofs!Produce, Contract!Discard, Proofs!Discard,
   Contract!Announced, Proofs!Announced, Contract!HasPredecessor, Proofs!HasPredecessor, Contract!Told, Proofs!Told,
   Contract!NoGeometry, Proofs!NoGeometry, Contract!PacketSamples, Proofs!PacketSamples,
   Contract!Declared, Proofs!Declared, Contract!Moved, Proofs!Moved, Contract!Distance, Proofs!Distance,
   Contract!rate_moved, Proofs!rate_moved
<1>5. UNCHANGED Contract!vars => UNCHANGED Proofs!vars
  BY DEF Contract!vars, Proofs!vars
<1>6. Proofs!GapsAreExact => GapsAreExact
  BY DEF Proofs!GapsAreExact, GapsAreExact, Contract!GapsAreExact, Contract!GapsIn, Proofs!GapsIn,
    Contract!Contiguous, Proofs!Contiguous
<1>7. Proofs!GeometryIsTold => GeometryIsTold
  BY DEF Proofs!GeometryIsTold, GeometryIsTold, Contract!GeometryIsTold, Contract!GeometryIn, Proofs!GeometryIn,
    Contract!Declared, Proofs!Declared, Contract!Moved, Proofs!Moved, Contract!Distance, Proofs!Distance,
   Contract!rate_moved, Proofs!rate_moved
<1>8. [Contract!Next]_(Contract!vars) => [Proofs!Next]_(Proofs!vars)
  BY <1>4, <1>5
<1>9. Spec => Contract!Spec
  BY SourceImplementsContract DEF ImplementsContract
<1>10. Contract!Spec => Proofs!Spec
  BY <1>3, <1>8, PTL DEF Contract!Spec, Proofs!Spec
<1>11. Proofs!Spec => [](GapsAreExact /\ GeometryIsTold)
  BY <1>1, <1>2, <1>6, <1>7, PTL
<1> QED
  BY <1>9, <1>10, <1>11
=============================================================================
