------------------------ MODULE BreakContractProofs ------------------------
(***************************************************************************)
(* The two promises of BreakContract for every set of geometries, packet   *)
(* lengths and tolerances.                                                 *)
(***************************************************************************)
EXTENDS BreakContract, SequenceTheorems, TLAPS

Good(S) == OrderedIn(S) /\ GapsIn(S) /\ GeometryIn(S)

\* Element i of a concatenation.
LEMMA ConcatAt ==
  ASSUME NEW T, NEW A \in Seq(T), NEW B \in Seq(T)
  PROVE  /\ A \o B \in Seq(T)
         /\ Len(A \o B) = Len(A) + Len(B)
         /\ \A i \in 1..Len(A) : (A \o B)[i] = A[i]
         /\ \A i \in 1..Len(B) : (A \o B)[Len(A) + i] = B[i]
         /\ \A i \in (Len(A) + 1)..(Len(A) + Len(B)) :
               (A \o B)[i] = B[i - Len(A)] /\ i - Len(A) \in 1..Len(B)
OBVIOUS

\* A sequence given by a function on 1..n.
LEMMA FunctionSeq ==
  ASSUME NEW T, NEW n \in Nat, NEW f \in [1..n -> T]
  PROVE  f \in Seq(T) /\ Len(f) = n
OBVIOUS

\* A prefix of a good stream is good.
LEMMA PrefixIsGood ==
  ASSUME NEW A \in Seq(Labelled), NEW B \in Seq(Labelled), Good(A \o B)
  PROVE  Good(A)
<1>1. \A i \in 1..Len(A) : i \in 1..Len(A \o B) /\ (A \o B)[i] = A[i]
  BY ConcatAt
<1>2. OrderedIn(A)
  BY <1>1 DEF Good, OrderedIn
<1>3. GapsIn(A)
  <2> SUFFICES ASSUME NEW i \in 1..Len(A)
               PROVE  A[i].gap <=> i > 1 /\ ~Contiguous(A[i-1].s, A[i].s)
    BY DEF GapsIn
  <2>1. i > 1 => i - 1 \in 1..Len(A)
    OBVIOUS
  <2> QED BY <1>1, <2>1 DEF Good, GapsIn
<1>4. GeometryIn(A)
  BY <1>1 DEF Good, GeometryIn
<1> QED BY <1>2, <1>3, <1>4 DEF Good

\* Discarding the d oldest queued samples keeps a stream good: the first one
\* that stays is numbered beyond the successor of the last one produced.
LEMMA DiscardIsGood ==
  ASSUME out \in Seq(Labelled), NEW q \in Seq(Labelled), Good(out \o q),
         NEW d \in Nat, d < Len(q) \/ d = 0
  PROVE  /\ Discard(q, d) \in Seq(Labelled)
         /\ Len(Discard(q, d)) = Len(q) - d
         /\ Good(out \o Discard(q, d))
         /\ q # <<>> => /\ Discard(q, d) # <<>>
                        /\ Discard(q, d)[Len(q) - d].s = q[Len(q)].s
<1> DEFINE r == Discard(q, d)
           m == Len(out)
           S == out \o q
           R == out \o r
<1>1. Len(q) - d \in Nat
  OBVIOUS
<1>2. \A i \in 1..(Len(q) - d) :
        /\ i + d \in 1..Len(q) /\ q[i + d] \in Labelled
        /\ d + 1 \in 1..Len(q) /\ q[d + 1] \in Labelled
  OBVIOUS
<1>3. \A i \in 1..(Len(q) - d) :
        r[i] = IF i = 1 /\ d > 0 THEN [q[d + 1] EXCEPT !.gap = out # <<>>] ELSE q[i + d]
  BY DEF Discard
<1>4. \A i \in 1..(Len(q) - d) :
        /\ r[i] \in Labelled
        /\ r[i].s = q[i + d].s /\ r[i].ann = q[i + d].ann
        /\ r[i].gap = IF i = 1 /\ d > 0 THEN out # <<>> ELSE q[i + d].gap
  <2> SUFFICES ASSUME NEW i \in 1..(Len(q) - d)
               PROVE /\ r[i] \in Labelled
                     /\ r[i].s = q[i + d].s /\ r[i].ann = q[i + d].ann
                     /\ r[i].gap = IF i = 1 /\ d > 0 THEN out # <<>> ELSE q[i + d].gap
    OBVIOUS
  <2>1. CASE i = 1 /\ d > 0
    <3>1. r[i] = [q[d + 1] EXCEPT !.gap = out # <<>>] /\ q[d + 1] \in Labelled
      BY <1>2, <1>3, <2>1
    <3>2. i + d = d + 1
      BY <2>1
    <3> HIDE DEF r
    <3> QED BY <2>1, <3>1, <3>2 DEF Labelled
  <2>2. CASE ~(i = 1 /\ d > 0)
    <3>1. r[i] = q[i + d] /\ q[i + d] \in Labelled
      BY <1>2, <1>3, <2>2
    <3> QED BY <2>2, <3>1
  <2> QED BY <2>1, <2>2
<1>5. r \in Seq(Labelled) /\ Len(r) = Len(q) - d
  <2>1. r \in [1..(Len(q) - d) -> Labelled]
    BY <1>4 DEF Discard
  <2> HIDE DEF r
  <2> QED BY <1>1, <2>1, FunctionSeq
<1> HIDE DEF r
<1>6. /\ R \in Seq(Labelled) /\ Len(R) = m + Len(q) - d
      /\ S \in Seq(Labelled) /\ Len(S) = m + Len(q)
      /\ m \in Nat /\ Len(q) \in Nat
      /\ \A i \in 1..m : R[i] = out[i] /\ S[i] = out[i]
      /\ \A i \in (m + 1)..(m + Len(q) - d) :
           R[i] = r[i - m] /\ i - m \in 1..(Len(q) - d)
           /\ S[i + d] = q[i + d - m]
  <2>1. /\ S \in Seq(Labelled) /\ Len(S) = m + Len(q)
        /\ \A i \in 1..m : S[i] = out[i]
        /\ \A i \in (m + 1)..(m + Len(q)) : S[i] = q[i - m]
    BY ConcatAt
  <2>2. /\ R \in Seq(Labelled) /\ Len(R) = m + Len(r)
        /\ \A i \in 1..m : R[i] = out[i]
        /\ \A i \in (m + 1)..(m + Len(r)) : R[i] = r[i - m]
    BY <1>5, ConcatAt, ZenonT(30)
  <2>3. m \in Nat /\ Len(q) \in Nat
    OBVIOUS
  <2> HIDE DEF R, S, m
  <2>4. \A i \in (m + 1)..(m + Len(q) - d) :
           /\ i - m \in 1..(Len(q) - d)
           /\ i \in (m + 1)..(m + Len(r))
           /\ i + d \in (m + 1)..(m + Len(q))
    BY <1>1, <1>5, <2>3
  <2> QED BY <1>1, <1>5, <2>1, <2>2, <2>3, <2>4
\* Sample i of the new stream is sample At(i) of the old one.
<1> DEFINE At(i) == IF i <= m THEN i ELSE i + d
           GapAs(i) == /\ i = m + 1 /\ d > 0 => (R[i].gap <=> m > 0)
                       /\ ~(i = m + 1 /\ d > 0) => R[i].gap = S[At(i)].gap
<1>7. \A i \in 1..Len(R) :
        /\ At(i) \in 1..Len(S)
        /\ R[i].s = S[At(i)].s /\ R[i].ann = S[At(i)].ann
        /\ GapAs(i)
  <2> SUFFICES ASSUME NEW i \in 1..Len(R)
               PROVE /\ At(i) \in 1..Len(S)
                     /\ R[i].s = S[At(i)].s /\ R[i].ann = S[At(i)].ann
                     /\ GapAs(i)
    OBVIOUS
  <2>1. CASE i <= m
    BY <1>6, <2>1
  <2>2. CASE i > m
    <3>1. i \in (m + 1)..(m + Len(q) - d) /\ i - m \in 1..(Len(q) - d)
      BY <1>6, <2>2
    <3>2. R[i] = r[i - m] /\ S[At(i)] = q[(i - m) + d] /\ At(i) \in 1..Len(S)
      <4>1. i + d - m = (i - m) + d
        BY <3>1, <1>6
      <4> QED BY <1>6, <2>2, <3>1, <4>1
    <3>3. out # <<>> <=> m > 0
      BY EmptySeq
    <3>4. (i - m = 1) <=> (i = m + 1)
      BY <1>6, <3>1
    <3> DEFINE k == i - m
    <3>5. k \in 1..(Len(q) - d) /\ R[i] = r[k] /\ S[At(i)] = q[k + d]
      BY <3>1, <3>2
    <3> HIDE DEF k
    <3>6. /\ R[i].s = S[At(i)].s /\ R[i].ann = S[At(i)].ann
          /\ R[i].gap = IF k = 1 /\ d > 0 THEN out # <<>> ELSE S[At(i)].gap
      BY <1>4, <3>5
    <3>7. (k = 1) <=> (i = m + 1)
      BY <3>4 DEF k
    <3>8. CASE i = m + 1 /\ d > 0
      BY <3>2, <3>3, <3>6, <3>7, <3>8
    <3>9. CASE ~(i = m + 1 /\ d > 0)
      BY <3>2, <3>6, <3>7, <3>9
    <3> QED BY <3>8, <3>9
  <2> QED BY <1>6, <2>1, <2>2
<1> HIDE DEF R, S
<1>8. OrderedIn(S) /\ GapsIn(S) /\ GeometryIn(S)
  BY DEF Good, S
<1>9. OrderedIn(R)
  <2> SUFFICES ASSUME NEW i \in 1..Len(R), NEW j \in 1..Len(R), i < j
               PROVE  R[i].s.nr < R[j].s.nr
    BY DEF OrderedIn
  <2>1. At(i) < At(j)
    BY <1>6
  <2>2. At(i) \in 1..Len(S) /\ At(j) \in 1..Len(S)
        /\ R[i].s = S[At(i)].s /\ R[j].s = S[At(j)].s
    BY <1>7
  <2> HIDE DEF At
  <2> QED BY <1>8, <2>1, <2>2 DEF OrderedIn
<1>10. GapsIn(R)
  <2> SUFFICES ASSUME NEW i \in 1..Len(R)
               PROVE  R[i].gap <=> i > 1 /\ ~Contiguous(R[i-1].s, R[i].s)
    BY DEF GapsIn
  <2>1. CASE i = m + 1 /\ d > 0
    <3>1. CASE m = 0
      BY <1>6, <1>7, <2>1, <3>1
    <3>2. CASE m > 0
      <4>1. R[i].gap
        BY <1>7, <2>1, <3>2
      <4>2. /\ i - 1 \in 1..Len(R) /\ At(i - 1) = m /\ At(i) = m + 1 + d
            /\ m + 1 \in 1..Len(S) /\ m \in 1..Len(S) /\ m + 1 + d \in 1..Len(S)
        BY <1>6, <2>1, <3>2
      <4>3. R[i-1].s = S[m].s /\ R[i].s = S[m + 1 + d].s
        BY <1>7, <4>2
      <4>4. S[m].s.nr < S[m+1].s.nr /\ S[m+1].s.nr < S[m + 1 + d].s.nr
        BY <1>6, <1>8, <2>1, <4>2 DEF OrderedIn
      <4>5. S[m].s.nr \in Nat /\ S[m+1].s.nr \in Nat /\ S[m + 1 + d].s.nr \in Nat
        <5>1. \A k \in 1..Len(S) : S[k] \in Labelled
          BY <1>6
        <5> QED BY <4>2, <5>1 DEF Labelled, Sample
      <4> QED BY <2>1, <3>2, <1>6, <4>1, <4>3, <4>4, <4>5, SMTT(30) DEF Contiguous
    <3> QED BY <1>6, <3>1, <3>2
  <2>2. CASE ~(i = m + 1 /\ d > 0)
    <3>1. R[i].gap = S[At(i)].gap /\ R[i].s = S[At(i)].s /\ At(i) \in 1..Len(S)
      BY <1>7, <2>2
    <3>2. At(i) > 1 <=> i > 1
      BY <1>6, <2>2
    <3>3. i > 1 => R[i-1].s = S[At(i) - 1].s
      <4> SUFFICES ASSUME i > 1 PROVE R[i-1].s = S[At(i) - 1].s
        OBVIOUS
      <4>1. i - 1 \in 1..Len(R) /\ At(i - 1) = At(i) - 1
        BY <1>6, <2>2
      <4> QED BY <1>7, <4>1
    <3> HIDE DEF At
    <3> QED BY <1>8, <3>1, <3>2, <3>3 DEF GapsIn
  <2> QED BY <2>1, <2>2
<1>11. GeometryIn(R)
  <2> HIDE DEF At
  <2> QED BY <1>7, <1>8 DEF GeometryIn
<1>12. q # <<>> => r # <<>> /\ r[Len(q) - d].s = q[Len(q)].s
  <2> SUFFICES ASSUME q # <<>> PROVE r # <<>> /\ r[Len(q) - d].s = q[Len(q)].s
    OBVIOUS
  <2>1. Len(q) \in Nat /\ Len(q) # 0
    OBVIOUS
  <2>2. Len(q) - d \in 1..(Len(q) - d)
    BY <2>1
  <2>3. (Len(q) - d) + d = Len(q)
    BY <2>1
  <2> QED BY <1>4, <1>5, <2>2, <2>3, EmptySeq
<1> QED BY <1>5, <1>9, <1>10, <1>11, <1>12 DEF Good, R, r

\* What the tail label says about the last sample of a stream S, for a server
\* at number snt and clock e.
TailFits(S, t, snt, e) ==
  /\ S = <<>> => ~t.gap
  /\ S # <<>> =>
       /\ S[Len(S)].s.nr <= snt
       /\ t.gap <=> S[Len(S)].s.nr < snt
       /\ ~t.gap => S[Len(S)].s.t + 1 = e

LEMMA StreamType ==
  ASSUME TypeOK
  PROVE  /\ Stream \in Seq(Labelled)
         /\ HasPredecessor <=> Stream # <<>>
         /\ Told \in Geometry
         /\ TailIsExact <=> TailFits(Stream, tail, sent, end)
<1>1. /\ Stream \in Seq(Labelled) /\ Len(Stream) = Len(out) + Len(queue)
      /\ Len(out) \in Nat /\ Len(queue) \in Nat
  BY ConcatAt DEF Stream, TypeOK
<1>2. HasPredecessor <=> Stream # <<>>
  BY <1>1, EmptySeq DEF HasPredecessor, TypeOK
<1>3. Told \in Geometry
  <2>1. CASE out = <<>>
    BY <2>1 DEF Told, NoGeometry, Geometry
  <2>2. CASE out # <<>>
    <3>1. out[Len(out)] \in Labelled
      BY <2>2 DEF TypeOK
    <3> QED BY <2>2, <3>1 DEF Told, Labelled
  <2> QED BY <2>1, <2>2
<1>4. TailIsExact <=> TailFits(Stream, tail, sent, end)
  BY DEF TailIsExact, TailFits
<1> QED BY <1>1, <1>2, <1>3, <1>4

\* What a packet announces covers the geometry it declares.
LEMMA AnnouncedCovers ==
  ASSUME NEW ann \in Geometry, NEW g \in Geometry
  PROVE  /\ Announced(ann, g) \in Geometry
         /\ Declared(g) =>
              Declared(Announced(ann, g)) /\ ~Moved(Announced(ann, g), g)
<1>1. ~Moved(g, g)
  <2>1. g.center \in Int /\ g.rate \in Nat
    BY DEF Geometry
  <2>2. Distance(g.center, g.center) = 0 /\ Distance(g.rate, g.rate) = 0
    BY <2>1 DEF Distance
  <2> QED BY <2>1, <2>2, ToleranceAssumption DEF Moved, rate_moved
<1> QED BY <1>1 DEF Announced

LEMMA LabelledAt ==
  ASSUME NEW S \in Seq(Labelled), NEW i \in 1..Len(S)
  PROVE  S[i] \in Labelled /\ S[i].s.nr \in Nat /\ S[i].s.t \in Int
<1>1. S[i] \in Labelled
  OBVIOUS
<1> QED BY <1>1 DEF Labelled, Sample

\* The labelled samples of one packet.
PacketLabels(N, n, t0, first, g, gap, ann) ==
  \A j \in 1..n :
     /\ N[j].s.nr = first + j /\ N[j].s.t = t0 + j - 1
     /\ N[j].s.geo = g /\ N[j].ann = ann
     /\ N[j].gap <=> (gap /\ j = 1)

\* A packet queued behind a good stream leaves a good stream with an exact
\* tail: its first sample is labelled with a gap exactly when something was
\* lost or the timestamps jumped.
GrowsBy(S, t, snt, e, t0, n, g, ann, first, gap, N, u) ==
  /\ S \in Seq(Labelled) /\ Good(S)
  /\ t \in Label /\ snt \in Nat /\ e \in Int /\ TailFits(S, t, snt, e)
  /\ t0 \in Int /\ n \in Nat /\ g \in Geometry /\ ann \in Geometry
  /\ Declared(g) => Declared(ann) /\ ~Moved(ann, g)
  /\ first \in Nat /\ first = IF t0 = e THEN snt ELSE snt + 1
  /\ gap \in BOOLEAN /\ (gap <=> t.gap \/ (S # <<>> /\ t0 # e))
  /\ N \in Seq(Labelled) /\ Len(N) = n /\ PacketLabels(N, n, t0, first, g, gap, ann)
  /\ u \in Label /\ (u.gap <=> gap /\ n = 0)

LEMMA GrowIsGood ==
  ASSUME NEW S, NEW t, NEW snt, NEW e, NEW t0, NEW n, NEW g, NEW ann, NEW first,
         NEW gap, NEW N, NEW u,
         GrowsBy(S, t, snt, e, t0, n, g, ann, first, gap, N, u)
  PROVE  Good(S \o N) /\ TailFits(S \o N, u, first + n, t0 + n)
<1> USE DEF GrowsBy
<1> DEFINE T == S \o N
           m == Len(S)
           last == S[m].s
<1>1. /\ m \in Nat /\ T \in Seq(Labelled) /\ Len(T) = m + n /\ m = Len(S)
      /\ S # <<>> <=> m > 0
      /\ \A i \in 1..m : T[i] = S[i]
      /\ \A i \in (m + 1)..(m + n) : T[i] = N[i - m] /\ i - m \in 1..n
  <2>1. /\ T \in Seq(Labelled) /\ Len(T) = m + Len(N)
        /\ \A i \in 1..m : T[i] = S[i]
        /\ \A i \in (m + 1)..(m + Len(N)) : T[i] = N[i - m] /\ i - m \in 1..Len(N)
    BY ConcatAt
  <2>2. m \in Nat /\ (S # <<>> <=> m > 0)
    BY EmptySeq
  <2> HIDE DEF T, m
  <2>3. Len(T) = m + n
    BY <2>1
  <2>4. \A i \in (m + 1)..(m + n) : T[i] = N[i - m] /\ i - m \in 1..n
    BY <2>1
  <2> QED BY <2>1, <2>2, <2>3, <2>4 DEF m
<1>2. \A i \in 1..m : /\ S[i].s.nr \in Nat /\ S[i].s.t \in Int
  BY LabelledAt
<1>3. \A i \in (m + 1)..(m + n) :
        /\ T[i].s.nr = first + (i - m) /\ T[i].s.t = t0 + (i - m) - 1
        /\ T[i].s.geo = g /\ T[i].ann = ann
        /\ T[i].gap <=> (gap /\ i = m + 1)
  <2> SUFFICES ASSUME NEW i \in (m + 1)..(m + n)
               PROVE  /\ T[i].s.nr = first + (i - m) /\ T[i].s.t = t0 + (i - m) - 1
                      /\ T[i].s.geo = g /\ T[i].ann = ann
                      /\ T[i].gap <=> (gap /\ i = m + 1)
    OBVIOUS
  <2> DEFINE j == i - m
  <2>1. T[i] = N[j] /\ j \in 1..n /\ (j = 1 <=> i = m + 1)
    BY <1>1
  <2> HIDE DEF j, T, m
  <2>2. /\ T[i].s.nr = first + j /\ T[i].s.t = t0 + j - 1
        /\ T[i].s.geo = g /\ T[i].ann = ann
        /\ T[i].gap <=> (gap /\ j = 1)
    BY <2>1 DEF PacketLabels
  <2> QED BY <2>1, <2>2 DEF j
<1> HIDE DEF T, m
<1>4. \A i \in 1..m : S[i].s.nr <= snt
  <2> SUFFICES ASSUME NEW i \in 1..m PROVE S[i].s.nr <= snt
    OBVIOUS
  <2>1. m \in 1..m /\ S # <<>> /\ i <= m
    BY <1>1
  <2>2. S[m].s.nr <= snt
    BY <1>1, <2>1 DEF TailFits
  <2>3. i < m => S[i].s.nr < S[m].s.nr
    BY <1>1, <2>1 DEF Good, OrderedIn
  <2>4. S[i].s.nr \in Nat /\ S[m].s.nr \in Nat
    BY <1>2, <2>1
  <2>5. CASE i < m
    BY <2>2, <2>3, <2>4, <2>5, SMTT(30)
  <2>6. CASE i = m
    BY <2>2, <2>6
  <2> QED BY <1>1, <2>1, <2>5, <2>6
<1>5. snt <= first
  OBVIOUS
\* The boundary between the old stream and the packet.
<1>6. m > 0 => (gap <=> ~(t0 = last.t + 1 /\ first = last.nr))
  <2> SUFFICES ASSUME m > 0 PROVE gap <=> ~(t0 = last.t + 1 /\ first = last.nr)
    OBVIOUS
  <2>1. /\ S # <<>> /\ last.nr <= snt /\ (t.gap <=> last.nr < snt)
        /\ ~t.gap => last.t + 1 = e
    BY <1>1 DEF TailFits
  <2>2. last.nr \in Nat /\ last.t \in Int
    BY <1>1, <1>2
  <2> HIDE DEF last
  <2>3. CASE t.gap
    BY <2>1, <2>2, <2>3, <1>5
  <2>4. CASE ~t.gap
    BY <2>1, <2>2, <2>4
  <2> QED BY <2>3, <2>4
<1>7. m = 0 => ~gap
  BY <1>1 DEF TailFits
<1>8. OrderedIn(T)
  <2> SUFFICES ASSUME NEW i \in 1..Len(T), NEW j \in 1..Len(T), i < j
               PROVE  T[i].s.nr < T[j].s.nr
    BY DEF OrderedIn
  <2>1. CASE j <= m
    <3>1. i \in 1..Len(S) /\ j \in 1..Len(S) /\ T[i] = S[i] /\ T[j] = S[j]
      BY <1>1, <2>1
    <3> QED BY <3>1 DEF Good, OrderedIn
  <2>2. CASE i <= m /\ m < j
    <3>1. i \in 1..m /\ T[i] = S[i] /\ j \in (m + 1)..(m + n) /\ j - m > 0
      BY <1>1, <2>2
    <3>2. T[j].s.nr = first + (j - m) /\ T[i].s.nr <= snt /\ T[i].s.nr \in Nat
      BY <1>2, <1>3, <1>4, <3>1
    <3> QED BY <1>1, <1>5, <3>1, <3>2, SMTT(30)
  <2>3. CASE m < i
    <3>1. i \in (m + 1)..(m + n) /\ j \in (m + 1)..(m + n) /\ i - m < j - m
      BY <1>1, <2>3
    <3>2. T[i].s.nr = first + (i - m) /\ T[j].s.nr = first + (j - m)
      BY <1>3, <3>1
    <3> QED BY <1>1, <3>1, <3>2, SMTT(30)
  <2> QED BY <1>1, <2>1, <2>2, <2>3
<1>9. GapsIn(T)
  <2> SUFFICES ASSUME NEW i \in 1..Len(T)
               PROVE  T[i].gap <=> i > 1 /\ ~Contiguous(T[i-1].s, T[i].s)
    BY DEF GapsIn
  <2>1. CASE i <= m
    <3>1. T[i] = S[i] /\ i \in 1..Len(S) /\ (i > 1 => T[i-1] = S[i-1])
      BY <1>1, <2>1
    <3>2. S[i].gap <=> i > 1 /\ ~Contiguous(S[i-1].s, S[i].s)
      BY <3>1 DEF Good, GapsIn
    <3> QED BY <3>1, <3>2
  <2>2. CASE i = m + 1 /\ m > 0
    <3>1. /\ T[i-1] = S[m] /\ i \in (m + 1)..(m + n) /\ i > 1
          /\ last.nr \in Nat /\ last.t \in Int
      BY <1>1, <1>2, <2>2, SMTT(30)
    <3>2. T[i].s.nr = first + 1 /\ T[i].s.t = t0 /\ (T[i].gap <=> gap)
      <4>1. i - m = 1
        BY <1>1, <2>2
      <4>2. T[i].s.nr = first + (i - m) /\ T[i].s.t = t0 + (i - m) - 1
        BY <1>3, <3>1
      <4>3. T[i].gap <=> gap
        BY <1>3, <2>2, <3>1
      <4> QED BY <4>1, <4>2, <4>3
    <3>3. Contiguous(T[i-1].s, T[i].s) <=> t0 = last.t + 1 /\ first = last.nr
      <4>1. T[i-1].s = last
        BY <3>1
      <4>2. Contiguous(T[i-1].s, T[i].s) <=>
              T[i].s.t = last.t + 1 /\ T[i].s.nr = last.nr + 1
        BY <4>1 DEF Contiguous
      <4> HIDE DEF last
      <4>3. T[i].s.nr = last.nr + 1 <=> first = last.nr
        <5>1. first \in Nat /\ last.nr \in Nat /\ T[i].s.nr = first + 1
          BY <3>1, <3>2
        <5> HIDE DEF GrowsBy
        <5> QED BY <5>1
      <4> QED BY <3>2, <4>2, <4>3
    <3> HIDE DEF last
    <3> QED BY <1>6, <2>2, <3>1, <3>2, <3>3
  <2>3. CASE i = m + 1 /\ m = 0
    BY <1>1, <1>3, <1>7, <2>3
  <2>4. CASE i > m + 1
    <3>1. /\ i - 1 \in (m + 1)..(m + n) /\ i \in (m + 1)..(m + n) /\ i > 1
          /\ i # m + 1
      BY <1>1, <2>4, SMTT(30)
    <3>2. /\ T[i].s.nr = first + (i - m) /\ T[i].s.t = t0 + (i - m) - 1
          /\ T[i-1].s.nr = first + (i - 1 - m) /\ T[i-1].s.t = t0 + (i - 1 - m) - 1
          /\ ~T[i].gap
      BY <1>3, <3>1
    <3>3. Contiguous(T[i-1].s, T[i].s)
      BY <1>1, <3>1, <3>2 DEF Contiguous
    <3> QED BY <3>2, <3>3
  <2> QED BY <1>1, <2>1, <2>2, <2>3, <2>4
<1>10. GeometryIn(T)
  <2> SUFFICES ASSUME NEW i \in 1..Len(T), Declared(T[i].s.geo)
               PROVE  Declared(T[i].ann) /\ ~Moved(T[i].ann, T[i].s.geo)
    BY DEF GeometryIn
  <2>1. CASE i <= m
    <3>1. T[i] = S[i] /\ i \in 1..Len(S)
      BY <1>1, <2>1
    <3>2. Declared(S[i].s.geo) => Declared(S[i].ann) /\ ~Moved(S[i].ann, S[i].s.geo)
      BY <3>1 DEF Good, GeometryIn
    <3> QED BY <3>1, <3>2
  <2>2. CASE i > m
    <3>1. T[i].s.geo = g /\ T[i].ann = ann
      BY <1>1, <1>3, <2>2
    <3> QED BY <3>1
  <2> QED BY <1>1, <2>1, <2>2
<1>11. TailFits(T, u, first + n, t0 + n)
  <2>1. CASE n = 0 /\ m = 0
    <3>1. T = <<>> /\ ~u.gap
      BY <1>1, <1>7, <2>1, EmptySeq
    <3> QED BY <3>1 DEF TailFits
  <2>2. CASE n = 0 /\ m > 0
    <3>1. /\ Len(T) = m /\ T[m] = S[m] /\ (u.gap <=> gap)
          /\ last.nr \in Nat /\ last.t \in Int /\ last.nr <= snt
      BY <1>1, <1>2, <1>4, <2>2
    <3>2. S # <<>> /\ (t.gap <=> last.nr < snt) /\ (~t.gap => last.t + 1 = e)
      BY <1>1, <2>2 DEF TailFits
    <3> HIDE DEF last
    <3>3. /\ last.nr <= first /\ (u.gap <=> last.nr < first)
          /\ ~u.gap => last.t + 1 = t0
      BY <3>1, <3>2, <2>2
    <3> QED BY <3>1, <3>3, <2>2 DEF TailFits, last
  <2>3. CASE n > 0
    <3>1. Len(T) = m + n /\ m + n \in (m + 1)..(m + n) /\ T # <<>> /\ ~u.gap
      BY <1>1, <2>3, EmptySeq
    <3>2. T[Len(T)].s.nr = first + n /\ T[Len(T)].s.t = t0 + n - 1
      BY <1>1, <1>3, <3>1
    <3> QED BY <3>1, <3>2 DEF TailFits
  <2> QED BY <1>1, <2>1, <2>2, <2>3
<1> QED BY <1>8, <1>9, <1>10, <1>11 DEF Good, T

\* What discarding does to the tail: nothing, the last sample stays.
LEMMA DiscardKeepsTail ==
  ASSUME out \in Seq(Labelled), NEW q \in Seq(Labelled), Good(out \o q),
         NEW d \in Nat, d < Len(q) \/ d = 0,
         NEW t, NEW snt, NEW e, TailFits(out \o q, t, snt, e)
  PROVE  TailFits(out \o Discard(q, d), t, snt, e)
<1> DEFINE r == Discard(q, d)
<1>1. /\ r \in Seq(Labelled) /\ Len(r) = Len(q) - d
      /\ q # <<>> => r # <<>> /\ r[Len(q) - d].s = q[Len(q)].s
  BY DiscardIsGood
<1> HIDE DEF r
<1>2. CASE q = <<>>
  <2>1. d = 0 /\ Len(q) = 0
    BY <1>2, EmptySeq
  <2>2. r = <<>>
    BY <1>1, <2>1, EmptySeq
  <2> QED BY <1>2, <2>2 DEF r
<1>3. CASE q # <<>>
  <2>1. Len(q) \in Nat /\ Len(q) # 0 /\ Len(out) \in Nat
    BY <1>3, EmptySeq
  <2>2. /\ Len(out \o q) = Len(out) + Len(q) /\ (out \o q)[Len(out) + Len(q)] = q[Len(q)]
        /\ out \o q # <<>>
    <3>1. Len(q) \in 1..Len(q)
      BY <2>1
    <3>2. out \o q \in Seq(Labelled) /\ Len(out \o q) = Len(out) + Len(q)
          /\ (out \o q)[Len(out) + Len(q)] = q[Len(q)]
      BY <3>1, ConcatAt
    <3> QED BY <2>1, <3>2, EmptySeq
  <2>3. /\ Len(out \o r) = Len(out) + Len(r) /\ (out \o r)[Len(out) + Len(r)] = r[Len(r)]
        /\ out \o r # <<>>
    <3>1. Len(r) \in 1..Len(r)
      BY <1>1, <2>1
    <3>2. out \o r \in Seq(Labelled) /\ Len(out \o r) = Len(out) + Len(r)
          /\ (out \o r)[Len(out) + Len(r)] = r[Len(r)]
      BY <1>1, <3>1, ConcatAt
    <3> QED BY <2>1, <3>1, <3>2, EmptySeq
  <2>4. (out \o r)[Len(out \o r)].s = (out \o q)[Len(out \o q)].s
    BY <1>1, <1>3, <2>2, <2>3
  <2> QED BY <2>2, <2>3, <2>4 DEF TailFits, r
<1> QED BY <1>2, <1>3

InvOf(o, q, t, e, snt) ==
  Good(o \o q) /\ TailFits(o \o q, t, snt, e)

LEMMA InvMeans ==
  ASSUME TypeOK
  PROVE  Inv <=> InvOf(out, queue, tail, end, sent)
<1>1. TailIsExact <=> TailFits(Stream, tail, sent, end)
  BY StreamType
<1> QED BY <1>1 DEF Inv, InvOf, Good, Stream

LEMMA InvMeansNext ==
  ASSUME TypeOK'
  PROVE  Inv' <=> InvOf(out', queue', tail', end', sent')
<1>1. TailIsExact' <=> TailFits(Stream, tail, sent, end)'
  BY DEF TailIsExact, TailFits
<1> QED BY <1>1 DEF Inv, InvOf, Good, Stream, TailFits, OrderedIn, GapsIn, GeometryIn

LEMMA ArriveStep ==
  ASSUME Inv, NEW t0 \in Int, NEW n \in Nat, NEW g \in Geometry, NEW d \in Nat,
         Arrive(t0, n, g, d)
  PROVE  Inv'
<1> DEFINE first == IF t0 = end THEN sent ELSE sent + 1
           gap   == tail.gap \/ (HasPredecessor /\ t0 # end)
           ann   == Announced(tail.ann, g)
           smp   == PacketSamples(t0, first, n, g)
           new   == [j \in 1..n |-> [s |-> smp[j], gap |-> gap /\ j = 1, ann |-> ann]]
           grown == queue \o new
           u     == [gap |-> gap /\ n = 0, ann |-> ann]
<1>1. TypeOK /\ InvOf(out, queue, tail, end, sent)
  BY InvMeans DEF Inv
<1>2. /\ out \in Seq(Labelled) /\ queue \in Seq(Labelled) /\ tail \in Label
      /\ end \in Int /\ sent \in Nat
  BY <1>1 DEF TypeOK
<1>3. /\ queue' = Discard(grown, d) /\ out' = out /\ tail' = u
      /\ end' = t0 + n /\ sent' = first + n
      /\ d < Len(grown) \/ d = 0
  BY DEF Arrive
<1>4. first \in Nat
  BY <1>2
<1>5. gap \in BOOLEAN /\ tail.ann \in Geometry
  BY <1>2 DEF Label
<1>6. ann \in Geometry /\ (Declared(g) => Declared(ann) /\ ~Moved(ann, g))
  BY <1>5, AnnouncedCovers
<1>7. gap <=> tail.gap \/ (Stream # <<>> /\ t0 # end)
  BY <1>1, StreamType
<1>8. first = IF t0 = end THEN sent ELSE sent + 1
  OBVIOUS
<1> HIDE DEF gap, ann, first
<1>9. \A j \in 1..n :
        /\ smp[j] = [t |-> t0 + j - 1, nr |-> first + j, geo |-> g]
        /\ smp[j] \in Sample
  BY <1>4 DEF PacketSamples, Sample
<1>10. new \in Seq(Labelled) /\ Len(new) = n
  <2>1. new \in [1..n -> Labelled]
    <3> SUFFICES ASSUME NEW j \in 1..n
                 PROVE [s |-> smp[j], gap |-> gap /\ j = 1, ann |-> ann] \in Labelled
      OBVIOUS
    <3>1. smp[j] \in Sample
      BY <1>9
    <3> HIDE DEF smp
    <3>2. (gap /\ j = 1) \in BOOLEAN
      OBVIOUS
    <3> QED BY <1>6, <3>1, <3>2 DEF Labelled
  <2> HIDE DEF new
  <2> QED BY <2>1, FunctionSeq
<1>11. PacketLabels(new, n, t0, first, g, gap, ann)
  <2> SUFFICES ASSUME NEW j \in 1..n
               PROVE /\ new[j].s.nr = first + j /\ new[j].s.t = t0 + j - 1
                     /\ new[j].s.geo = g /\ new[j].ann = ann
                     /\ new[j].gap <=> (gap /\ j = 1)
    BY DEF PacketLabels
  <2>1. smp[j] = [t |-> t0 + j - 1, nr |-> first + j, geo |-> g]
    BY <1>9
  <2> HIDE DEF smp
  <2>2. new[j] = [s |-> smp[j], gap |-> gap /\ j = 1, ann |-> ann]
    OBVIOUS
  <2> HIDE DEF new
  <2>3. new[j].s = smp[j] /\ new[j].ann = ann
    BY <2>2
  <2>4. new[j].gap = (gap /\ j = 1)
    BY <2>2
  <2>5. new[j].gap <=> (gap /\ j = 1)
    BY <2>4
  <2> QED BY <2>1, <2>3, <2>5
<1>12. u \in Label /\ (u.gap <=> gap /\ n = 0)
  <2>1. (gap /\ n = 0) \in BOOLEAN
    OBVIOUS
  <2> QED BY <1>6, <2>1 DEF Label
<1> HIDE DEF new, u, smp
<1>13. Stream \in Seq(Labelled) /\ Good(Stream) /\ TailFits(Stream, tail, sent, end)
  BY <1>1, StreamType DEF InvOf, Stream
<1>14. Good(Stream \o new) /\ TailFits(Stream \o new, u, first + n, t0 + n)
  <2>1. PICK b \in BOOLEAN : b = gap
    BY <1>5
  <2>2. /\ b <=> tail.gap \/ (Stream # <<>> /\ t0 # end)
        /\ u.gap <=> b /\ n = 0
    BY <1>7, <1>12, <2>1
  <2>3. PacketLabels(new, n, t0, first, g, b, ann)
    BY <1>11, <2>1
  <2>4. GrowsBy(Stream, tail, sent, end, t0, n, g, ann, first, b, new, u)
    BY <1>2, <1>4, <1>6, <1>8, <1>10, <1>12, <1>13, <2>2, <2>3 DEF GrowsBy
  <2> QED BY <2>4, GrowIsGood
<1>15. Stream \o new = out \o grown /\ grown \in Seq(Labelled)
  <2>1. Stream \o new = out \o grown
    BY <1>2, <1>10, ConcatAssociative, SMTT(30) DEF Stream
  <2>2. grown \in Seq(Labelled)
    BY <1>2, <1>10, ConcatAt
  <2> QED BY <2>1, <2>2
<1> HIDE DEF grown
<1>16. /\ queue' \in Seq(Labelled) /\ Good(out \o queue')
       /\ TailFits(out \o queue', u, first + n, t0 + n)
  BY <1>2, <1>3, <1>14, <1>15, DiscardIsGood, DiscardKeepsTail
<1>17. TypeOK'
  BY <1>2, <1>3, <1>4, <1>12, <1>16 DEF TypeOK
<1> QED BY <1>3, <1>16, <1>17, InvMeansNext DEF InvOf

LEMMA LoseStep ==
  ASSUME Inv, NEW n \in Nat \ {0}, Lose(n)
  PROVE  Inv'
<1>1. TypeOK /\ InvOf(out, queue, tail, end, sent)
  BY InvMeans DEF Inv
<1>2. /\ out' = out /\ queue' = queue /\ sent' = sent + n /\ end' = end + n
      /\ tail' = [tail EXCEPT !.gap = HasPredecessor]
  BY DEF Lose
<1>3. tail' \in Label /\ (tail'.gap <=> Stream # <<>>)
  <2>1. HasPredecessor \in BOOLEAN /\ (HasPredecessor <=> Stream # <<>>)
    BY <1>1, StreamType DEF HasPredecessor
  <2> QED BY <1>1, <1>2, <2>1 DEF TypeOK, Label
<1>4. TypeOK'
  BY <1>1, <1>2, <1>3 DEF TypeOK
<1>5. TailFits(Stream, tail', sent', end')
  <2>1. Stream # <<>> => Stream[Len(Stream)].s.nr \in Nat
    <3> SUFFICES ASSUME Stream # <<>> PROVE Stream[Len(Stream)].s.nr \in Nat
      OBVIOUS
    <3>1. Stream \in Seq(Labelled) /\ Len(Stream) \in 1..Len(Stream)
      BY <1>1, StreamType, EmptySeq
    <3> QED BY <3>1, LabelledAt
  <2>2. TailFits(Stream, tail, sent, end) /\ sent \in Nat
    BY <1>1 DEF InvOf, Stream, TypeOK
  <2> QED BY <1>2, <1>3, <2>1, <2>2 DEF TailFits
<1> QED BY <1>1, <1>2, <1>4, <1>5, InvMeansNext DEF InvOf, Stream

LEMMA ClearStep ==
  ASSUME Inv, Clear
  PROVE  Inv'
<1>1. TypeOK /\ InvOf(out, queue, tail, end, sent)
  BY InvMeans DEF Inv
<1>2. /\ out' = out /\ queue' = <<>> /\ sent' = sent + 1 /\ end' = end + 1
      /\ tail' = [gap |-> out # <<>>, ann |-> Told]
  BY DEF Clear
<1>3. /\ out \in Seq(Labelled) /\ queue \in Seq(Labelled)
      /\ sent \in Nat /\ end \in Int
  BY <1>1 DEF TypeOK
<1>4. tail' \in Label /\ (tail'.gap <=> out # <<>>)
  <2>1. Told \in Geometry
    BY <1>1, StreamType
  <2> QED BY <1>2, <2>1 DEF Label
<1>5. TypeOK'
  BY <1>2, <1>3, <1>4 DEF TypeOK
<1>6. out' \o queue' = out
  BY <1>2, <1>3, ConcatEmptySeq
<1>7. Good(out)
  BY <1>1, <1>3, PrefixIsGood DEF InvOf
<1>8. TailFits(out, tail', sent', end')
  <2>1. CASE out = <<>>
    BY <1>4, <2>1 DEF TailFits
  <2>2. CASE out # <<>>
    <3> DEFINE m == Len(out)
               l == Len(Stream)
    <3>1. /\ m \in Nat /\ m > 0 /\ l = m + Len(queue) /\ Len(queue) \in Nat
          /\ Stream \in Seq(Labelled) /\ Stream[m] = out[m]
      BY <1>3, <2>2, ConcatAt, EmptySeq DEF Stream
    <3>2. m \in 1..l /\ l \in 1..l /\ Stream # <<>> /\ m <= l
      BY <3>1, EmptySeq
    <3>3. Stream[m].s.nr \in Nat /\ Stream[l].s.nr \in Nat
      BY <3>1, <3>2, LabelledAt
    <3>4. m < l => Stream[m].s.nr < Stream[l].s.nr
      BY <1>1, <3>2 DEF InvOf, Stream, Good, OrderedIn
    <3>5. Stream[l].s.nr <= sent
      BY <1>1, <3>2 DEF InvOf, Stream, TailFits
    <3> HIDE DEF l
    <3>6. Stream[m].s.nr <= sent
      <4>1. CASE m < l
        BY <1>3, <3>3, <3>4, <3>5, <4>1
      <4>2. CASE m = l
        BY <3>5, <4>2
      <4> QED BY <3>1, <3>2, <4>1, <4>2
    <3>7. out[m].s.nr \in Nat /\ out[m].s.nr <= sent
      BY <3>1, <3>3, <3>6
    <3> QED BY <1>2, <1>3, <1>4, <2>2, <3>7 DEF TailFits
  <2> QED BY <2>1, <2>2
<1> QED BY <1>5, <1>6, <1>7, <1>8, InvMeansNext DEF InvOf

LEMMA ProduceStep ==
  ASSUME Inv, NEW n \in 1..Len(queue), Produce(n)
  PROVE  Inv'
<1>1. TypeOK /\ InvOf(out, queue, tail, end, sent)
  BY InvMeans DEF Inv
<1> DEFINE A == SubSeq(queue, 1, n)
           B == SubSeq(queue, n + 1, Len(queue))
<1>2. /\ out' = out \o A /\ queue' = B
      /\ tail' = tail /\ sent' = sent /\ end' = end
  BY DEF Produce
<1>3. /\ out \in Seq(Labelled) /\ queue \in Seq(Labelled)
      /\ A \in Seq(Labelled) /\ B \in Seq(Labelled) /\ A \o B = queue
  <2>1. out \in Seq(Labelled) /\ queue \in Seq(Labelled)
    BY <1>1 DEF TypeOK
  <2>2. A \in Seq(Labelled) /\ B \in Seq(Labelled)
    BY <2>1, SubSeqProperties
  <2>3. A \o B = queue
    BY <2>1
  <2> QED BY <2>1, <2>2, <2>3
<1> HIDE DEF A, B
<1>4. out' \o queue' = out \o queue
  <2>1. (out \o A) \o B = out \o (A \o B)
    <3>1. out \in Seq(Labelled) /\ A \in Seq(Labelled) /\ B \in Seq(Labelled)
      BY <1>3
    <3> QED BY ONLY <3>1, ConcatAssociative, SMTT(30)
  <2> QED BY <1>2, <1>3, <2>1
<1>5. TypeOK'
  <2>1. out \o A \in Seq(Labelled)
    BY <1>3, ConcatAt
  <2> QED BY <1>1, <1>2, <1>3, <2>1 DEF TypeOK
<1> QED BY <1>1, <1>2, <1>4, <1>5, InvMeansNext DEF InvOf

\* Inv is inductive.
THEOREM InvIsInvariant == Spec => []Inv
<1>1. Init => Inv
  <2> SUFFICES ASSUME Init PROVE Inv
    OBVIOUS
  <2>1. TypeOK
    BY DEF Init, TypeOK, Label, Geometry, NoGeometry
  <2>2. out \o queue = <<>> /\ ~tail.gap
    BY ConcatEmptySeq DEF Init
  <2>3. Good(<<>>) /\ TailFits(<<>>, tail, sent, end)
    BY <2>2 DEF Good, OrderedIn, GapsIn, GeometryIn, TailFits
  <2> QED BY <2>1, <2>2, <2>3, InvMeans DEF InvOf
<1>2. Inv /\ [Next]_vars => Inv'
  <2> SUFFICES ASSUME Inv, [Next]_vars PROVE Inv'
    OBVIOUS
  <2>1. ASSUME NEW skew \in Skews, NEW n \in PacketLens, NEW g \in Geometries,
               NEW d \in 0..Len(queue), Arrive(end + skew, n, g, d)
        PROVE  Inv'
    <3>1. end \in Int /\ queue \in Seq(Labelled)
      BY DEF Inv, TypeOK
    <3>2. end + skew \in Int /\ n \in Nat /\ g \in Geometry /\ d \in Nat
      BY <3>1, TrafficAssumption, GeometriesAssumption DEF Geometry
    <3> QED BY <2>1, <3>2, ArriveStep
  <2>2. ASSUME NEW n \in (PacketLens \cup {1}) \ {0}, Lose(n) PROVE Inv'
    <3>1. n \in Nat \ {0}
      BY TrafficAssumption
    <3> QED BY <2>2, <3>1, LoseStep
  <2>3. ASSUME Clear PROVE Inv'
    BY <2>3, ClearStep
  <2>4. ASSUME NEW n \in 1..Len(queue), Produce(n) PROVE Inv'
    BY <2>4, ProduceStep
  <2>5. CASE UNCHANGED vars
    BY <2>5 DEF vars, Inv, TypeOK, Stream, TailIsExact
  <2> QED BY <2>1, <2>2, <2>3, <2>4, <2>5 DEF Next
<1> QED BY <1>1, <1>2, PTL DEF Spec

LEMMA InvGivesPromises ==
  ASSUME Inv
  PROVE  GapsAreExact /\ GeometryIsTold
<1>1. TypeOK /\ InvOf(out, queue, tail, end, sent)
  BY InvMeans DEF Inv
<1>2. Good(out)
  BY <1>1, PrefixIsGood DEF InvOf, TypeOK
<1> QED BY <1>2 DEF Good, GapsAreExact, GeometryIsTold

\* A consumer of the break sink sees a gap exactly at every index where two
\* neighbouring samples are not consecutive (stream_break.rs, the contract).
THEOREM GapsAreAlwaysExact == Spec => []GapsAreExact
BY InvIsInvariant, InvGivesPromises, PTL

\* No sample reaches the consumer under a geometry that is out of tolerance
\* with what its packet declared (note_geometry, note_buffer_cleared).
THEOREM GeometryIsAlwaysTold == Spec => []GeometryIsTold
BY InvIsInvariant, InvGivesPromises, PTL
=============================================================================
