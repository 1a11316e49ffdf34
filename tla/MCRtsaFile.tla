------------------------------ MODULE MCRtsaFile ------------------------------
(***************************************************************************)
(* Recordings that are as they should be, and recordings with each of the  *)
(* things a reader has to cope with.                                       *)
(***************************************************************************)
EXTENDS Integers, Sequences, SequencesExt, TLC

Junk == [id |-> "junk"]
Value(c, n) == [id |-> "value", chunk |-> c, value |-> n]

\* A SAMP chunk of a sub-stream, its payload of held values behind a header that says num samples.
Chunk(c, sub, num, held) ==
  <<[id |-> "SAMP", size |-> held + 1, stream |-> 1, sub |-> sub, payload |-> "iq", type |-> "f32",
     depth |-> 2, packed |-> FALSE, num |-> num]>> \o [n \in 1..held |-> Value(c, n)]

With(chunk, header) == [chunk EXCEPT ![1] = header @@ chunk[1]]

Iq(c, sub, num) == Chunk(c, sub, num, 2 * num)
Packed(chunk)   == With(chunk, [packed |-> TRUE])
Other(chunk)    == With(chunk, [payload |-> "other"])
Spectra(c, sub, num) == With(Chunk(c, sub, num, 3 * num), [payload |-> "spectra", depth |-> 3])

\* A chunk of another kind, whose payload looks like a chunk.
Lookalike == <<[id |-> "ANTA", size |-> 3, nr |-> 9, next |-> 0], [id |-> "SAMP", size |-> 2], Junk>>
\* The header of a chunk whose size is gone.
Wreck == <<[id |-> "SSTR", size |-> 0]>>

Header(created) == [id |-> "DSFH", size |-> 1, creation |-> created]
Stream(begun)   == [id |-> "STRM", size |-> 1, stream |-> 1, start_time |-> begun]
Link(id, nr, next) == [id |-> id, size |-> 1, nr |-> nr, next |-> next, rate |-> 1]
TailAt(area)    == [id |-> "DSFT", size |-> 1, stream_offset |-> area]

\* What a recording may differ in: where its second sub-stream's link leads and its first's is
\* damaged, what STRT and STRM give, what lies before its header and its tail, and whether it may
\* fail to open.
Ordinary ==
  [loop |-> FALSE, cut |-> FALSE, num |-> 0, begun |-> 0, duration |-> 0, created |-> 5,
   lead |-> << >>, before |-> << >>, may_fail |-> FALSE]

\* A recording of these parts, those of samps being the chunks to index.
Recording(parts, samps, differs) ==
  LET as    == differs @@ Ordinary
      body  == as.lead \o <<Header(as.created), Stream(as.begun)>> \o FlattenSeq(parts)
      at    == Len(body)
      chunks == [k \in DOMAIN samps |-> parts[samps[k]][1]]
      total  == FoldSeq(LAMBDA c, n : n + IF c.stream = 1 THEN c.num ELSE 0, 0, chunks)
  IN  [cells |-> body \o
         << IF as.cut THEN Junk ELSE Link("SSTR", 1, IF as.loop THEN at + 1 ELSE 0),
            Link("SSTR", 2, at), Link("ANTA", 1, 0), Link("MDTT", 1, 0), Link("SPRV", 1, 0),
            [id |-> "STRT", size |-> 1, stream_offset |-> Len(as.lead) + 1,
             sub_stream_offset |-> at + 1,
             antenna_offset |-> at + 2, metadata_offset |-> at + 3, preview_offset |-> at + 4,
             num_samples |-> as.num, end_time |-> as.duration] >>
         \o as.before \o << TailAt(at + 5) >>,
       samps |-> [k \in DOMAIN samps |-> Len(as.lead) + 2 + Len(FlattenSeq(SubSeq(parts, 1, samps[k] - 1)))],
       chains |-> [sub_streams |-> IF as.cut THEN {2} ELSE {1, 2}, antennas |-> {1},
                   definitions |-> {1}, previews |-> {1}],
       created |-> as.created, begun |-> as.begun, timed |-> as.duration > 0,
       lasted |-> IF as.duration > 0 THEN as.duration ELSE IF as.num > 0 THEN as.num ELSE total,
       may_fail |-> as.may_fail \/ \E k \in DOMAIN chunks : chunks[k].packed]

\* In reverse order: samples, the header and the stream, with or without STRT, and the tail.
Reversed(begun, strt) ==
  [cells |-> [n \in 1..6 |-> Value(1, n)] \o <<Header(5), Stream(begun)>>
     \o (IF strt THEN <<[id |-> "STRT", size |-> 1, stream_offset |-> 7, sub_stream_offset |-> 0,
                         antenna_offset |-> 0, metadata_offset |-> 0, preview_offset |-> 0,
                         num_samples |-> 3, end_time |-> 2]>> ELSE << >>)
     \o <<TailAt(6)>>,
   samps |-> << >>, chains |-> [sub_streams |-> {}],
   created |-> 5, begun |-> begun, timed |-> FALSE, lasted |-> 0, may_fail |-> FALSE]

Lost(f, k) == [f EXCEPT !.cells[k] = Junk, !.may_fail = TRUE]
Plain(differs) == Recording(<<Lookalike, Iq(1, 1, 2), <<Junk, Junk>>, Iq(2, 1, 3)>>, <<2, 4>>, differs)
Ends(f) == Len(f.cells)

MCFiles ==
  { Plain(Ordinary),
    Plain([num |-> 4, begun |-> 7]),
    Plain([num |-> 7, loop |-> TRUE, begun |-> 7, duration |-> 2]),
    Plain([duration |-> 3]),
    Plain([cut |-> TRUE, may_fail |-> TRUE]), Recording(<<Iq(1, 2, 2)>>, <<1>>, [cut |-> TRUE]),
    \* An old tail, or what looks like a header, is left before the tail; the file has a head.
    Plain([before |-> <<TailAt(3)>>]), Plain([before |-> <<[Header(8) EXCEPT !.size = 9]>>]),
    Plain([lead |-> [n \in 1..5 |-> Junk]]), Plain([lead |-> [n \in 1..2 |-> Junk], begun |-> 7]),
    Lost(Plain(Ordinary), 1), Lost(Plain(Ordinary), 2),
    Lost(Plain(Ordinary), Ends(Plain(Ordinary)) - 1), Lost(Plain(Ordinary), Ends(Plain(Ordinary))),
    [Plain([may_fail |-> TRUE]) EXCEPT !.cells[Ends(Plain(Ordinary))] = TailAt(0)],
    Recording(<<Iq(1, 1, 2), Iq(2, 2, 3), Iq(3, 1, 2), Iq(4, 2, 1)>>, <<1, 2, 3, 4>>, Ordinary),
    Recording(<<Packed(Iq(1, 1, 2)), Iq(2, 1, 1)>>, <<1, 2>>, Ordinary),
    Recording(<<Iq(1, 1, 2), Packed(Iq(2, 2, 1))>>, <<1, 2>>, [begun |-> 7]),
    Recording(<<Iq(1, 1, 1), Wreck, Other(Iq(2, 1, 2)), Iq(3, 1, 2)>>, <<1, 3, 4>>, Ordinary),
    Recording(<<Iq(1, 1, 2), Spectra(2, 2, 1), Iq(3, 1, 2), With(Iq(4, 1, 1), [stream |-> 2])>>,
              <<1, 2, 3, 4>>, Ordinary),
    Recording(<<Spectra(1, 1, 2), Packed(Spectra(2, 1, 1))>>, <<1, 2>>, Ordinary),
    Recording(<<Iq(1, 1, 2), Chunk(2, 1, 3, 5), Iq(3, 1, 1)>>, <<1, 2, 3>>, Ordinary),
    Recording(<<Iq(1, 1, 2), With(Iq(2, 1, 3), [size |-> 40])>>, <<1, 2>>, Ordinary),
    Recording(<<Iq(1, 1, 2), With(Iq(2, 1, 1), [depth |-> 1])>>, <<1, 2>>, Ordinary),
    Recording(<<Iq(1, 1, 1), With(Iq(2, 1, 2), [type |-> "unknown"]), Iq(3, 1, 1)>>, <<1, 2, 3>>, Ordinary),
    Recording(<<Iq(1, 1, 1), With(Iq(2, 1, 2), [type |-> "u8"]), Iq(3, 1, 1)>>, <<1, 2, 3>>, Ordinary),
    Recording(<<With(Iq(1, 1, 1), [stream |-> 2])>>, <<1>>, Ordinary),
    Reversed(0, FALSE), Reversed(7, TRUE),
    \* Chunks where no STRT says what they are of.
    [Reversed(7, FALSE) EXCEPT !.cells = @ \o Iq(1, 1, 1) \o <<TailAt(6)>>, !.may_fail = TRUE] }
=============================================================================
