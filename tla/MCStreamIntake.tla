--------------------------- MODULE MCStreamIntake ---------------------------
(***************************************************************************)
(* What becomes of the chunks of the HTTP body, side by side: the buffer   *)
(* they have to fit into (SweepCapacity), the packets they are cut into    *)
(* (StreamParser), and what their rate says of the link (LinkCheck).  In a *)
(* behaviour one of them moves.                                            *)
(*                                                                         *)
(* The packets are of every kind the parser treats apart, payloads with    *)
(* braces and separators in them included.  The link has two rates an      *)
(* octave apart on paths below, between and above them, time for two       *)
(* windows, and a channel a stall of two ticks fills.                      *)
(***************************************************************************)
EXTENDS SweepCapacity, Sequences

CONSTANTS
  Scripts(_), ParserChunks, MaxUsize, MaxFramesPerBlock, MaxBinaryPayload, MaxJsonBuffer,
  CompactThreshold, MaxResets,
  Rates, Paths, ServerBuffer, LinkDepth, Settle, Window, Tolerance, MaxTime, MaxTrouble, MaxDrops

VARIABLES
  component,   \* "buffer" | "parser" | "link"
  script, sent, resets, format, buffer, consumed, skip_bytes, recovering, parser_pc, items,
  parser_got, last,
  now, device_rate, path, server, trouble, channel, arrived, stream_active, measurable,
  link_check, link_device_rate, drops, next_gap_report, stats, probes, answered

parser_vars ==
  <<script, sent, resets, format, buffer, consumed, skip_bytes, recovering, parser_pc, items,
    parser_got, last>>

link_vars ==
  <<now, device_rate, path, server, trouble, channel, arrived, stream_active, measurable,
    link_check, link_device_rate, drops, next_gap_report, stats, probes, answered>>

Parser == INSTANCE StreamParser WITH
  Chunks <- ParserChunks, pc <- parser_pc, got <- parser_got
Link == INSTANCE LinkCheck WITH ChannelDepth <- LinkDepth

ASSUME Parser!ParserAssumption
ASSUME LinkIsAssumed == Link!LinkAssumption

Unused(v) == v = "unused"
NoParser ==
  /\ Unused(script) /\ Unused(sent) /\ Unused(resets) /\ Unused(format) /\ Unused(buffer)
  /\ Unused(consumed) /\ Unused(skip_bytes) /\ Unused(recovering) /\ Unused(parser_pc)
  /\ Unused(items) /\ Unused(parser_got) /\ Unused(last)

NoLink ==
  /\ Unused(now) /\ Unused(device_rate) /\ Unused(path) /\ Unused(server) /\ Unused(trouble)
  /\ Unused(channel) /\ Unused(arrived) /\ Unused(stream_active) /\ Unused(measurable)
  /\ Unused(link_check) /\ Unused(link_device_rate) /\ Unused(drops)
  /\ Unused(next_gap_report) /\ Unused(stats) /\ Unused(probes) /\ Unused(answered)

MCInit ==
  /\ Init
  /\ \/ component = "buffer" /\ NoParser /\ NoLink
     \/ component = "parser" /\ Parser!Init /\ NoLink
     \/ component = "link" /\ Link!Init /\ NoParser

BufferMoves == component = "buffer" /\ Next /\ UNCHANGED <<component, parser_vars, link_vars>>
ParserMoves == component = "parser" /\ Parser!Next /\ UNCHANGED <<component, vars, link_vars>>
LinkMoves == component = "link" /\ Link!Next /\ UNCHANGED <<component, vars, parser_vars>>

MCSpec ==
  MCInit /\ [][BufferMoves \/ ParserMoves \/ LinkMoves]_<<component, vars, parser_vars, link_vars>>

\* The parser's promises (StreamParser).
PacketsComeAsSent == component = "parser" => Parser!PacketsComeAsSent
NothingIsMissed == component = "parser" => Parser!NothingIsMissed
SkipsAndBufferAreExact == component = "parser" => Parser!SkipsAndBufferAreExact

\* The link check's promises (LinkCheck).
VerdictIsRight == component = "link" => Link!VerdictIsRight
StatsAreCurrent == component = "link" => Link!StatsAreCurrent
VerdictStands == [][component = "link" => Link!VerdictStands]_link_vars
-----------------------------------------------------------------------------
Wired == [valid |-> TRUE, payload |-> "iq", samples |-> 1, compressed |-> FALSE,
          readable |-> TRUE, separator |-> <<"LF", "RS">>, body |-> <<"d", "d">>]

iq        == Wired
iq_lf     == [Wired EXCEPT !.separator = <<"LF">>, !.body = <<Parser!Open, "LF">>]
iq_rs     == [Wired EXCEPT !.separator = <<"RS">>, !.body = <<"RS", "d">>]
iq_braces == [Wired EXCEPT !.samples = 2, !.body = <<"RS", Parser!Open, "LF", Parser!Open>>]
iq_empty  == [Wired EXCEPT !.samples = 0, !.body = << >>]
corrupt   == [Wired EXCEPT !.valid = FALSE, !.body = <<Parser!Open, "d">>]
over_cap  == [Wired EXCEPT !.samples = 3, !.body = <<"d", Parser!Open, "d", "RS", "d", Parser!Open>>]
overflow  == [Wired EXCEPT !.samples = 9, !.body = <<"d">>]
spectra   == [Wired EXCEPT !.payload = "spectra", !.samples = 2, !.body = <<"LF", Parser!Open>>]
rice      == [Wired EXCEPT !.payload = "spectra", !.compressed = TRUE, !.samples = 4,
                           !.body = <<"d", Parser!Open, "d">>]
rice_long == [rice EXCEPT !.body = <<Parser!Open>> \o [k \in 1..18 |-> "d"]]
labels    == [Wired EXCEPT !.payload = "categories", !.compressed = TRUE, !.body = <<"d">>]

BinaryPackets == {iq, iq_lf, iq_rs, iq_braces, iq_empty, corrupt, over_cap, overflow,
                  spectra, rice, labels}

document == [Wired EXCEPT !.body = << >>]
Documents == {document, [document EXCEPT !.valid = FALSE], [document EXCEPT !.separator = <<"LF">>],
              [document EXCEPT !.readable = FALSE],
              [document EXCEPT !.readable = FALSE, !.payload = "spectra"]}

MCScripts(f) ==
  IF f = "json" THEN {<<a, b, c>> : a, b, c \in Documents}
  ELSE {<<a, b, iq>> : a, b \in BinaryPackets}
         \cup {<<rice_long, iq>>, <<iq, rice_long>>}
=============================================================================
