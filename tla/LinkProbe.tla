----------------------------- MODULE LinkProbe -----------------------------
(***************************************************************************)
(* measure_link_throughput_with (link_budget.rs): opens a stream of its    *)
(* own, counts what comes and reads the device's rate off the headers, and *)
(* fails rather than call a stream that stopped, ended or came in a burst  *)
(* a slow one.                                                             *)
(*                                                                         *)
(* The server is external.  Its stream is of cells: a header is two, with  *)
(* what the probe looks at in the first, and a chunk ends anywhere.        *)
(***************************************************************************)
EXTENDS ThroughputMeter

CONSTANTS
  Streams,             \* what the server may send: payload and sampling rate (or 0) of its headers
  Payload,             \* cells of a packet's payload
  Chunks,              \* how many cells may come at once
  PROBE_STALL_TIMEOUT, PROBE_HEADER_SCAN,
  MaxCells             \* bounds what the server sends

VARIABLES
  stream,              \* its headers in turn, the last one again and again
  pc,                  \* "request" | "reading" | "measured" | "failed"
  now, heard,          \* heard: when the last chunk came
  sent,                \* cells that came
  meter,
  sniffing,            \* is there a sniffer?
  buf, fed,            \* the sniffer's
  stream_sample_rate   \* found, or 0

sniffer_vars == <<sniffing, buf, fed, stream_sample_rate>>
vars == <<stream, pc, now, heard, sent, meter, sniffer_vars>>

Least(a, b) == IF a < b THEN a ELSE b

PacketCells == Payload + 2
\* The cell at position k of the stream, from 0.
CellOf(k) ==
  LET header == stream[Least(k \div PacketCells + 1, Len(stream))]
  IN  CASE k % PacketCells = 0 -> [is |-> "begins", header |-> header]
        [] k % PacketCells = 1 -> [is |-> "header ends"]
        [] OTHER               -> [is |-> "payload"]

Init ==
  /\ stream \in Streams /\ pc = "request"
  /\ now = 0 /\ heard = 0 /\ sent = 0
  /\ meter = starting_at(0)
  /\ sniffing = TRUE /\ buf = << >> /\ fed = 0 /\ stream_sample_rate = 0

\* The request is answered with a stream, or it fails.
Opens ==
  /\ pc = "request" /\ pc' \in {"reading", "failed"}
  /\ UNCHANGED <<stream, now, heard, sent, meter, sniffer_vars>>

Tick ==
  /\ pc = "reading" /\ now - heard < PROBE_STALL_TIMEOUT
  /\ now' = now + 1
  /\ UNCHANGED <<stream, pc, heard, sent, meter, sniffer_vars>>

-----------------------------------------------------------------------------
(* RateSniffer::feed *)

Begins(cells) == {k \in DOMAIN cells : cells[k].is = "begins"}
Whole(cells) == {k \in Begins(cells) : k < Len(cells)}

\* Of a buffer without a whole header: what may still be one.
Unfinished(cells) == IF Begins(cells) = {} THEN << >> ELSE <<Last(cells)>>

\* A header without IQ gives a rate of something else, and a status packet none.
Yardstick(header) == header.payload = "iq" /\ header.rate > 0

RateIn(cells) ==
  LET told == {k \in Whole(cells) : Yardstick(cells[k].header)}
  IN  IF told = {} THEN 0 ELSE cells[CHOOSE k \in told : \A j \in told : k <= j].header.rate

budget_spent(n) == n > PROBE_HEADER_SCAN

feed(chunk) ==
  LET cells == buf \o chunk
      found == RateIn(cells)
  IN  IF ~sniffing THEN UNCHANGED sniffer_vars
      ELSE /\ fed' = fed + Len(chunk)
           /\ stream_sample_rate' = found
           /\ sniffing' = (found = 0 /\ ~budget_spent(fed'))
           /\ buf' = IF sniffing' THEN Unfinished(cells) ELSE << >>

-----------------------------------------------------------------------------

\* A chunk is looked at, then counted; the one that ends the window decides.
Chunk(n) ==
  /\ sent + n <= MaxCells
  /\ pc = "reading" /\ now - heard < PROBE_STALL_TIMEOUT
  /\ LET chunk == [k \in 1..n |-> CellOf(sent + k - 1)]
     IN  feed(chunk) /\ meter' = observe(meter, now, chunk, sent + n)
  /\ sent' = sent + n /\ heard' = now
  /\ pc' = IF ~meter'.closed THEN pc ELSE IF finish(meter') THEN "measured" ELSE "failed"
  /\ UNCHANGED <<stream, now>>

\* It stalls, ends before the window does, or breaks off.
Fails ==
  /\ pc = "reading"
  /\ pc' = "failed"
  /\ UNCHANGED <<stream, now, heard, sent, meter, sniffer_vars>>

Next == Opens \/ Tick \/ Fails \/ \E n \in Chunks : Chunk(n)

Spec == Init /\ [][Next]_vars

-----------------------------------------------------------------------------

\* A measurement is of just what arrived in its window, over at least half of it, and of nothing the
\* server had ready when the stream was opened; and the probe is over in bounded time, whatever comes.
MeasuresOrFails ==
  /\ pc = "measured" =>
       /\ meter.counted = meter.at_last - meter.at_mark
       /\ meter.mark >= Settle /\ meter.last - meter.mark \in (Window + 1) \div 2..Window - 1
  /\ now <= Settle + Window + 2 * PROBE_STALL_TIMEOUT

\* However the stream is cut into chunks, the rate is that of its first IQ header with one, and
\* there is none only where the part that is scanned has none.
RateIsTheStreams ==
  pc = "measured" =>
    /\ stream_sample_rate # 0 => \E k \in 0..sent - 2 :
         /\ CellOf(k).is = "begins" /\ CellOf(k).header.payload = "iq"
         /\ CellOf(k).header.rate = stream_sample_rate
         /\ \A j \in 0..k - 1 : CellOf(j).is = "begins" =>
              CellOf(j).header.payload # "iq" \/ CellOf(j).header.rate = 0
    /\ stream_sample_rate = 0 =>
         \A k \in 0..Least(sent - 2, PROBE_HEADER_SCAN - 2) :
           CellOf(k).is = "begins" => CellOf(k).header.payload # "iq" \/ CellOf(k).header.rate = 0
=============================================================================
