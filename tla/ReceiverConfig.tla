--------------------------- MODULE ReceiverConfig ---------------------------
(***************************************************************************)
(* The vendor device's configuration items and what native_sdk.rs writes   *)
(* to them: configure_iq_receiver_with_options, configure_iq_transmitter   *)
(* and set_rf_span_hz, as functions from the items before to the items     *)
(* after.  A call checks the request, writes one item after another, and   *)
(* reads the clock back; the SDK may reject any of the writes.             *)
(*                                                                         *)
(* Rates, spans and clocks are numbers of one unit, a clock may carry IQ   *)
(* at two thirds of its own rate, and an ECO's span is two thirds of its   *)
(* IQ rate (IQ_RATE_CLOCK_RATIO = 1.5).                                    *)
(***************************************************************************)
EXTENDS Integers, Sequences

CONSTANTS
  Unset,         \* None of an Option
  Centers,       \* centre frequencies within the device's bounds
  Rates,         \* sample rates a caller may ask for
  SpanBounds,    \* spans within the bounds of main/spanfreq
  Channels,      \* enabled options of device/receiverchannel
  Rx1,
  Clocks,        \* enabled options of device/receiverclock
  DEFAULT_RECEIVER_CLOCK,
  Decimations    \* enabled options of main/decimation

ASSUME ConfigAssumption ==
  /\ Rates \subseteq Nat /\ SpanBounds \subseteq Nat
  /\ Clocks \subseteq Nat /\ DEFAULT_RECEIVER_CLOCK \in Clocks
  /\ Rx1 \in Channels
  /\ Unset \notin Channels /\ Unset \notin Clocks /\ Unset \notin Decimations
  /\ Unset \notin Nat

Items == {"centerfreq", "spanfreq", "receiverchannel", "receiverclock", "decimation"}

\* the modes a device is opened in: raw, the IQ receivers, and those that
\* carry spectra only
Modes == {"raw", "iqreceiver", "rtsa"}
carries_iq(mode) == mode # "rtsa"
supports_raw_only_keys(mode) == mode = "raw"

\* The arguments: centre, sample rate, receiver channel and
\* NativeReceiverOptions.
Request == [center : Centers \cup {0}, rate : Rates, channel : Channels \cup {Unset},
            span : Nat \cup {Unset}, clock : Clocks \cup {Unset},
            decimation : Decimations \cup {Unset}]

\* What a device has of the items, and those whose writes it accepts and
\* ignores.
Device == [present : SUBSET Items, ignored : SUBSET Items]

validate_iq_mode(rate, clock) == rate > 0 /\ 3 * rate <= 2 * clock
read_receiver_clock(dev, items) ==
  IF "receiverclock" \in dev.present THEN items["receiverclock"] ELSE DEFAULT_RECEIVER_CLOCK

explicit_raw(req) == req.clock # Unset \/ req.decimation # Unset

\* The label written to device/receiverclock.
ClockLabel(dev, items, req) ==
  CASE req.clock # Unset                                              -> req.clock
    [] req.clock = Unset /\ req.decimation # Unset /\ "receiverclock" \in dev.present
                                                                      -> items["receiverclock"]
    [] OTHER                                                          -> DEFAULT_RECEIVER_CLOCK

spanfreq_to_write(mode, req) ==
  IF mode = "raw" THEN req.rate
  ELSE IF req.span # Unset THEN req.span ELSE (2 * req.rate) \div 3

\* The checks before the first write.
Refused(mode, dev, items, req) ==
  \/ ~carries_iq(mode)
  \/ req.center \notin Centers
  \/ mode = "raw" /\ req.span # Unset
  \/ mode # "raw" /\ (req.channel # Unset \/ explicit_raw(req))
  \/ req.channel # Unset /\ (req.channel \notin Channels \/ "receiverchannel" \notin dev.present)
  \/ req.clock # Unset /\ (req.clock \notin Clocks \/ "receiverclock" \notin dev.present)
  \/ req.decimation # Unset /\ "decimation" \notin dev.present
  \/ mode = "iqreceiver"
       /\ ("spanfreq" \notin dev.present \/ spanfreq_to_write(mode, req) \notin SpanBounds)
  \/ mode = "raw" /\ ~explicit_raw(req)
       /\ ~validate_iq_mode(req.rate, ClockLabel(dev, items, req))

\* Mutant: a configuration always selects the first channel.
ChannelWritten_rx1(req) == Rx1

ChannelWritten(req) == IF req.channel = Unset THEN Rx1 ELSE req.channel

\* One write; an item the device lacks is skipped with a warning.
Write(dev, item, value) == IF item \in dev.present THEN <<<<item, value>>>> ELSE <<>>

\* The writes, in order.  The decimation comes after the clock was read back.
Writes(mode, dev, items, req) ==
  Write(dev, "centerfreq", req.center)
    \o (IF explicit_raw(req) THEN <<>>
        ELSE Write(dev, "spanfreq", spanfreq_to_write(mode, req)))
    \o (IF supports_raw_only_keys(mode)
        THEN Write(dev, "receiverchannel", ChannelWritten(req))
               \o Write(dev, "receiverclock", ClockLabel(dev, items, req))
        ELSE <<>>)
    \o (IF req.decimation = Unset THEN <<>>
        ELSE Write(dev, "decimation", req.decimation))

TransmitWrites(dev, req) ==
  Write(dev, "centerfreq", req.center) \o Write(dev, "spanfreq", req.rate)

\* The items after the first n of the writes, of which no two are of one item.
After(dev, items, writes, n) ==
  [i \in Items |->
     IF i \notin dev.ignored /\ \E k \in 1..n : writes[k][1] = i
     THEN writes[CHOOSE k \in 1..n : writes[k][1] = i][2]
     ELSE items[i]]

\* The number of writes the SDK may accept before it rejects one.
Accepted(writes) == 0..Len(writes)

\* The clock read back does not carry the rate.
TooSlow(mode, dev, items, req) ==
  /\ mode = "raw" /\ ~explicit_raw(req)
  /\ ~validate_iq_mode(req.rate, read_receiver_clock(dev, items))

\* configure_iq_receiver_with_options, with the SDK accepting n writes.
\* "refused" is an error before the first write; "failed" one after, from the
\* SDK or because the clock read back is too slow for the rate; the decimation
\* is only written when the clock was not.
configure_iq_receiver(mode, dev, items, req, n) ==
  LET writes == Writes(mode, dev, items, req)
      after  == After(dev, items, writes, n)
      slow   == TooSlow(mode, dev, after, req)
  IN  IF Refused(mode, dev, items, req) THEN [items |-> items, result |-> "refused"]
      ELSE [items  |-> after,
            result |-> IF n < Len(writes) \/ slow THEN "failed" ELSE "ok"]

configure_iq_transmitter(dev, items, req, n) ==
  LET writes == TransmitWrites(dev, req)
  IN  [items  |-> After(dev, items, writes, n),
       result |-> IF n < Len(writes) THEN "failed" ELSE "ok"]

\* set_rf_span_hz on an open device.
set_rf_span(mode, dev, items, span, n) ==
  LET writes == <<<<"spanfreq", span>>>>
  IN  IF mode # "iqreceiver" \/ "spanfreq" \notin dev.present \/ span \notin SpanBounds
      THEN [items |-> items, result |-> "refused"]
      ELSE [items  |-> After(dev, items, writes, n),
            result |-> IF n < 1 THEN "failed" ELSE "ok"]

\* The items a device configured for a request has.
Settled(mode, dev, req) ==
  [i \in {"centerfreq", "spanfreq", "receiverchannel", "decimation"} |->
     CASE i = "centerfreq"      -> req.center
       [] i = "spanfreq"        -> spanfreq_to_write(mode, req)
       [] i = "receiverchannel" -> IF req.channel = Unset THEN Rx1 ELSE req.channel
       [] i = "decimation"      -> req.decimation]
Decided(mode, req) ==
  {"centerfreq"}
    \cup (IF explicit_raw(req) THEN {} ELSE {"spanfreq"})
    \cup (IF mode = "raw" THEN {"receiverchannel"} ELSE {})
    \cup (IF req.decimation = Unset THEN {} ELSE {"decimation"})
Configured(mode, dev, items, req) ==
  \A i \in (Decided(mode, req) \cap dev.present) \ dev.ignored :
    items[i] = Settled(mode, dev, req)[i]
=============================================================================
