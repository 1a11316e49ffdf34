--------------------------- MODULE ThroughputMeter ---------------------------
(***************************************************************************)
(* ThroughputMeter (link_budget.rs): counts what arrives in a window that  *)
(* begins some time after a connection was opened.  It is fed by the link  *)
(* check of HttpSource and by the link probe.                              *)
(*                                                                         *)
(* bytes is a sequence of what came; arrived, how much ever did, and       *)
(* rates, at_mark and at_last are for the properties.                      *)
(***************************************************************************)
EXTENDS Integers, Sequences, SequencesExt

CONSTANTS
  Settle, Window       \* LINK_PROBE_SETTLE; LINK_CHECK_WINDOW, or the probe's duration

starting_at(opened) ==
  [opened |-> opened, mark |-> -1, last |-> -1, counted |-> 0, closed |-> FALSE,
   consumer_limited |-> FALSE, rates |-> {}, at_mark |-> 0, at_last |-> 0]

\* The first observation after the settle period starts the window and is not counted.
Marked(m, at, bytes, arrived) == [m EXCEPT !.mark = at, !.at_mark = arrived]

Counting(m, at, bytes, arrived) ==
  [m EXCEPT !.counted = @ + Len(bytes), !.last = at, !.rates = @ \cup ToSet(bytes),
            !.at_last = arrived]

\* The observation that ends the window is not counted either.
observe(m, at, bytes, arrived) ==
  IF m.closed \/ at - m.opened < Settle THEN m
  ELSE IF m.mark < 0 THEN Marked(m, at, bytes, arrived)
  ELSE IF at - m.mark >= Window THEN [m EXCEPT !.closed = TRUE]
  ELSE Counting(m, at, bytes, arrived)

\* Inside the window, the channel was full: the reader task waited for the consumer.
note_consumer_limited(m, at) ==
  IF ~m.closed /\ m.mark >= 0 /\ at >= m.mark THEN [m EXCEPT !.consumer_limited = TRUE] ELSE m

\* Mutant: a window that was hardly observed is a measurement.
finish_thin(m) == m.closed /\ m.counted > 0 /\ m.last > m.mark

\* Whether there is enough of a measurement.
finish(m) ==
  /\ m.closed /\ m.counted > 0 /\ m.mark >= 0 /\ m.last >= 0
  /\ m.last > m.mark /\ 2 * (m.last - m.mark) >= Window
=============================================================================
