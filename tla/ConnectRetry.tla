---------------------------- MODULE ConnectRetry ----------------------------
(***************************************************************************)
(* Opening a SpectranSource over HTTP (unified_source.rs): the connection  *)
(* test and then the first tuning, each of them under retry_connect, which *)
(* repeats what may pass while its attempts and its time last.             *)
(*                                                                         *)
(* The server is external.  It comes up some time after the program began; *)
(* before that an attempt fails at once or after a time of its own, and    *)
(* after it may still be refused for good.                                 *)
(***************************************************************************)
EXTENDS Integers

CONSTANTS
  CONNECT_ATTEMPTS, CONNECT_BACKOFF_INITIAL, CONNECT_BACKOFF_MAX, CONNECT_TOTAL_BUDGET,
  Delays,        \* how long an attempt that fails takes; 0 is a prompt refusal
  MaxUp          \* the latest the server comes up

VARIABLES
  up,            \* when it does
  what,          \* "test" | "tuning" | "open" | "failed"
  attempt, now, started, backoff,
  error,         \* of the last attempt: "none" | "transient" | "final"
  \* for the properties
  prompt,        \* has every failure been a prompt refusal?
  begun          \* when the last attempt began

vars == <<up, what, attempt, now, started, backoff, error, prompt, begun>>

Least(a, b) == IF a < b THEN a ELSE b

Init ==
  /\ up \in 0..MaxUp
  /\ what = "test" /\ attempt = 1
  /\ now = 0 /\ started = 0 /\ begun = 0
  /\ backoff = CONNECT_BACKOFF_INITIAL
  /\ error = "none" /\ prompt = TRUE

Works == what \in {"test", "tuning"}

\* The operation is done; the next one has attempts and a budget of its own.
Succeeds ==
  /\ Works /\ now >= up
  /\ what' = IF what = "test" THEN "tuning" ELSE "open"
  /\ attempt' = 1 /\ started' = now /\ begun' = now /\ backoff' = CONNECT_BACKOFF_INITIAL
  /\ error' = "none"
  /\ UNCHANGED <<up, now, prompt>>

\* A transport failure, a 5xx, 408 or 429.
is_retryable(why) == why = "transient"

InBudget(elapsed) == elapsed + backoff < CONNECT_TOTAL_BUDGET

NextBackoff(b) == Least(2 * b, CONNECT_BACKOFF_MAX)

Fails ==
  /\ Works
  /\ \E took \in Delays, why \in {"transient", "final"} :
       LET at == now + took
       IN  /\ now < up \/ why = "final" \/ took > 0
           /\ error' = why
           /\ prompt' = (prompt /\ took = 0 /\ why = "transient")
           /\ IF attempt < CONNECT_ATTEMPTS /\ is_retryable(why) /\ InBudget(at - started)
              THEN /\ now' = at + backoff /\ begun' = now'
                   /\ backoff' = NextBackoff(backoff) /\ attempt' = attempt + 1
                   /\ UNCHANGED what
              ELSE now' = at /\ what' = "failed" /\ UNCHANGED <<attempt, backoff, begun>>
  /\ UNCHANGED <<up, started>>

Next == Succeeds \/ Fails

Spec == Init /\ [][Next]_vars

-----------------------------------------------------------------------------

\* No attempt begins after the budget of its operation, however slowly those before it failed; and a
\* server that refuses promptly until it is up within all the backoffs is reached: the three of
\* CONNECT_ATTEMPTS = 4 are 1, 2 and 4 times the first, none of them over CONNECT_BACKOFF_MAX.
RetriesAreWorthTheirTime ==
  /\ Works => begun - started < CONNECT_TOTAL_BUDGET
  /\ what = "failed" /\ prompt => up > 7 * CONNECT_BACKOFF_INITIAL
=============================================================================
