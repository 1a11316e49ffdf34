------------------------------ MODULE LinkCheck ------------------------------
(***************************************************************************)
(* The passive link-budget check of HttpSource (http_source.rs: LinkCheck, *)
(* report_link_budget, note_device_rate; link_budget.rs: ThroughputMeter,  *)
(* LinkBudgetVerdict), the device-health probe a stream gap starts, and    *)
(* the statistics both leave for the consumer.                             *)
(*                                                                         *)
(* Time is in ticks and rates are bytes a tick; a sample is one byte.  The *)
(* server keeps what the path has not carried in a buffer it hands to a    *)
(* new connection, and discards what does not fit.  A byte on its way is   *)
(* the rate its packet's header declares.  The server, the path, the       *)
(* device and whoever retunes it are external.                             *)
(***************************************************************************)
EXTENDS ThroughputMeter, FiniteSetsExt

CONSTANTS
  Rates,               \* sample rates of the device, all more than RATE_CHANGE_BAND apart
  Paths,               \* what the path may carry in a tick
  ServerBuffer,        \* bytes the server holds for a connection
  ChannelDepth,        \* CHUNK_CHANNEL_DEPTH, in bytes
  Tolerance,           \* LINK_BUDGET_TOLERANCE, in hundredths
  MaxTime, MaxTrouble, \* bound time, and retunes, restarts and lost connections
  MaxDrops             \* bounds the gaps in the stream

LinkAssumption ==
  /\ Rates \subseteq Nat \ {0} /\ Paths \subseteq Nat \ {0}
  /\ ServerBuffer \in Nat /\ ChannelDepth \in Nat \ {0}
  /\ Settle \in Nat /\ Window \in Nat \ {0} /\ Tolerance \in 1..100
  /\ MaxTime \in Nat /\ MaxTrouble \in Nat /\ MaxDrops \in Nat

VARIABLES
  \* external
  now, device_rate, path, server, trouble,
  channel,             \* bytes the reader task has put in the channel
  arrived,             \* for the properties: how many it ever put there
  \* HttpSource
  stream_active,
  measurable,          \* link_check_measurable
  link_check,          \* [is |-> "unmeasured" | "measuring" | "done"], its meter or verdict
  link_device_rate,    \* or 0
  drops, next_gap_report,
  \* the shared StreamStats
  stats,
  \* the probes under way, each known by the drops it was started at
  probes,
  answered             \* for the properties: the latest gap a probe has answered for

net_vars    == <<now, device_rate, path, server, trouble, channel, arrived>>
check_vars  == <<stream_active, measurable, link_check, link_device_rate>>
health_vars == <<drops, next_gap_report, probes, answered>>
vars == <<net_vars, check_vars, health_vars, stats>>

None == 0
Least(a, b) == IF a < b THEN a ELSE b
-----------------------------------------------------------------------------
(* The verdict. *)

Ladder(rate) == {n \in 1..rate : \E k \in 0..9 : n * 2^k = rate}

\* LinkBudgetVerdict::judge; the fit is the fastest of the device's rates the path carries.
judge(rate, m) ==
  LET span  == m.last - m.mark
      short == m.counted * 100 < rate * span * Tolerance
      fits  == {n \in Ladder(rate) : n * span <= m.counted}
  IN  [rate |-> rate, short |-> short,
       fit |-> IF short /\ fits # {} THEN Max(fits) ELSE None]
-----------------------------------------------------------------------------
Unmeasured == [is |-> "unmeasured"]
armed == [is |-> "measuring", meter |-> starting_at(now)]
Done(verdict) == [is |-> "done", verdict |-> verdict]
NoVerdict == [rate |-> 0, short |-> FALSE, fit |-> None]

VerdictOf(check) == IF check.is = "done" THEN check.verdict ELSE NoVerdict

NoStats == [link_budget |-> NoVerdict, restart_pending |-> FALSE,
            device_health |-> None, device_health_drops |-> 0]

Init ==
  /\ now = 0 /\ device_rate \in Rates /\ path \in Paths
  /\ server = << >> /\ trouble = 0 /\ channel = << >> /\ arrived = 0
  /\ stream_active = FALSE /\ measurable \in BOOLEAN
  /\ link_check = Unmeasured /\ link_device_rate = None
  /\ drops = 0 /\ next_gap_report = 1 /\ probes = {} /\ answered = 0
  /\ stats = NoStats

-----------------------------------------------------------------------------
(* The server and the path *)

\* A tick: the device produces, the path carries on what it can and the channel has room for.
Tick ==
  /\ now < MaxTime /\ now' = now + 1
  /\ LET due   == server \o [k \in 1..device_rate |-> device_rate]
         moved == IF stream_active
                  THEN Least(Least(path, Len(due)), ChannelDepth - Len(channel)) ELSE 0
     IN  /\ channel' = channel \o SubSeq(due, 1, moved)
         /\ arrived' = arrived + moved
         /\ server' = SubSeq(due, moved + 1, Least(Len(due), moved + ServerBuffer))
  /\ UNCHANGED <<device_rate, path, trouble, check_vars, health_vars, stats>>

Trouble == trouble < MaxTrouble /\ trouble' = trouble + 1

\* Someone retunes the device and nobody tells the source.
Retune ==
  /\ Trouble /\ device_rate' \in Rates \ {device_rate}
  /\ UNCHANGED <<now, path, server, channel, arrived, check_vars, health_vars, stats>>

-----------------------------------------------------------------------------
(* HttpSource *)

\* Mutant: the check is armed whatever it was.
NeedsCheck_always(check) == TRUE

\* What a new stream measures for.
NeedsCheck(check) == check.is # "done"

\* start_stream, as far as the check goes.
Opened(check) ==
  IF NeedsCheck(check) THEN IF measurable THEN armed ELSE Done(NoVerdict) ELSE check

start_stream ==
  /\ ~stream_active /\ stream_active' = TRUE
  /\ link_check' = Opened(link_check)
  /\ channel' = << >>
  /\ UNCHANGED <<now, device_rate, path, server, trouble, arrived, measurable, link_device_rate,
                 health_vars, stats>>

\* The connection ends; work() reconnects (start_stream) with the check as it is.
StreamEnds ==
  /\ Trouble /\ stream_active /\ stream_active' = FALSE /\ channel' = << >>
  /\ UNCHANGED <<now, device_rate, path, server, arrived, measurable, link_check,
                 link_device_rate, health_vars, stats>>

\* The consumer wants another configuration and asks for a restart of the stream.
RequestRestart ==
  /\ Trouble /\ ~stats.restart_pending
  /\ stats' = [stats EXCEPT !.restart_pending = TRUE]
  /\ UNCHANGED <<now, device_rate, path, server, channel, arrived, check_vars, health_vars>>

\* work() serves it: the verdict was for the old configuration, and the stream is opened
\* anew with the device tuned, or does not open.
Restart ==
  /\ stats.restart_pending
  /\ stats' = [stats EXCEPT !.restart_pending = FALSE]
  /\ channel' = << >> /\ server' = << >> /\ device_rate' \in Rates
  /\ \/ stream_active' = TRUE /\ link_check' = Opened(Unmeasured)
     \/ stream_active' = FALSE /\ link_check' = Unmeasured
  /\ UNCHANGED <<now, path, trouble, arrived, measurable, link_device_rate, health_vars>>

\* What a change of rate starts again.
Rearms(check) == check.is = "measuring" \/ (check.is = "done" /\ check.verdict # NoVerdict)

\* note_device_rate, for each packet of a sweep in turn.
RateMoves(bytes) ==
  LET told == IF link_device_rate = None THEN bytes ELSE <<link_device_rate>> \o bytes
  IN  \E k \in 1..Len(told) - 1 : told[k] # told[k + 1]
note_device_rate(bytes) == IF RateMoves(bytes) /\ Rearms(link_check) THEN armed ELSE link_check

\* Mutant: a window the consumer limited is judged.
report_link_budget_limited(check, rate) ==
  IF check.is # "measuring" \/ ~check.meter.closed THEN check
  ELSE IF ~finish(check.meter) \/ rate = None THEN armed
  ELSE Done(judge(rate, check.meter))

\* The verdict, once there is one; a window without one starts over.
report_link_budget(check, rate) ==
  IF check.is # "measuring" \/ ~check.meter.closed THEN check
  ELSE IF check.meter.consumer_limited \/ ~finish(check.meter) \/ rate = None THEN armed
  ELSE Done(judge(rate, check.meter))

Measured(check, bytes, was_full) ==
  IF check.is # "measuring" THEN check
  ELSE LET m == observe(check.meter, now, bytes, arrived)
       IN  [check EXCEPT !.meter = IF was_full THEN note_consumer_limited(m, now) ELSE m]

\* Mutant: the snapshot replaces the health too.
Refreshed_whole(check) == [NoStats EXCEPT !.link_budget = VerdictOf(check),
                                          !.restart_pending = stats.restart_pending]

\* The snapshot taken after each chunk: the request and the health are carried across.
Refreshed(check) == [stats EXCEPT !.link_budget = VerdictOf(check)]

\* A verdict is published with its report.
Published(snapshot, before, after) ==
  IF before.is = "measuring" /\ after.is = "done"
  THEN [snapshot EXCEPT !.link_budget = after.verdict] ELSE snapshot

\* A gap is counted, and at 1, 4, 16, ... gaps a probe is started.
CountGap(gap) ==
  /\ drops' = drops + IF gap THEN 1 ELSE 0
  /\ IF gap /\ drops' >= next_gap_report
     THEN next_gap_report' = drops' * 4 /\ probes' = probes \cup {drops'}
     ELSE UNCHANGED <<next_gap_report, probes>>
  /\ UNCHANGED answered

\* fetch_samples takes what is in the channel: the packets, then the meter, then the report.
Sweep(gap) ==
  /\ stream_active /\ ~stats.restart_pending /\ channel # << >>
  /\ gap => drops < MaxDrops
  /\ LET noted    == note_device_rate(channel)
         measured == Measured(noted, channel, Len(channel) >= ChannelDepth)
         reported == report_link_budget(measured, Last(channel))
     IN  /\ link_check' = reported
         /\ stats' = Published(Refreshed(noted), measured, reported)
  /\ link_device_rate' = Last(channel)
  /\ channel' = << >>
  /\ CountGap(gap)
  /\ UNCHANGED <<now, device_rate, path, server, trouble, arrived, stream_active, measurable>>

\* Whether the answer for the gap counted d-th describes the latest gap.
Stands(d) == stats.device_health_drops <= d

\* A probe reads the device's health, or cannot.
Answer(d) ==
  /\ d \in probes /\ probes' = probes \ {d}
  /\ stats' = IF Stands(d) THEN [stats EXCEPT !.device_health = d, !.device_health_drops = d]
                           ELSE stats
  /\ answered' = IF d > answered THEN d ELSE answered
  /\ UNCHANGED <<net_vars, check_vars, drops, next_gap_report>>

NoAnswer(d) ==
  /\ d \in probes /\ probes' = probes \ {d}
  /\ UNCHANGED <<net_vars, check_vars, drops, next_gap_report, answered, stats>>

Over == now = MaxTime /\ UNCHANGED vars

Next ==
  \/ Tick \/ Retune
  \/ start_stream \/ StreamEnds \/ RequestRestart \/ Restart
  \/ \E gap \in BOOLEAN : Sweep(gap)
  \/ \E d \in probes : Answer(d) \/ NoAnswer(d)
  \/ Over

Spec == Init /\ [][Next]_vars
-----------------------------------------------------------------------------
(* Properties *)

\* The check's meter is within its windows, and the statistics are of its types.
TypeOK ==
  /\ now \in 0..MaxTime /\ device_rate \in Rates /\ Len(server) <= ServerBuffer
  /\ Len(channel) <= ChannelDepth /\ link_device_rate \in Rates \cup {None}
  /\ CASE link_check.is = "unmeasured" -> ~stream_active
       [] link_check.is = "measuring" ->
            LET m == link_check.meter
            IN  /\ measurable /\ ~m.closed /\ m.opened \in 0..now
                /\ m.mark = -1 => m.counted = 0
                /\ m.mark >= 0 => m.mark - m.opened >= Settle
                /\ m.last >= 0 => m.last - m.mark \in 0..Window - 1
       [] link_check.is = "done" -> measurable = (link_check.verdict # NoVerdict)
  /\ stats.device_health_drops \in 0..drops /\ probes \subseteq 1..drops

\* What the meter counts is what arrived from its mark to its last counted sweep, over just
\* that time: neither the connect backlog before it nor the sweep that ends it.
CountIsExact ==
  link_check.is = "measuring" /\ link_check.meter.last >= 0
    => link_check.meter.counted = link_check.meter.at_last - link_check.meter.at_mark

\* The samples a window counts are of the one rate it will be judged against, whoever retuned
\* the device in the middle of it or while the stream was down; and no verdict outlives its rate.
WindowIsOfOneRate ==
  /\ link_check.is = "measuring" => link_check.meter.rates \subseteq {link_device_rate}
  /\ link_check.is = "done" => link_check.verdict.rate \in {link_device_rate, 0}

\* A verdict blames the path only when it is too slow, never the consumer that stalled behind a
\* full channel, clears it only when it is fast enough whatever backlog the connection began
\* with, and the rate it recommends is one the path carries.
PathIsJudgedRightly ==
  link_check.is = "done" /\ link_check.verdict # NoVerdict =>
    LET v == link_check.verdict
    IN  /\ v.short = (path * 100 < v.rate * Tolerance)
        /\ v.short /\ v.fit # None => v.fit \in Ladder(v.rate) /\ v.fit <= path /\ 2 * v.fit > path
        /\ v.short /\ v.fit = None => \A n \in Ladder(v.rate) : n > path

\* A configuration has one verdict: it stays until the device reports another rate or the
\* consumer restarts the stream, over every reconnect.
VerdictStands ==
  link_check.is = "done" =>
    \/ link_check' = link_check
    \/ link_device_rate' # link_device_rate \/ RateMoves(channel)
    \/ stats.restart_pending /\ ~stats'.restart_pending

\* The consumer reads the verdict there is, and no verdict while a window is counting: an old one
\* outlives its configuration only from a restart to the next packets.
StatsTellTheVerdict ==
  /\ link_check.is = "done" => stats.link_budget = link_check.verdict
  /\ link_check.is = "measuring" /\ link_check.meter.mark >= 0 => stats.link_budget = NoVerdict

\* The health shown is that of the latest gap answered for: neither a slower probe of an earlier
\* gap nor the refresh after each chunk takes it away.
HealthIsLatest ==
  stats.device_health = answered /\ stats.device_health_drops = answered

\* A verdict is of one rate, counts exactly what arrived, and names the right culprit.
VerdictIsRight == TypeOK /\ CountIsExact /\ WindowIsOfOneRate /\ PathIsJudgedRightly

\* The statistics a consumer reads are of the latest verdict and the latest gap.
StatsAreCurrent == StatsTellTheVerdict /\ HealthIsLatest
=============================================================================
