---------------------------- MODULE SeifyDriver ----------------------------
(***************************************************************************)
(* The seify device (seify_impl.rs): clones of it and its streamers share  *)
(* one source behind a mutex.  A setter keeps what the device was last     *)
(* tuned to, under a mutex of its own; a streamer that read samples with   *)
(* an overrun among them tells of it at its next read.                     *)
(***************************************************************************)
EXTENDS SourceFacade

CONSTANTS
  Controllers,   \* threads that tune the device
  Streamers,     \* RxStreamers, each read by a thread of its own
  Values, MaxSamples, MaxSets

VARIABLES
  source,        \* {} before from_args has succeeded
  owner,         \* who has the source's lock
  pc,            \* of each controller: the value it sets, and how far it is
  applied,       \* the frequency the source last accepted
  tuning,        \* the frequency cache
  deferred_overrun,
  untold,        \* has a gap been delivered that no read has told of?
  sets

vars == <<source, owner, pc, applied, tuning, deferred_overrun, untold, sets>>

Nobody == "nobody"
Idle == [at |-> "idle"]

TypeOK ==
  /\ source \subseteq Sources(MaxSamples)
  /\ owner \in Controllers \cup {Nobody}
  /\ \A c \in Controllers :
       pc[c] = Idle \/ pc[c] \in [at : {"setting", "caching"}, value : Values]
  /\ applied \in Values /\ tuning \in Values
  /\ deferred_overrun \in [Streamers -> BOOLEAN] /\ untold \in BOOLEAN
  /\ sets \in 0..MaxSets

\* The arguments: a URL before a path, a serial or sdk for the native SDK.
Chosen(arg) ==
  CASE arg = "url"    -> [DefaultConfig EXCEPT !.url = TRUE]
    [] arg = "file"   -> [DefaultConfig EXCEPT !.file = "there"]
    [] arg \in {"serial", "sdk"} -> [DefaultConfig EXCEPT !.forced = "native"]
    [] arg = "none"   -> DefaultConfig

Init ==
  /\ source = {} /\ owner = Nobody
  /\ pc = [c \in Controllers |-> Idle]
  /\ applied \in Values /\ tuning = applied
  /\ deferred_overrun = [s \in Streamers |-> FALSE] /\ untold = FALSE
  /\ sets = 0

\* The configured tuning is what the cache begins with.
from_args ==
  /\ source = {}
  /\ \E arg \in {"url", "file", "serial", "sdk", "none"}, installed \in BOOLEAN :
       source' \in {{s} : s \in new(Chosen(arg), installed)}
  /\ UNCHANGED <<owner, pc, applied, tuning, deferred_overrun, untold, sets>>

-----------------------------------------------------------------------------
(* set_frequency, and set_sample_rate and set_gain like it. *)

SetBegins(c) ==
  /\ source # {} /\ pc[c] = Idle /\ owner = Nobody /\ sets < MaxSets
  /\ owner' = c /\ sets' = sets + 1
  /\ \E v \in Values : pc' = [pc EXCEPT ![c] = [at |-> "setting", value |-> v]]
  /\ UNCHANGED <<source, applied, tuning, deferred_overrun, untold>>

\* The source's lock is held until the cache has the value.
OwnerWhileCaching(c) == c

SetEnds(c) ==
  /\ pc[c].at = "setting"
  /\ \E s \in source : \E o \in Set(s) :
       IF o.why = "ok"
       THEN /\ applied' = pc[c].value
            /\ pc' = [pc EXCEPT ![c].at = "caching"]
            /\ owner' = OwnerWhileCaching(c)
       ELSE pc' = [pc EXCEPT ![c] = Idle] /\ owner' = Nobody /\ UNCHANGED applied
  /\ UNCHANGED <<source, tuning, deferred_overrun, untold, sets>>

Caches(c) ==
  /\ pc[c].at = "caching"
  /\ tuning' = pc[c].value
  /\ pc' = [pc EXCEPT ![c] = Idle]
  /\ owner' = IF owner = c THEN Nobody ELSE owner
  /\ UNCHANGED <<source, applied, deferred_overrun, untold, sets>>

-----------------------------------------------------------------------------
(* Streamers.  Each of their calls has the lock from beginning to end. *)

activate_at(s) ==
  /\ source # {} /\ owner = Nobody
  /\ \E src \in source : \E o \in start_streaming(src) :
       /\ source' = {o.source}
       \* A new stream has no overrun of the old one.
       /\ untold' = (untold /\ (o.source.overrun \/ ~src.overrun))
  /\ UNCHANGED <<owner, pc, applied, tuning, deferred_overrun, sets>>

deactivate_at(s) ==
  /\ source # {} /\ owner = Nobody
  /\ \E src \in source : \E o \in stop_streaming(src) : source' = {o.source}
  /\ UNCHANGED <<owner, pc, applied, tuning, deferred_overrun, untold, sets>>

ReadTells(s) ==
  /\ deferred_overrun[s]
  /\ deferred_overrun' = [deferred_overrun EXCEPT ![s] = FALSE]
  /\ untold' = FALSE
  /\ UNCHANGED <<source, owner, pc, applied, tuning, sets>>

\* Mutant: an overrun that came with samples is dropped.
Deferred_dropped(overrun, read) == FALSE
Deferred(overrun, read) == overrun /\ read > 0

\* A read that fails leaves the overrun with the source; one that gave samples tells of it next.
read(s, len) ==
  /\ ~deferred_overrun[s] /\ source # {} /\ owner = Nobody
  /\ \E src \in source : \E o \in read_samples_deadline(src, len) :
       LET gap  == o.source.overrun /\ ~src.overrun
           ok   == o.why = "ok"
       IN  /\ source' = {IF ok THEN take_overrun(o.source) ELSE o.source}
           /\ deferred_overrun' =
                [deferred_overrun EXCEPT ![s] = ok /\ Deferred(o.source.overrun, o.read)]
           /\ untold' = ((untold \/ gap) /\ ~(ok /\ o.source.overrun /\ o.read = 0))
  /\ UNCHANGED <<owner, pc, applied, tuning, sets>>

Streams ==
  /\ \E s \in source :
       \E r \in Arrivals(s) \cup Endings(s) : r.next + r.ready <= MaxSamples + 1 /\ source' = {r}
  /\ UNCHANGED <<owner, pc, applied, tuning, deferred_overrun, untold, sets>>

Next ==
  \/ from_args \/ Streams
  \/ \E c \in Controllers : SetBegins(c) \/ SetEnds(c) \/ Caches(c)
  \/ \E s \in Streamers :
       \/ activate_at(s) \/ deactivate_at(s) \/ ReadTells(s)
       \/ \E len \in 1..MaxSamples : read(s, len)

Spec == Init /\ [][Next]_vars

-----------------------------------------------------------------------------

\* When no setter is at work, the frequency the driver reports is the one the source accepted
\* last, whichever threads set it.
TuningIsTheSources == (\A c \in Controllers : pc[c] = Idle) => tuning = applied

\* A gap among the samples given is kept by the source or by a streamer until a read tells of it.
OverrunsAreTold ==
  untold => (\E s \in source : s.overrun) \/ (\E s \in Streamers : deferred_overrun[s])
=============================================================================
