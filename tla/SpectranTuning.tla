--------------------------- MODULE SpectranTuning ---------------------------
(***************************************************************************)
(* Which tuning the device is left on (unified_source.rs): the caller's    *)
(* setters and the reader task's reconnects both write it, each with a PUT *)
(* of the whole tuple, and a server that restarts comes back on its        *)
(* mission's.  A setter is a call on &mut self, so setters, stop and start *)
(* exclude each other; the reader task runs beside them.                   *)
(*                                                                         *)
(* A PUT is applied by the server, or not, in the step that ends it; one   *)
(* whose answer is lost may have been applied.  A PUT abandoned with its   *)
(* task is not applied later.                                              *)
(***************************************************************************)
EXTENDS Integers

CONSTANTS
  Fields,         \* of CaptureTuning
  Values,         \* of a field
  Mission,        \* the tuning a server restarts on (external)
  Configured,     \* the caller's SpectranConfig
  Requests,       \* what the caller may set: pairs of field and value
  MaxReconnects,  \* MAX_RECONNECT_ATTEMPTS, or 0 without auto_reconnect
  MaxReboots,     \* bounds the server's restarts
  MaxHealthy,     \* bounds the connections that last RECONNECT_HEALTHY_AFTER
  MaxSessions     \* bounds the caller's starts

Tuning == [Fields -> Values]
None == [none |-> TRUE]

TuningAssumption ==
  /\ Mission \in Tuning /\ Configured \in Tuning
  /\ Requests \subseteq Fields \X Values
  /\ None \notin Tuning
  /\ MaxReconnects \in Nat /\ MaxReboots \in Nat /\ MaxHealthy \in Nat
  /\ MaxSessions \in Nat \ {0}

VARIABLES
  up, device,             \* the server, and the tuning of its device (external)
  reader,                 \* where the reader task is
  attempts,               \* reconnects
  desired,                \* its copy of http_tuning
  http_tuning,            \* shared with the setters; None while stopped
  config,                 \* the source's copy of its configuration
  setting,                \* the tuple a setter has on its way, or None
  \* for the properties
  live,                   \* the stream is one of this server's
  set_failed,             \* a setter has failed this session
  raced,                  \* the reader last applied a tuning replaced meanwhile
  tuned,                  \* a PUT was applied since the server started
  reboots, healthy_losses, session

reader_vars == <<reader, attempts, desired, live>>
caller_vars == <<config, setting, set_failed, session>>
bound_vars  == <<reboots, healthy_losses>>
vars == <<up, device, http_tuning, raced, tuned, reader_vars, caller_vars, bound_vars>>

TypeOK ==
  /\ up \in BOOLEAN /\ device \in Tuning
  /\ reader \in {"connecting", "streaming", "pausing", "tuning", "ended", "none"}
  /\ attempts \in 0..MaxReconnects
  /\ desired \in Tuning /\ http_tuning \in Tuning \cup {None}
  /\ (reader \in {"connecting", "streaming", "pausing", "tuning"} => http_tuning # None)
  /\ config \in Tuning /\ setting \in Tuning \cup {None}
  /\ live \in BOOLEAN
  /\ set_failed \in BOOLEAN /\ raced \in BOOLEAN /\ tuned \in BOOLEAN
  /\ reboots \in 0..MaxReboots /\ healthy_losses \in 0..MaxHealthy
  /\ session \in 1..MaxSessions

\* new(): init_http_source has tuned the device and spawned the reader task.
Init ==
  /\ up = TRUE /\ device = Configured
  /\ reader = "connecting" /\ attempts = 0
  /\ desired = Configured /\ http_tuning = Configured
  /\ config = Configured /\ setting = None
  /\ live = FALSE
  /\ set_failed = FALSE /\ raced = FALSE /\ tuned = TRUE
  /\ reboots = 0 /\ healthy_losses = 0 /\ session = 1
-----------------------------------------------------------------------------
\* The server goes down with every connection, and comes back on its mission.
ServerDies ==
  /\ up /\ reboots < MaxReboots
  /\ up' = FALSE /\ live' = FALSE /\ tuned' = FALSE
  /\ reboots' = reboots + 1
  /\ UNCHANGED <<device, http_tuning, raced, reader, attempts, desired,
                 caller_vars, healthy_losses>>

ServerBoots ==
  /\ ~up
  /\ up' = TRUE /\ device' = Mission
  /\ UNCHANGED <<http_tuning, raced, tuned, reader_vars, caller_vars, bound_vars>>

\* The server applies a tuple, or nothing arrives.
Applies(tuple) == up /\ device' = tuple /\ tuned' = TRUE
NothingArrives == UNCHANGED <<device, tuned>>
-----------------------------------------------------------------------------
\* should_reconnect, with the attempts already spent.
MayReconnect(spent) == spent < MaxReconnects

StreamOpens ==
  /\ reader = "connecting" /\ up
  /\ reader' = "streaming" /\ live' = TRUE
  /\ UNCHANGED <<up, device, http_tuning, raced, tuned, attempts, desired, caller_vars, bound_vars>>

\* start_stream fails: a pause, and start_stream again.
StreamFailsToOpen ==
  /\ reader = "connecting"
  /\ \/ /\ MayReconnect(attempts)
        /\ attempts' = attempts + 1
        /\ UNCHANGED reader
     \/ /\ ~MayReconnect(attempts)
        /\ reader' = "ended"
        /\ UNCHANGED attempts
  /\ UNCHANGED <<up, device, http_tuning, raced, tuned, desired, live,
                 caller_vars, bound_vars>>

\* Mutant: every connection earns the attempts back.
Spent_reset(healthy) == 0

\* What a lost stream leaves of the attempts.
Spent(healthy) == IF healthy THEN 0 ELSE attempts

\* The stream ends or fails; it may have lasted long enough to count as healthy.
StreamIsLost(healthy) ==
  LET spent == Spent(healthy)
  IN  /\ reader = "streaming"
      /\ healthy => healthy_losses < MaxHealthy
      /\ healthy_losses' = IF healthy THEN healthy_losses + 1 ELSE healthy_losses
      /\ live' = FALSE
      /\ \/ /\ MayReconnect(spent)
            /\ attempts' = spent + 1 /\ reader' = "pausing"
         \/ /\ ~MayReconnect(spent)
            /\ attempts' = spent /\ reader' = "ended"
      /\ UNCHANGED <<up, device, http_tuning, raced, tuned, desired, caller_vars, reboots>>

\* After the pause the reader takes its copy of the tuning to restore.
TuningIsCopied ==
  /\ reader = "pausing"
  /\ reader' = "tuning" /\ desired' = http_tuning
  /\ UNCHANGED <<up, device, http_tuning, raced, tuned, attempts, live,
                 caller_vars, bound_vars>>

\* configure_capture with the copy; the stream is attempted in any case.
TuningIsRestored ==
  /\ reader = "tuning"
  /\ reader' = "connecting"
  /\ \/ Applies(desired) /\ raced' = (desired # http_tuning)
     \/ NothingArrives /\ UNCHANGED raced
  /\ UNCHANGED <<up, http_tuning, attempts, desired, live, caller_vars,
                 bound_vars>>
-----------------------------------------------------------------------------
\* Mutant: the reconnect loop keeps the tuning the stream was started with.
publish_tuning_not(field, value) == http_tuning

publish_tuning(field, value) ==
  IF http_tuning = None THEN None ELSE [http_tuning EXCEPT ![field] = value]

\* A setter publishes the caller's intent and sends the whole tuple.
SetBegins(field, value) ==
  /\ setting = None
  /\ http_tuning' = publish_tuning(field, value)
  /\ setting' = [config EXCEPT ![field] = value]
  /\ UNCHANGED <<up, device, raced, tuned, reader_vars, config, set_failed, session,
                 bound_vars>>

SetSucceeds ==
  /\ setting # None
  /\ Applies(setting)
  /\ config' = setting /\ setting' = None
  /\ raced' = (raced /\ set_failed)
  /\ UNCHANGED <<up, http_tuning, reader_vars, set_failed, session, bound_vars>>

\* An error leaves config alone, whether or not the server applied the tuple.
SetFails ==
  /\ setting # None
  /\ Applies(setting) \/ NothingArrives
  /\ setting' = None /\ set_failed' = TRUE
  /\ UNCHANGED <<up, http_tuning, raced, reader_vars, config, session, bound_vars>>

\* stop_streaming aborts the task; its PUT may have been applied already.
stop_streaming ==
  /\ setting = None /\ (reader # "none" \/ http_tuning # None)
  /\ reader' = "none" /\ http_tuning' = None /\ live' = FALSE
  /\ NothingArrives \/ (reader = "tuning" /\ Applies(desired))
  /\ UNCHANGED <<up, raced, attempts, desired, caller_vars, bound_vars>>

\* start_streaming with no reader task running: init_http_source tunes the device
\* to config and spawns a reader.
start_streaming ==
  /\ setting = None /\ reader \in {"ended", "none"}
  /\ session < MaxSessions
  /\ session' = session + 1
  /\ Applies(config)
  /\ http_tuning' = config /\ desired' = config
  /\ reader' = "connecting" /\ attempts' = 0
  /\ live' = FALSE
  /\ set_failed' = FALSE /\ raced' = FALSE
  /\ UNCHANGED <<up, config, setting, bound_vars>>

\* It fails: the server is away, or its answer is lost.  What a reader task that
\* ended by itself left behind stays.
start_fails ==
  /\ setting = None /\ reader \in {"ended", "none"}
  /\ session < MaxSessions
  /\ session' = session + 1
  /\ Applies(config) \/ NothingArrives
  /\ reader' = "none"
  /\ UNCHANGED <<up, http_tuning, raced, attempts, desired, live, config,
                 setting, set_failed, bound_vars>>

ReaderSteps ==
  StreamOpens \/ StreamFailsToOpen \/ TuningIsCopied \/ TuningIsRestored

Next ==
  \/ ServerDies \/ ServerBoots
  \/ ReaderSteps
  \/ \E healthy \in BOOLEAN : StreamIsLost(healthy)
  \/ \E request \in Requests : SetBegins(request[1], request[2])
  \/ SetSucceeds \/ SetFails
  \/ stop_streaming \/ start_streaming \/ start_fails

Spec == Init /\ [][Next]_vars

\* Pauses end, and requests are answered or time out.
FairSpec == Spec /\ WF_vars(ReaderSteps)
-----------------------------------------------------------------------------
\* The device, what a reconnect would restore and what the source reports are
\* one tuning between the caller's calls, unless a setter failed, the server
\* restarted and nobody has tuned it since, or the reader has just restored a
\* tuning that was replaced while it did (a reconnect "restores the frequency the
\* caller asked for rather than the one it is replacing").
TuningHolds ==
  http_tuning # None /\ setting = None /\ ~set_failed
    => /\ config = http_tuning
       /\ tuned /\ ~raced => device = http_tuning

\* "A server that accepts, sends one packet and hangs up would otherwise ...
\* reconnect forever": the reader comes to rest, streaming or given up.
ReconnectingEnds == <>[](reader \in {"streaming", "ended", "none"})

\* A reconnect racing a setter leaves the device on what the caller asked for,
\* of a server that did not restart.
CallersRequestWins ==
  reader = "streaming" /\ setting = None /\ ~set_failed /\ reboots = 0
    => device = config

\* Device, shared tuning and configuration agree, as far as the code can know.
TuningIsKept == TypeOK /\ TuningHolds
=============================================================================
