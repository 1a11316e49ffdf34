--------------------------- MODULE HttpConnection ---------------------------
(***************************************************************************)
(* How HttpSource keeps its stream going (http_source.rs: start_stream,    *)
(* read_stream_into, fetch_samples, cleanup_stream, init, work, Drop): the *)
(* reader task of each connection fills a bounded channel, work() drains   *)
(* it, reconnects when it fails, and reconnects when the consumer asks for *)
(* a restart.  The server, the device behind it and other clients retuning *)
(* it are external.                                                        *)
(*                                                                         *)
(* What the samples are is left to StreamBreaks, how many are buffered to  *)
(* SweepCapacity: here the buffer is stocked (at its refill mark) or not.  *)
(* Reader tasks are numbered; a number is used again once its task ended.  *)
(* A request that is not answered fails, or waits until the server is back.*)
(***************************************************************************)
EXTENDS Integers

CONSTANTS
  Readers,        \* numbers of reader tasks
  ChannelDepth,   \* CHUNK_CHANNEL_DEPTH
  MaxFetches,     \* MAX_FETCHES_PER_WORK
  MaxFaults,      \* bounds what goes wrong outside
  MaxRequests     \* bounds restarts asked for, and external retunes

NoReader == 0

ASSUME ConnectionAssumption ==
  /\ Readers \subseteq Nat \ {NoReader} /\ Readers # {}
  /\ ChannelDepth \in Nat \ {0} /\ MaxFetches \in Nat \ {0}
  /\ MaxFaults \in Nat /\ MaxRequests \in Nat

VARIABLES
  \* external
  up,                 \* the server answers
  running,            \* the device streams (control_streaming)
  tuning,             \* who tuned the device last
  connection,         \* of each reader task
  \* the reader tasks
  reader,             \* "reading" | "holding" a chunk to send | "ended"
  queue,              \* chunks in the channel of chunk_rx
  \* the source
  listen_only,        \* set when it is built
  pc,                 \* where work() (or init) is
  resume,             \* where it goes on once start_stream is done
  chunk_rx,           \* the reader task it receives from, or NoReader
  stream_active, initial_tune_done,
  fetches, stocked,
  parser,             \* whose bytes the parser holds a partial packet of, or NoReader
  restart_pending,    \* in the shared StreamStats
  \* for the properties
  fetched,            \* work() has fetched something
  asked,              \* the consumer asked for a restart and has not got it
  wrote,              \* something was written to the server
  faults, requests

server_vars == <<up, running, tuning, connection>>
task_vars   == <<reader, queue>>
work_vars   == <<listen_only, pc, resume, chunk_rx, stream_active, initial_tune_done,
                 fetches, stocked, parser>>
ghost_vars  == <<fetched, asked, wrote, faults, requests>>
vars == <<server_vars, task_vars, work_vars, restart_pending, ghost_vars>>

TypeOK ==
  /\ up \in BOOLEAN /\ running \in BOOLEAN
  /\ tuning \in {"mission", "source", "other"}
  /\ connection \in [Readers -> {"open", "silent", "closed"}]
  /\ reader \in [Readers -> {"reading", "holding", "ended"}]
  /\ queue \in 0..ChannelDepth
  /\ pc \in {"configure", "control", "open", "idle", "refill", "broken", "produce",
             "failed", "dropped"}
  /\ resume \in {"init", "refill", "idle"}
  /\ chunk_rx \in Readers \cup {NoReader}
  /\ listen_only \in BOOLEAN
  /\ stream_active \in BOOLEAN /\ (stream_active => chunk_rx # NoReader \/ pc = "broken")
  /\ initial_tune_done \in BOOLEAN
  /\ fetches \in 0..MaxFetches /\ stocked \in BOOLEAN
  /\ parser \in Readers \cup {NoReader}
  /\ restart_pending \in BOOLEAN
  /\ fetched \in BOOLEAN /\ asked \in BOOLEAN /\ wrote \in BOOLEAN
  /\ faults \in 0..MaxFaults /\ requests \in 0..MaxRequests

Init ==
  /\ up = TRUE /\ running \in BOOLEAN /\ tuning = "mission"
  /\ connection = [r \in Readers |-> "closed"]
  /\ reader = [r \in Readers |-> "ended"] /\ queue = 0
  /\ listen_only \in BOOLEAN /\ pc = "configure" /\ resume = "init"
  /\ chunk_rx = NoReader /\ stream_active = FALSE /\ initial_tune_done = FALSE
  /\ fetches = 0 /\ stocked = FALSE /\ parser = NoReader
  /\ restart_pending = FALSE
  /\ fetched = FALSE /\ asked = FALSE /\ wrote = FALSE /\ faults = 0 /\ requests = 0
-----------------------------------------------------------------------------
\* Something goes wrong outside.
Fault == faults < MaxFaults /\ faults' = faults + 1

\* A connection is closed, or falls silent with its socket open.
ConnectionBreaks(r) ==
  /\ connection[r] = "open" /\ Fault
  /\ connection' \in {[connection EXCEPT ![r] = how] : how \in {"silent", "closed"}}
  /\ UNCHANGED <<up, running, tuning, task_vars, work_vars, restart_pending, fetched, asked,
                 wrote, requests>>

\* The server goes away with all its connections, or hangs; it comes back with
\* the device streaming or not.
ServerFails ==
  /\ up /\ Fault
  /\ up' = FALSE /\ running' \in BOOLEAN
  /\ connection' \in {[r \in Readers |-> how] : how \in {"silent", "closed"}}
  /\ UNCHANGED <<tuning, task_vars, work_vars, restart_pending, fetched, asked, wrote, requests>>

ServerReturns ==
  /\ ~up /\ up' = TRUE
  /\ UNCHANGED <<running, tuning, connection, task_vars, work_vars, restart_pending,
                 ghost_vars>>

\* Another client, or the consumer, retunes the device.
ExternalRetune ==
  /\ requests < MaxRequests /\ requests' = requests + 1
  /\ tuning' = "other"
  /\ UNCHANGED <<up, running, connection, task_vars, work_vars, restart_pending, fetched, asked,
                 wrote, faults>>

\* The consumer sets restart_pending, under the lock work() takes it under.
RequestRestart ==
  /\ requests < MaxRequests /\ requests' = requests + 1
  /\ restart_pending' = TRUE /\ asked' = TRUE
  /\ UNCHANGED <<server_vars, task_vars, work_vars, fetched, wrote, faults>>
-----------------------------------------------------------------------------
\* read_stream_into: a chunk arrives,
ReaderReceives(r) ==
  /\ reader[r] = "reading" /\ connection[r] = "open" /\ running
  /\ reader' = [reader EXCEPT ![r] = "holding"]
  /\ UNCHANGED <<server_vars, queue, work_vars, restart_pending, ghost_vars>>

\* is sent once the channel has room, or finds the receiver gone,
ReaderSends(r) ==
  /\ reader[r] = "holding"
  /\ IF chunk_rx = r
     THEN /\ queue < ChannelDepth /\ queue' = queue + 1
          /\ reader' = [reader EXCEPT ![r] = "reading"]
     ELSE /\ reader' = [reader EXCEPT ![r] = "ended"]
          /\ UNCHANGED queue
  /\ UNCHANGED <<server_vars, work_vars, restart_pending, ghost_vars>>

\* Mutant: no stall timeout.
BodyIsOver_closed(r) == connection[r] = "closed"

BodyIsOver(r) == connection[r] # "open" \/ ~running

\* or none arrives: the body ended or failed, or STREAM_STALL_TIMEOUT is over.
ReaderGivesUp(r) ==
  /\ reader[r] = "reading" /\ BodyIsOver(r)
  /\ reader' = [reader EXCEPT ![r] = "ended"]
  /\ UNCHANGED <<server_vars, queue, work_vars, restart_pending, ghost_vars>>
-----------------------------------------------------------------------------
\* A request to the server may have no effect: the server is away, or refuses it.
Refused == (~up /\ UNCHANGED faults) \/ Fault

\* control_streaming, whose failure is ignored.
ControlStreaming(on) ==
  /\ wrote' = TRUE
  /\ \/ up /\ running' = on /\ UNCHANGED faults
     \/ Refused /\ UNCHANGED running

\* Mutant: the task is left to notice by itself.
abort_reader_not == UNCHANGED reader

abort_reader ==
  reader' = [r \in Readers |-> IF r = chunk_rx THEN "ended" ELSE reader[r]]

reset_parser == parser' = NoReader

StopsDevice(active) == active /\ ~listen_only

\* cleanup_stream: the device is told to stop if the stream was active, the
\* reader task is aborted, and the parser forgets its partial packet.
cleanup_stream(active) ==
  /\ IF StopsDevice(active) THEN ControlStreaming(FALSE)
     ELSE UNCHANGED <<running, wrote, faults>>
  /\ abort_reader
  /\ queue' = 0 /\ chunk_rx' = NoReader
  /\ stream_active' = FALSE
  /\ reset_parser

\* Mutant: every start tunes.
TunedBy_always == "source"

\* The initial tune is written once.
TunedBy == IF initial_tune_done THEN tuning ELSE "source"

\* start_stream writes the connect/run switches and, the first time, the tuning;
\* that its writes fail is logged.
configure_rtsa_device ==
  /\ pc = "configure"
  /\ pc' = "control" /\ initial_tune_done' = TRUE
  /\ IF listen_only
     THEN UNCHANGED <<tuning, wrote, faults>>
     ELSE /\ wrote' = TRUE
          /\ \/ up /\ UNCHANGED faults
                /\ tuning' = TunedBy
             \/ Refused /\ UNCHANGED tuning
  /\ UNCHANGED <<up, running, connection, task_vars, resume, chunk_rx, stream_active,
                 fetches, stocked, parser, restart_pending, fetched, asked, requests,
                 listen_only>>

StartControl ==
  /\ pc = "control" /\ pc' = "open"
  /\ IF listen_only THEN UNCHANGED <<running, wrote, faults>> ELSE ControlStreaming(TRUE)
  /\ UNCHANGED <<up, tuning, connection, task_vars, resume, chunk_rx, stream_active,
                 initial_tune_done, fetches, stocked, parser, restart_pending, fetched, asked,
                 requests, listen_only>>

\* GET /stream is answered: a new channel and reader task take the place of
\* whatever chunk_rx and reader_task held.
StreamOpens(r) ==
  /\ pc = "open" /\ up
  /\ reader[r] = "ended" /\ r # chunk_rx
  /\ connection' = [connection EXCEPT ![r] = "open"]
  /\ reader' = [reader EXCEPT ![r] = "reading"]
  /\ queue' = 0 /\ chunk_rx' = r /\ stream_active' = TRUE
  /\ pc' = IF resume = "init" THEN "idle" ELSE resume
  /\ UNCHANGED <<up, running, tuning, resume, initial_tune_done, fetches, stocked, parser,
                 restart_pending, ghost_vars, listen_only>>

\* It fails: init gives up, work() goes on without a stream.
StreamFailsToOpen ==
  /\ pc = "open" /\ Refused
  /\ pc' = IF resume = "init" THEN "failed" ELSE resume
  /\ UNCHANGED <<server_vars, task_vars, resume, chunk_rx, stream_active,
                 initial_tune_done, fetches, stocked, parser, restart_pending, fetched, asked,
                 wrote, requests, listen_only>>
-----------------------------------------------------------------------------
\* work(): a restart asked for comes first; it empties the buffer.
WorkRestarts ==
  /\ pc = "idle" /\ restart_pending
  /\ restart_pending' = FALSE /\ asked' = FALSE
  /\ cleanup_stream(stream_active)
  /\ pc' = "configure" /\ resume' = "refill"
  /\ fetches' = 0 /\ stocked' = FALSE /\ fetched' = FALSE
  /\ UNCHANGED <<up, tuning, connection, initial_tune_done, requests, listen_only>>

WorkBegins ==
  /\ pc = "idle" /\ ~restart_pending
  /\ pc' = "refill" /\ fetches' = 0 /\ fetched' = FALSE
  /\ UNCHANGED <<server_vars, task_vars, resume, chunk_rx, stream_active,
                 initial_tune_done, stocked, parser, restart_pending, asked, wrote, faults,
                 requests, listen_only>>

\* The buffer needs no refill, or not another one.
RefillEnds ==
  /\ pc = "refill" /\ (stocked \/ fetches = MaxFetches)
  /\ pc' = "produce"
  /\ UNCHANGED <<server_vars, task_vars, resume, chunk_rx, stream_active,
                 initial_tune_done, fetches, stocked, parser, restart_pending, ghost_vars,
                 listen_only>>

Fetches == pc = "refill" /\ ~stocked /\ fetches < MaxFetches

\* Mutant: the refreshed statistics forget the request.
RestartCarried_not == FALSE

\* process_advanced_stream_data replaces the shared statistics, but for the
\* restart the consumer may have asked for.
RestartCarried == restart_pending

\* fetch_samples takes and parses everything queued.
FetchSucceeds ==
  /\ Fetches /\ chunk_rx # NoReader /\ queue > 0
  /\ fetches' = fetches + 1 /\ queue' = 0 /\ fetched' = TRUE
  /\ parser' \in {NoReader, chunk_rx}
  /\ stocked' \in BOOLEAN
  /\ restart_pending' = RestartCarried
  /\ UNCHANGED <<server_vars, reader, pc, resume, chunk_rx, stream_active,
                 initial_tune_done, asked, wrote, faults, requests, listen_only>>

\* It parks on an empty channel, and gives up after CHUNK_WAIT.
FetchFindsNothing ==
  /\ Fetches /\ chunk_rx # NoReader
  /\ queue = 0 /\ reader[chunk_rx] # "ended"
  /\ fetches' = fetches + 1 /\ pc' = "produce"
  /\ UNCHANGED <<server_vars, task_vars, resume, chunk_rx, stream_active,
                 initial_tune_done, stocked, parser, restart_pending, ghost_vars, listen_only>>

\* The bytes cannot be framed any more.  The task is still running.
FetchFailsToParse ==
  /\ Fetches /\ chunk_rx # NoReader /\ queue > 0
  /\ Fault
  /\ fetches' = fetches + 1 /\ queue' = 0
  /\ parser' \in {NoReader, chunk_rx}
  /\ pc' = "broken" /\ stream_active' = FALSE
  /\ UNCHANGED <<server_vars, reader, resume, chunk_rx, initial_tune_done, stocked,
                 restart_pending, fetched, asked, wrote, requests, listen_only>>

\* The reader task has ended: fetch_samples cleans up (with the stream active).
FetchFindsEnd ==
  /\ Fetches /\ chunk_rx # NoReader
  /\ queue = 0 /\ reader[chunk_rx] = "ended"
  /\ cleanup_stream(stream_active)
  /\ fetches' = fetches + 1 /\ pc' = "broken"
  /\ UNCHANGED <<up, tuning, connection, resume, initial_tune_done, stocked,
                 restart_pending, fetched, asked, requests, listen_only>>

FetchFindsNoStream ==
  /\ Fetches /\ chunk_rx = NoReader
  /\ fetches' = fetches + 1
  /\ pc' = "broken" /\ stream_active' = FALSE
  /\ UNCHANGED <<server_vars, task_vars, resume, chunk_rx, initial_tune_done, stocked,
                 parser, restart_pending, ghost_vars, listen_only>>

\* work() cleans up in any case, waits, reconnects and returns.
Reconnect ==
  /\ pc = "broken"
  /\ cleanup_stream(FALSE)
  /\ pc' = "configure" /\ resume' = "idle"
  /\ UNCHANGED <<up, tuning, connection, initial_tune_done, fetches, stocked,
                 restart_pending, fetched, asked, requests, listen_only>>

\* copy_out and produce: downstream takes what it has room for.
Produce(takes) ==
  /\ pc = "produce" /\ pc' = "idle"
  /\ stocked' = (stocked /\ ~takes)
  /\ UNCHANGED <<server_vars, task_vars, resume, chunk_rx, stream_active,
                 initial_tune_done, fetches, parser, restart_pending, ghost_vars, listen_only>>

\* Drop, between two calls of work().  The parser goes with the source.
Drop ==
  /\ pc \in {"idle", "failed"} /\ pc' = "dropped" /\ parser' = NoReader
  /\ IF stream_active
     THEN /\ abort_reader
          /\ chunk_rx' = NoReader /\ queue' = 0 /\ stream_active' = FALSE
     ELSE UNCHANGED <<reader, chunk_rx, queue, stream_active>>
  /\ UNCHANGED <<server_vars, resume, initial_tune_done, fetches, stocked,
                 restart_pending, ghost_vars, listen_only>>

TaskSteps(r) == ReaderReceives(r) \/ ReaderSends(r) \/ ReaderGivesUp(r)

WorkSteps ==
  \/ configure_rtsa_device \/ StartControl
  \/ \E r \in Readers : StreamOpens(r)
  \/ WorkRestarts \/ WorkBegins \/ RefillEnds
  \/ FetchSucceeds \/ FetchFindsNothing \/ FetchFindsEnd \/ FetchFindsNoStream
  \/ Reconnect \/ \E takes \in BOOLEAN : Produce(takes)

Next ==
  \/ \E r \in Readers : ConnectionBreaks(r)
  \/ ServerFails \/ ServerReturns \/ ExternalRetune \/ RequestRestart
  \/ \E r \in Readers : TaskSteps(r)
  \/ WorkSteps \/ StreamFailsToOpen \/ FetchFailsToParse \/ Drop

Spec == Init /\ [][Next]_vars

\* The runtime calls work() again and again, tasks run, timers expire, the server
\* comes back, and downstream takes samples again and again.
FairSpec ==
  /\ Spec
  /\ WF_vars(WorkSteps)
  /\ SF_vars(Produce(TRUE))
  /\ \A r \in Readers : WF_vars(TaskSteps(r))
  /\ WF_vars(ServerReturns)
-----------------------------------------------------------------------------
\* At most one connection is held, even between two streams: on the free licence
\* an old one "is the very connection the reconnect needs".
OneConnection ==
  \A r \in Readers : reader[r] # "ended" => r = chunk_rx

\* A partial packet never outlives its connection, where "its header would be
\* applied to the new stream's first bytes".
ParserHoldsThisStream == parser # NoReader => parser = chunk_rx

\* No path writes to a shared analyser: "nothing is written to it, on this start
\* or any reconnect".
ListenOnlyWritesNothing == listen_only => ~wrote

\* A restart or reconnect never undoes a retune made after the source's own.
ExternalRetuneStands ==
  [][tuning = "other" /\ initial_tune_done => tuning' = "other"]_vars

\* A dropped source leaves no reader task behind, whatever state it was in.
DropEndsReading == pc = "dropped" => \A r \in Readers : reader[r] = "ended"

Gone == pc \in {"failed", "dropped"}

\* Whatever broke, also a connection that fell silent, the source delivers again
\* (read_stream_into: not "parks the reader forever, and the source produces
\* nothing and never reconnects"), unless it only listens to a device nobody runs.
SourceRecovers == []<>(fetched \/ Gone \/ (listen_only /\ ~running))

\* A restart asked for is served, however often the stream breaks meanwhile.
RestartIsServed == asked ~> (~asked \/ Gone)

\* The reader task and the parser are always those of the one stream there is, also
\* after a failed start and a drop, and a listen-only source only reads.
ReaderServesItsStream ==
  TypeOK /\ OneConnection /\ ParserHoldsThisStream /\ DropEndsReading
    /\ ListenOnlyWritesNothing
=============================================================================
