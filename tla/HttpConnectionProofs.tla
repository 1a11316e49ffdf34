------------------------ MODULE HttpConnectionProofs ------------------------
(***************************************************************************)
(* One reader task, one stream, and nothing written by a source that only  *)
(* listens: for every number of reader tasks, depth of the channel, limit  *)
(* of fetches and number of faults and requests.                           *)
(***************************************************************************)
EXTENDS HttpConnection, TLAPS

\* While a stream is being started, and after a start that failed, nothing is left of
\* the one before; and a channel is held by an active stream, or by one that work() is
\* about to clean up.
StreamIsOwned ==
  /\ pc \in {"configure", "control", "open", "failed"} => chunk_rx = NoReader
  /\ chunk_rx # NoReader => stream_active \/ pc = "broken"

Inv == ReaderServesItsStream /\ StreamIsOwned

USE ConnectionAssumption DEF NoReader

LEMMA ServerSteps ==
  ASSUME Inv, \/ \E r \in Readers : ConnectionBreaks(r)
              \/ ServerFails \/ ServerReturns \/ ExternalRetune \/ RequestRestart
  PROVE  Inv'
<1> USE DEF Inv, ReaderServesItsStream, TypeOK, OneConnection, ParserHoldsThisStream,
            DropEndsReading, ListenOnlyWritesNothing, StreamIsOwned, Fault, task_vars,
            work_vars, server_vars, ghost_vars
<1>1. ASSUME NEW r \in Readers, ConnectionBreaks(r) PROVE Inv'
  BY <1>1 DEF ConnectionBreaks
<1>2. CASE ServerFails
  <2>1. /\ up' \in BOOLEAN /\ running' \in BOOLEAN
        /\ connection' \in [Readers -> {"open", "silent", "closed"}]
    BY <1>2, Zenon DEF ServerFails
  <2> QED BY <1>2, <2>1 DEF ServerFails
<1>3. CASE ServerReturns
  BY <1>3 DEF ServerReturns
<1>4. CASE ExternalRetune
  BY <1>4 DEF ExternalRetune
<1>5. CASE RequestRestart
  BY <1>5 DEF RequestRestart
<1> QED BY <1>1, <1>2, <1>3, <1>4, <1>5

\* A task that sends finds its own channel, or ends.
LEMMA ReaderSteps ==
  ASSUME Inv, NEW r \in Readers, TaskSteps(r)
  PROVE  Inv'
<1> USE DEF Inv, ReaderServesItsStream, TypeOK, OneConnection, ParserHoldsThisStream,
            DropEndsReading, ListenOnlyWritesNothing, StreamIsOwned,
            work_vars, server_vars, ghost_vars
<1>1. CASE ReaderReceives(r)
  BY <1>1 DEF ReaderReceives
<1>2. CASE ReaderSends(r)
  BY <1>2 DEF ReaderSends
<1>3. CASE ReaderGivesUp(r)
  BY <1>3 DEF ReaderGivesUp
<1> QED BY <1>1, <1>2, <1>3 DEF TaskSteps

\* What cleanup_stream leaves, and that a source that only listens does not write in it.
LEMMA CleanupLeavesNothing ==
  ASSUME Inv, NEW active \in BOOLEAN, cleanup_stream(active)
  PROVE  /\ chunk_rx' = NoReader /\ stream_active' = FALSE /\ queue' = 0 /\ parser' = NoReader
         /\ reader' = [r \in Readers |-> "ended"]
         /\ running' \in BOOLEAN /\ wrote' \in BOOLEAN /\ faults' \in 0..MaxFaults
         /\ listen_only => wrote' = wrote
<1>1. reader' = [r \in Readers |-> "ended"]
  BY DEF cleanup_stream, abort_reader, Inv, ReaderServesItsStream, OneConnection, TypeOK
<1>2. running' \in BOOLEAN /\ wrote' \in BOOLEAN
  <2>1. running \in BOOLEAN /\ wrote \in BOOLEAN
    BY DEF Inv, ReaderServesItsStream, TypeOK
  <2> QED BY <2>1, Zenon DEF cleanup_stream, ControlStreaming
<1>3. faults' \in 0..MaxFaults
  <2>1. faults' = faults \/ Fault
    BY DEF cleanup_stream, ControlStreaming, Refused
  <2> QED BY <2>1 DEF Fault, Inv, ReaderServesItsStream, TypeOK
<1>4. listen_only => wrote' = wrote
  BY DEF cleanup_stream, StopsDevice
<1>5. /\ chunk_rx' = NoReader /\ stream_active' = FALSE /\ queue' = 0 /\ parser' = NoReader
  BY Zenon DEF cleanup_stream, reset_parser
<1> QED BY <1>1, <1>2, <1>3, <1>4, <1>5

\* Starting a stream: it is opened only where nothing is left of another.
LEMMA StartSteps ==
  ASSUME Inv, \/ configure_rtsa_device \/ StartControl \/ StreamFailsToOpen
              \/ \E r \in Readers : StreamOpens(r)
  PROVE  Inv'
<1> USE DEF Inv, ReaderServesItsStream, TypeOK, OneConnection, ParserHoldsThisStream,
            DropEndsReading, ListenOnlyWritesNothing, StreamIsOwned, task_vars,
            work_vars, server_vars, ghost_vars
<1>1. CASE configure_rtsa_device
  <2>1. wrote' \in BOOLEAN /\ initial_tune_done' \in BOOLEAN
    BY <1>1, Zenon DEF configure_rtsa_device
  <2>2. tuning' \in {"mission", "source", "other"}
    BY <1>1 DEF configure_rtsa_device, TunedBy
  <2>3. faults' \in 0..MaxFaults
    BY <1>1 DEF configure_rtsa_device, Refused, Fault
  <2>4. listen_only => wrote' = wrote
    BY <1>1 DEF configure_rtsa_device
  <2> QED BY <1>1, <2>1, <2>2, <2>3, <2>4 DEF configure_rtsa_device
<1>2. CASE StartControl
  <2>1. running' \in BOOLEAN /\ wrote' \in BOOLEAN
    BY <1>2, Zenon DEF StartControl, ControlStreaming
  <2>2. faults' \in 0..MaxFaults
    BY <1>2 DEF StartControl, ControlStreaming, Refused, Fault
  <2>3. listen_only => wrote' = wrote
    BY <1>2 DEF StartControl
  <2> QED BY <1>2, <2>1, <2>2, <2>3 DEF StartControl
<1>3. CASE StreamFailsToOpen
  BY <1>3 DEF StreamFailsToOpen, Refused, Fault
<1>4. ASSUME NEW r \in Readers, StreamOpens(r) PROVE Inv'
  BY <1>4 DEF StreamOpens
<1> QED BY <1>1, <1>2, <1>3, <1>4

\* The two ways of replacing a stream, and the end of one found by a fetch.
LEMMA CleanupSteps ==
  ASSUME Inv, WorkRestarts \/ Reconnect \/ FetchFindsEnd
  PROVE  Inv'
<1>1. /\ chunk_rx' = NoReader /\ stream_active' = FALSE /\ queue' = 0 /\ parser' = NoReader
      /\ reader' = [r \in Readers |-> "ended"]
      /\ running' \in BOOLEAN /\ wrote' \in BOOLEAN /\ faults' \in 0..MaxFaults
      /\ listen_only => wrote' = wrote
  <2>1. stream_active \in BOOLEAN /\ FALSE \in BOOLEAN
    BY DEF Inv, ReaderServesItsStream, TypeOK
  <2>2. cleanup_stream(stream_active) \/ cleanup_stream(FALSE)
    BY DEF WorkRestarts, Reconnect, FetchFindsEnd
  <2> QED BY <2>1, <2>2, CleanupLeavesNothing
<1> USE DEF Inv, ReaderServesItsStream, TypeOK, OneConnection, ParserHoldsThisStream,
            DropEndsReading, ListenOnlyWritesNothing, StreamIsOwned
<1> HIDE DEF Inv
<1>2. stream_active' \in BOOLEAN
  BY <1>1, Zenon
<1>3. CASE WorkRestarts
  <2>1. restart_pending' \in BOOLEAN /\ asked' \in BOOLEAN /\ stocked' \in BOOLEAN /\ fetched' \in BOOLEAN
    BY <1>3, Zenon DEF WorkRestarts
  <2> QED BY <1>1, <1>2, <1>3, <2>1 DEF WorkRestarts, Inv
<1>4. CASE Reconnect
  BY <1>1, <1>2, <1>4 DEF Reconnect, Inv
<1>5. CASE FetchFindsEnd
  BY <1>1, <1>2, <1>5 DEF FetchFindsEnd, Fetches, Inv
<1> QED BY <1>3, <1>4, <1>5

\* work() on the stream it has, and without one.
LEMMA WorkStepsOnStream ==
  ASSUME Inv, \/ WorkBegins \/ RefillEnds \/ FetchSucceeds \/ FetchFindsNothing
              \/ FetchFindsNoStream \/ FetchFailsToParse
              \/ \E takes \in BOOLEAN : Produce(takes)
  PROVE  Inv'
<1> USE DEF Inv, ReaderServesItsStream, TypeOK, OneConnection, ParserHoldsThisStream,
            DropEndsReading, ListenOnlyWritesNothing, StreamIsOwned, task_vars,
            work_vars, server_vars, ghost_vars
<1>1. CASE WorkBegins
  <2>1. fetched' \in BOOLEAN
    BY <1>1, Zenon DEF WorkBegins
  <2> QED BY <1>1, <2>1 DEF WorkBegins
<1>2. CASE RefillEnds
  BY <1>2 DEF RefillEnds
<1>3. CASE FetchSucceeds
  BY <1>3 DEF FetchSucceeds, Fetches, RestartCarried
<1>4. CASE FetchFindsNothing
  BY <1>4 DEF FetchFindsNothing, Fetches
<1>5. CASE FetchFindsNoStream
  <2>1. stream_active' \in BOOLEAN
    BY <1>5, Zenon DEF FetchFindsNoStream
  <2> QED BY <1>5, <2>1 DEF FetchFindsNoStream, Fetches
<1>6. CASE FetchFailsToParse
  <2>1. stream_active' \in BOOLEAN
    BY <1>6, Zenon DEF FetchFailsToParse
  <2> QED BY <1>6, <2>1 DEF FetchFailsToParse, Fetches, Fault
<1>7. ASSUME NEW takes \in BOOLEAN, Produce(takes) PROVE Inv'
  BY <1>7 DEF Produce
<1> QED BY <1>1, <1>2, <1>3, <1>4, <1>5, <1>6, <1>7

\* A dropped source leaves no task: one that is not active holds no channel.
LEMMA DropStep ==
  ASSUME Inv, Drop
  PROVE  Inv'
<1> USE DEF Inv, ReaderServesItsStream, TypeOK, OneConnection, ParserHoldsThisStream,
            DropEndsReading, ListenOnlyWritesNothing, StreamIsOwned, server_vars, ghost_vars
<1>1. stream_active' \in BOOLEAN
  BY Zenon DEF Drop
<1>2. CASE stream_active
  <2>1. chunk_rx' = NoReader /\ stream_active' = FALSE /\ queue' = 0
    BY <1>2, Zenon DEF Drop
  <2>2. reader' = [r \in Readers |-> "ended"]
    BY <1>2 DEF Drop, abort_reader
  <2> QED BY <1>1, <2>1, <2>2 DEF Drop
<1>3. CASE ~stream_active
  <2>1. chunk_rx = NoReader /\ UNCHANGED <<reader, chunk_rx, queue, stream_active>>
    BY <1>3 DEF Drop
  <2> QED BY <1>1, <2>1 DEF Drop
<1> QED BY <1>2, <1>3

\* The reader task and the parser are always those of the one stream there is, also
\* after a failed start and a drop, and a listen-only source never writes.
THEOREM ReaderAlwaysServesItsStream == Spec => []ReaderServesItsStream
<1>1. Init => Inv
  <2> SUFFICES ASSUME Init PROVE Inv
    OBVIOUS
  <2>1. /\ up \in BOOLEAN /\ stream_active \in BOOLEAN /\ initial_tune_done \in BOOLEAN
        /\ stocked \in BOOLEAN /\ restart_pending \in BOOLEAN
        /\ fetched \in BOOLEAN /\ asked \in BOOLEAN /\ wrote \in BOOLEAN
    BY Zenon DEF Init
  <2> QED BY <2>1 DEF Init, Inv, ReaderServesItsStream, TypeOK, OneConnection,
       ParserHoldsThisStream, DropEndsReading, ListenOnlyWritesNothing, StreamIsOwned
<1>2. Inv /\ [Next]_vars => Inv'
  <2> SUFFICES ASSUME Inv, [Next]_vars PROVE Inv'
    OBVIOUS
  <2>1. CASE \/ \E r \in Readers : ConnectionBreaks(r)
             \/ ServerFails \/ ServerReturns \/ ExternalRetune \/ RequestRestart
    BY <2>1, ServerSteps
  <2>2. ASSUME NEW r \in Readers, TaskSteps(r) PROVE Inv'
    BY <2>2, ReaderSteps
  <2>3. CASE \/ configure_rtsa_device \/ StartControl \/ StreamFailsToOpen
             \/ \E r \in Readers : StreamOpens(r)
    BY <2>3, StartSteps
  <2>4. CASE WorkRestarts \/ Reconnect \/ FetchFindsEnd
    BY <2>4, CleanupSteps
  <2>5. CASE \/ WorkBegins \/ RefillEnds \/ FetchSucceeds \/ FetchFindsNothing
             \/ FetchFindsNoStream \/ FetchFailsToParse
             \/ \E takes \in BOOLEAN : Produce(takes)
    BY <2>5, WorkStepsOnStream
  <2>6. CASE Drop
    BY <2>6, DropStep
  <2>7. CASE UNCHANGED vars
    BY <2>7 DEF vars, server_vars, task_vars, work_vars, ghost_vars, Inv,
       ReaderServesItsStream, TypeOK, OneConnection, ParserHoldsThisStream,
       DropEndsReading, ListenOnlyWritesNothing, StreamIsOwned
  <2> QED BY <2>1, <2>2, <2>3, <2>4, <2>5, <2>6, <2>7 DEF Next, WorkSteps
<1>3. Inv => ReaderServesItsStream
  BY DEF Inv
<1> QED BY <1>1, <1>2, <1>3, PTL DEF Spec

\* No restart and no reconnect takes back a retune that came after the source's own:
\* only the first configuration tunes.
THEOREM ExternalRetuneAlwaysStands == Spec => ExternalRetuneStands
<1>1. [Next]_vars => [tuning = "other" /\ initial_tune_done => tuning' = "other"]_vars
  <2> SUFFICES ASSUME Next, tuning = "other", initial_tune_done PROVE tuning' = "other"
    OBVIOUS
  <2>1. CASE configure_rtsa_device
    BY <2>1 DEF configure_rtsa_device, TunedBy
  <2>2. CASE \/ \E r \in Readers : ConnectionBreaks(r)
             \/ ServerFails \/ ServerReturns \/ ExternalRetune \/ RequestRestart
    BY <2>2 DEF ConnectionBreaks, ServerFails, ServerReturns, ExternalRetune,
                RequestRestart, server_vars
  <2>3. CASE \E r \in Readers : TaskSteps(r)
    BY <2>3 DEF TaskSteps, ReaderReceives, ReaderSends, ReaderGivesUp, server_vars
  <2>4. CASE \/ StartControl \/ StreamFailsToOpen \/ \E r \in Readers : StreamOpens(r)
             \/ WorkRestarts \/ Reconnect \/ FetchFindsEnd
    BY <2>4 DEF StartControl, StreamFailsToOpen, StreamOpens, WorkRestarts, Reconnect,
                FetchFindsEnd, server_vars
  <2>5. CASE \/ WorkBegins \/ RefillEnds \/ FetchSucceeds \/ FetchFindsNothing
             \/ FetchFindsNoStream \/ FetchFailsToParse \/ Drop
             \/ \E takes \in BOOLEAN : Produce(takes)
    BY <2>5 DEF WorkBegins, RefillEnds, FetchSucceeds, FetchFindsNothing,
                FetchFindsNoStream, FetchFailsToParse, Drop, Produce, server_vars
  <2> QED BY <2>1, <2>2, <2>3, <2>4, <2>5 DEF Next, WorkSteps
<1> QED BY <1>1, PTL DEF Spec, ExternalRetuneStands
=============================================================================
