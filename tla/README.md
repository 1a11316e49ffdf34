# A TLA+ model of sdr-aaronia-rs

`sdr-aaronia-rs` receives IQ samples from Aaronia Spectran V6 analysers, over the
HTTP interface of the RTSA-Suite or through the vendor's SDK, and offers them as
FutureSDR blocks, as a Rust API and through C, SoapySDR, seify and Python bindings.
This directory holds TLA+ modules translated from the crate's sources, the TLC
configurations that check them on small instances, and proofs, checked by TLAPS, of
the properties that hold for every instance.

1. [The system](#1-the-system) - inventory: parts, state, operations, hard behaviours
2. [The modules](#2-the-modules) - which module models which code, and how
3. [The runs](#3-the-runs) - what each shows, its bounds, fairness
4. [The proofs](#4-the-proofs) - what is proved, from what, and how
5. [Where code and documents disagree](#5-where-code-and-documents-disagree)
6. [What is not modelled](#6-what-is-not-modelled)
7. [What could follow](#7-what-could-follow)

## 1. The system

File names are those of the crate's `src/`, unless they say otherwise.

| Part | State it keeps | Operations | What is hard | What makes it right |
|---|---|---|---|---|
| **HttpSource**, FutureSDR block (`http_source.rs`) | sample buffer; breaks queued against it; geometry epoch and published geometry; parser; drop detector; reader task and its channel; shared statistics; link check | `init`, `work` (refill, publish, restart), `fetch_samples`, `start_stream`, `cleanup_stream`, `Drop` | breaks are offsets into a buffer that is filled, trimmed, copied and thrown away; a reader task beside `work`; reconnect and restart between any two steps; a server that falls silent; three writers of the statistics | each gap and each retune reaches the consumer at its exact sample; no trim of samples just fetched; one connection at a time; every fault is recovered from; a listen-only source writes nothing; a verdict on the link blames the right party |
| **Drop detector** (`http_streaming.rs`) | end and duration of the last packet, jitter peak, counters | `observe`, `resync`, `reset` | its tolerance learns from the jitter it tolerates | a lost packet is always reported, print rounding never |
| **Stream parser** (`http_streaming.rs`) | bytes not framed yet, how many of them are consumed, bytes to skip | `process_data`, `process_data_recovering`, `reset` | packets and chunks overlap arbitrarily; recovery after a bad header; payloads over the cap | what is handed on is the wire's; what is not is told; no payload byte is read as a header |
| **Link probe** (`link_budget.rs`) | throughput meter, header scan | `measure_link_throughput` | streams that stall, end, come in a burst or never say their rate | it measures the stream or fails, in bounded time |
| **SpectranSource over HTTP** (`unified_source.rs`) | reader task, channel, stash, overrun mark, labels of the last read, shared tuning, configuration | `new`, `read_samples`, `read_samples_deadline`, `take_overrun`, `start_streaming`, `stop_streaming`, setters | reader and caller interleave; reads split and join chunks; setters race reconnects; bounded reconnects and first attempts | a read is one contiguous piece under one geometry, flagged if it follows a gap; the device is left on what the caller asked for |
| **Native SDK** (`native_sdk.rs`, `sdk_source.rs`, `detection.rs`) | process-wide count of users, handle, device, what is kept open, carry-over of the last packet, observed geometry, pin | discover, open, configure, start, stop, reads (mono, dual, spectra), sweeps, health | each vendor call may fail; devices come and go; the SDK chooses packet sizes; a consumed packet is gone; settings depend on each other | samples come in order and once; holes are told; the SDK stays up for the others; the device opened is the one asked for and configured as told |
| **Transmit blocks** (`http_sink.rs`, `sdk_sink.rs`) | batch, queue to the sender task, end of the last window | `push_batch`, `work`, `Drop` | pushes that fail, time out and come late; the end of the input | each sample is sent, held or counted; windows do not overlap; the block ends |
| **HTTP client** (`http_endpoints.rs`) | none between calls | searches of the configuration tree, setters with read-back, probes with restore, capabilities, sensors | RTSA accepts writes it ignores; other clients write meanwhile; each request may fail | answers are the device's; a probe leaves no trace; a verdict is earned |
| **Recordings** (`file_source.rs`) | chunk index, position, scan hint, filter | `open`, `read_samples`, `seek_to_sample`, `reset` | truncated and damaged files, payload that looks like a header, interleaved sub-streams | reading from a position gives what the recording holds there, to its end |
| **C API** (`c_api.rs`) | objects behind pointers, a message per thread, a staging buffer | entry points, frees | what a call leaves behind for the next | the message is the last call's; nothing is freed early or leaked |
| **Python** (`python-aaronia/src/lib.rs`), **seify** (`seify_impl.rs`) | a source, a scratch; a cache and a deferred overrun | start, stop, reads, loop, doctor; setters, streamers | calls overlap where locks are given up | a source is replaced whole or not at all; gaps are told |

How they interact. `HttpSource` and `SpectranSource` are two independent users of
`http_endpoints.rs` and `http_streaming.rs`. Each has a reader task that puts what
it receives on a bounded channel. `HttpSource`'s reader forwards chunks of bytes,
and `work` parses them; `SpectranSource`'s reader parses too, reconnects by itself,
and sends packets. Both feed every packet's timestamps to a `DropDetector`.
`SpectranSource` shares one mutex, the tuning, with its reader; `HttpSource` shares
one, the statistics, with its consumer, who asks for restarts there, and with the
health probes it spawns. The native backend has no task: the caller's thread polls the
SDK, of which all sources and sinks of a process share one initialisation. The C,
seify and Python layers call `SpectranSource` and know nothing of its backends.

The hazards this gives rise to are listed, at the line of code where each bites, in
`PROJECT.json`, each with the properties aimed at it.

## 2. The modules

| Module | Models | Code |
|---|---|---|
| `StreamTypes` | samples, geometries, when a geometry counts as moved | `stream_break.rs`; `note_geometry`, `rate_moved` |
| `BreakContract` | the **abstract** stream: labelled samples | `stream_break.rs`, "The contract"; what `note_break`, `note_trim`, `note_buffer_cleared`, `publish_breaks` amount to |
| `StreamBreaks` | the **detailed** bookkeeping, a queue of offsets | `http_source.rs`: `work`, `fetch_samples`, `process_advanced_stream_data`, `note_*`, `publish_breaks` |
| `SweepCapacity` | how long the buffer gets | `http_source.rs`: `buffer_capacity`, `catch_up_headroom`, `refill_capacity`, the refill loop and the trim |
| `DropDetector` | the detector | `http_streaming.rs`: `observe`, `tolerance_for`, `resync`, `reset` |
| `StreamParser` | framing | `http_streaming.rs`: `scan_packet_header`, `StreamParser` |
| `HttpConnection` | reader tasks, reconnects, restarts, `Drop` | `http_source.rs`: `start_stream`, `read_stream_into`, `fetch_samples`, `cleanup_stream`, `init`, `work`, `Drop` |
| `ThroughputMeter`, `LinkCheck`, `LinkProbe` | the meter, and its two users | `link_budget.rs`; `http_source.rs`: `LinkCheck`, `note_device_rate`, `report_link_budget`, the gap report and its probe, the statistics |
| `ConnectRetry` | first connections | `unified_source.rs`: `retry_connect`, `init_http_source` |
| `SpectranReads` | reader task, channel, reads, stash, overrun mark | `unified_source.rs`: reader task, `read_samples_deadline`, `take_overrun`, stop and start |
| `SpectranTuning` | who tunes the device, and to what | `unified_source.rs`: setters, `publish_tuning`, the reconnect path, stop and start |
| `SourceOpening` | from an installation to an open device | `detection.rs`, `native_sdk.rs`: `rescan_devices`, `enum_device`, `open_device`; `unified_source.rs`: `init_native_sdk` |
| `ReceiverConfig`, `NativeLifecycle` | what is written to a device; who holds the SDK and the device | `native_sdk.rs`: `configure_iq_*`, `initialize` to `Drop`; `unified_source.rs`, `sdk_source.rs`, `sdk_sink.rs` over them |
| `NativeReads` | reads from the SDK's packet queue | `native_sdk.rs`: `read_samples_within`, `read_samples_dual_within`, `stop_streaming`; `unified_source.rs`: the native loop of `read_samples_deadline` |
| `NativeSpectra` | sweeps, spectra, the health walk | `native_sdk.rs`: `configure_sweepsa_with_reference_level`, `read_spectra`, `get_health_and_gps` |
| `SinkBlocks` | both transmit blocks | `http_sink.rs`; `sdk_sink.rs`: `SdkSinkBlock` |
| `ConfigTree`, `RemoteConfig` | searches of the server's trees; the calls that write | `http_endpoints.rs`, `capabilities.rs` |
| `RtsaFile` | opening, reading and seeking a recording | `file_source.rs` |
| `SourceFacade` | the **abstract** source the bindings call | `unified_source.rs`: the public operations |
| `CApi`, `PythonBinding`, `SeifyDriver` | the bindings | `c_api.rs`, `unified_sink.rs`; `python-aaronia/src/lib.rs`; `seify_impl.rs` |

`BreakContractProofs`, `StreamBreaksProofs`, `DropDetectorProofs`, `StreamIntakeProofs`,
`HttpConnectionProofs`, `SpectranHttpProofs`, `NativeLifecycleProofs` and
`NativeReadsProofs` hold the theorems; the `MC...` modules give constants their values for TLC. Every definition that stands for
code is mapped to its lines in `PROJECT.json`. A definition whose comment begins with *Mutant* is not part of the model: it is what the definition after it would
be with a plausible bug in it, kept to show that the properties notice.

**Composition.** Components that interact only through what one hands the other are
composed in the module that has both sides: `StreamBreaks` over `BreakContract`,
`NativeLifecycle` over `ReceiverConfig`, the bindings over `SourceFacade`, `LinkCheck`
and `LinkProbe` over `ThroughputMeter`, `RemoteConfig` over `ConfigTree`. Three MC modules hold
components *side by side* instead: `MCStreamIntake` (`SweepCapacity`, `StreamParser`,
`LinkCheck`), `MCSpectranHttp` (`SpectranReads`, `SpectranTuning`) and `MCAccess` (all that
is in the run `access`). Each initial state chooses one component (`component`, `part`);
the variables of the others stay unused, so that the numbers of states add up where a
product would multiply them. Nothing is claimed there about an interaction: there is
none between these components except through what each module models as its
environment. A property of such a module speaks of the states of its component.

### 2.1 The labelled stream and its bookkeeping

A consumer that gives `HttpSource` a `StreamBreakSink` is promised that every
discontinuity and every geometry is reported at an absolute output index before
the samples behind it are published. `BreakContract` says this without offsets: each
sample carries the label `[gap, ann]`, whether a gap is reported right before it and
which geometry has last been announced at it. A packet is queued under labels
(`Arrive`, which may also give up the oldest samples), is lost (`Lose`), the queue is
thrown away (`Clear`) or produced (`Produce`).

`StreamBreaks` is what the code does instead: `pending_breaks`, offsets into the
sample buffer, that `note_break` appends to, `note_trim` moves and merges,
`note_buffer_cleared` drops, `Rebase` shifts, and `publish_breaks` hands out one at
a time (`ReportBoundary`), before the samples are published (`Publish`). `work` is
the program counter `pc`: `refill`, `sweep` (one step per packet), `copy`, `publish`.
`WorkRestarts` and `FetchFails` are the two ways the stream is replaced. The
refinement reads labels off the offsets (`Labels`): a break at an offset labels the
sample there, breaks behind the last sample are the label of the next.

The server numbers the samples it takes (`nr`) and stamps them (`t`): loss and skew
make the two disagree. A timestamp is off by whole samples or not at all; what counts
as off is left to `DropDetector`.

### 2.2 Buffer capacity

`SweepCapacity` keeps lengths only: samples buffered, bytes of the sweep not parsed
yet, bytes the parser holds of a packet begun earlier. A sweep takes everything the
channel holds. Packet headers take no bytes in the model, so a chunk gives at least as
many samples as it could in the code. It covers formats with a fixed sample width; a JSON
stream has none, its trim does discard, and `StreamBreaks` is configured as that case.

### 2.3 Drop detector

`Packet(dur, jump, e1, e2)` is a packet of true duration `dur`, a true distance `jump`
from the one before it, printed with errors `e1` and `e2`; `observe` is applied to
what is printed. `truth` remembers what was true, so that the properties can speak of
it. Seconds, `f64` in the code, are integers in units of the print resolution (1 us);
the decay of the jitter peak rounds down.

### 2.4 HttpSource's connection and link check

In `HttpConnection` reader tasks are numbered and run beside `work`, which may have dropped
their channel. `pc` is where `work` is; `StartControl` and `StreamOpens` are the two halves
of `start_stream`, each of which may fail. The server may stop answering, a connection may
close or fall silent, another client may retune the device, the consumer may set
`restart_pending` in the shared statistics, which every chunk rewrites. `listen_only`
is chosen when the source is built. What is in the buffer is only "stocked" or not.

In `LinkCheck` time is in ticks and rates are bytes a tick. The server has a buffer that
the path drains; what does not fit is lost, and a new connection gets the backlog at once,
which is what the settling time is for. The check is armed by the first packet that
declares a rate, counts a window, judges it, and is armed again by another rate or a
restart. Gaps spawn health probes that answer in any order (`probes`), and each chunk
rewrites the statistics (`Refreshed`). The ladder of rates is an operator checked in the
verdict itself (`PathIsJudgedRightly` says which rung the verdict must name).

### 2.5 Parsing

A byte of `StreamParser` is a class of what the scan tells apart (opening brace, `LF`,
`RS`, other) with the packet it belongs to: payloads hold braces and separators on
purpose. The script of packets is fixed by `Init`, its cut into chunks by each
`Receive`. Valid and corrupt headers, payloads over the cap, compressed and unreadable
payloads, JSON documents and binary formats, strict and recovering entry points, and
`reset` between chunks are all there; `Wire` is the reference that sees the body whole.

### 2.6 SpectranSource over HTTP

`SpectranReads` has the reader task (`connecting`, `streaming`, `ended`), its budget of
attempts, the channel, and the caller, who reads, asks `take_overrun` once after each
read (as its documentation tells him), stops and starts. `SpectranTuning` has the same
reader and caller and, instead of samples, the tuple of tuning each holds or has under
way. They are two modules because they share only the reader's life cycle: what the
samples are does not depend on the tuning, since geometries are whatever packets
declare. An HTTP request is applied or not in the step that ends it, and an answer
may be lost after it was applied. `ConnectRetry` is what happens before either: the
server comes up at some time, and attempts fail at once or after a while.

### 2.7 The native backend

`NativeReads` has the SDK's queue, one read in progress with the locals of
`read_samples_within` (`remaining`, `got_packet`, `read_geometry`), the carry-over of
both read paths, and the deadline loop around the mono path. Packets may be empty,
unusable (`stride`) or absurdly large (`huge`); `get_packet` and `consume_packets` may
fail. Two assumptions are about the device: it flags a loss on the next packet that
has samples (the dual path does not look at the flags of an empty one), and a device
that is closed forgets its queue.

`NativeLifecycle` gives each owner (a `SpectranSource`, an `SdkSource`, an `SdkSink`) a
script, the vendor calls its operation has yet to make. One call is one step, so owners
interleave between calls; the vendor may fail any of them, and `OnError` is what the code
does then. `dev` is what the device really has and `held` who holds it, against which
what the sources believe is checked. What a configuration writes, item by item, is
`ReceiverConfig`, a function from items to items.

`SourceOpening` precedes both: where the library is found, which devices a scan lists,
which one is chosen, and what a restarted source asks for. Devices are plugged, unplugged
and claimed by others at any step but those of the vendor. `NativeSpectra` has the three
other uses of an open device; its health walk may meet a fix that comes or goes between
two leaves.

### 2.8 Transmitting

In `SinkBlocks` samples are numbered and last one tick. The runtime calls `work` only when
something was announced since its last call (`woken`), and the end of the input is
announced between two calls: the lost wake-up is a behaviour of the model. The sender task
may end by itself, in a panic or with its runtime (`SenderGone`), and `Drop`, which may come
at any time, aborts it; either way it takes with it the batches in the channel and the push
in progress, which may have arrived (`TaskEnds`). Nothing counts those: `lost` keeps them,
for the properties.

### 2.9 Reaching the receiver and its recordings

`RtsaFile` reads files that are sequences of cells, a chunk header being one. Files are
whole, truncated, damaged in a header, with sub-streams that interleave, with payload that
imitates signatures, compressed and unpacked by the external tool. `ConfigTree` holds the
searches as operators on trees in pre-order; `RemoteConfig` makes one call, a sequence of
requests between which another client may write and each of which may fail.

`SourceFacade` gives each operation of `SpectranSource` as the set of its possible outcomes.
Over it `CApi` has programs whose threads call entry points one at a time per object, as
the header requires; `PythonBinding` splits a call where it releases the interpreter's
lock; `SeifyDriver` has clones and streamers meeting at two mutexes.

## 3. The runs

| Run | Shows | Bounds | Distinct states |
|---|---|---|---|
| `break_contract` | gaps and geometry are told exactly | 4 samples, packets of 0 to 2, skews, geometries with a creeping centre and a moved rate | 780 522 |
| `stream_breaks` | the offset queue is well formed, no index is visited twice, and it **implements** `BreakContract` | 5 samples, packets of 1 and 2, a buffer a sweep outgrows, 2 fetches per `work` | 412 781 |
| `drop_detector` | lost packets show, rounding does not | 4 packets of durations 16 and 40 resolutions, all roundings, decay 999/1000 | 729 675 |
| `stream_intake` | a sweep after a stall never trims; packets come as sent, nothing is missed silently, skips are exact; the link's verdict is right, current and final | chunks of 1 and 5 bytes, packets of 1, 3 and 6 samples, channel of 2; scripts of 2 packets of 11 kinds and a whole one after them, or of 5 documents, cut in pieces of 1, 3 and 8; two rates, three paths, 7 ticks, 2 troubles, 3 drops | 1 294 488 |
| `spectran_http` | device, shared tuning and configuration agree; reconnecting comes to rest; reads are whole, labelled and flagged | 2 fields, 3 values, 2 reconnects, 1 reboot, 2 sessions; 6 samples, channel of 2, reads of 1 and 3, 1 reconnect, 2 errors, 2 sessions | 1 816 129 |
| `http_connection` | one reader and parser; recovery; restarts served; a retune stands | 2 reader tasks, channel of 1, 2 fetches, 2 faults, 2 requests | 445 173 |
| `native_reads` | order, freshness, losses told, one mapping per call | 4 samples, packets of 0 to 2, reads of 0 to 2, queue of 2, 1 failing call, 2 sessions | 2 910 330 |
| `native_lifecycle` | the SDK is shared, the device given back and as it was told | a SpectranSource and a sink, 3 rates, 2 channels, 2 clocks, spans, decimation; any vendor call may fail; the sink beside the plain raw source only, `SinkIsBesidePlain` | 1 175 342 |
| `sink_blocks` | all input is answered for; the block ends with it | 4 samples, buffers and bursts of 0 to 3, queue of 1, pushes that fail or time out, a sender task that ends anywhere | 470 934 |
| `access` | the ten properties of `MCAccess`, one or two per component | see `MCAccess.cfg` and the definitions at the end of `MCAccess`, `MCRtsaFile`, `MCRemoteConfig` | 1 008 458 |
| `request_wins`, `native_retune` | the two disagreements of section 5: each is violated | as the run of the same module | |

**Why the bounds are enough.** What these components get wrong they get wrong at
boundaries: a break at offset 0, at the end of the buffer, between two packets, a read
that ends in the middle of a packet, a packet begun before a sweep, a separator cut in
two, a seek onto the first sample of a chunk. Two packets of different lengths and one
sample beyond what a buffer or a read takes reach all of them. A second session reaches
everything left over from the first; a second fault reaches a fault while recovering from
one; a second owner, thread or client reaches every order of two. In `drop_detector` four
packets are enough for a long one, a jittered one, a short one and the loss after them;
the theorems take over from there. For parsing, three packets put each kind before and
after each other, and the third shows whether framing was found again.

Bounds of the environment and of nothing in the code: `MaxSamples`, `MaxPackets`,
`MaxFaults`, `MaxRequests`, `MaxReboots`, `MaxHealthy`, `MaxErrors` (but of
`SpectranReads`), `MaxSessions`, `ReadSessions`, `MaxItems`, `MaxResets`, `MaxTime`, `MaxTrouble`,
`MaxDrops`, `MaxClock`, `MaxSeeks`, `MaxOthers`, `MaxRead`, `MaxSets`, `MaxChanges`,
`MaxOpenings`, `MaxUp`, `MaxCells`. Constants of the code made small: `ChannelDepth`,
`MaxFetches`, `MaxReconnects`, `ReadReconnects`, `MaxErrors` of `SpectranReads`, `QueueDepth`,
the buffer sizes, the parser's caps and `MaxUsize`, the link's `Settle` and `Window`, the
windows in which `RtsaFile` searches, the budgets of `ConnectRetry` and `LinkProbe`, `MaxRetries` and
`MAX_VALUES`.

`CHECK_DEADLOCK FALSE` stands where a bounded environment ends, a dropped source stops or a
reader that has used its attempts up ends for good. `native_lifecycle` and
`sink_blocks` check for deadlock: their owners can always go on, or say that they are over.

**Fairness.** Three runs have liveness properties.

* `HttpConnection!FairSpec`. The FutureSDR runtime calls `work` as long as the block
  asks for it and samples arrive (`WF` on `WorkSteps`); tokio runs spawned tasks and
  fires the stall timer of `read_stream_into` (`WF` on each reader's `TaskSteps`); the
  server comes back (`WF` on `ServerReturns`), without which nothing could be promised;
  and the downstream block takes samples again and again (`SF` on `Produce(TRUE)`, since
  it may be unable to at any given call). Nothing is assumed of faults, requests,
  external retunes or `Drop`. `MaxFaults` is what makes "whatever broke" end.
* `MCSpectranHttp!MCFairSpec`, the fairness of `SpectranTuning!FairSpec`: `WF` on `ReaderSteps`,
  as the backoff's sleep ends and each request is answered or runs into its time-out.
  `ReaderComesToRest` needs the number of connections that lasted long enough to earn the
  attempts back to be bounded (`MaxHealthy`): a server that is healthy again and again may
  be reconnected to again and again, by intention.
* `SinkBlocks!Fairness`. The runtime announces the end it was given and calls `work` for it,
  `push_batch` and the sender task run, and a push ends, by its time-out at the latest.
  Nothing obliges the block in front to write or to end.

**The properties.** Where a run's property is a conjunction, its parts are stated and
commented in the component's module. The ones to read first:

* `GapsAreExact`, `GeometryIsTold` (`BreakContract`), with `ImplementsContract`: of two
  neighbouring samples the consumer gets, a gap is reported between them exactly if the
  device did not take one right after the other; each sample stands under an announced
  geometry within tolerance of its packet's.
* `QueueIsWellFormed`, `IndexNeverRevisited` (`StreamBreaks`): what the loops over offsets
  rely on. All five are proved for the source's own bookkeeping (section 4).
* `WholePacketsShow`, `SequenceIsQuiet` (`DropDetector`); `NeverTrims` (`SweepCapacity`).
* `PacketsComeAsSent`, `NothingIsMissed`, `SkipsAndBufferAreExact` (`StreamParser`).
* `VerdictIsRight`: a verdict is of one rate, counts exactly what arrived, blames the path
  exactly if the path is short and names a rung it carries. `StatsAreCurrent`,
  `VerdictStands` (`LinkCheck`).
* `ReaderServesItsStream`, `ExternalRetuneStands`, `SourceRecovers`, `RestartIsServed`
  (`HttpConnection`).
* `ReadsAreTrue`, `LossesAreFlagged` (`SpectranReads`). That an overrun is a gap is claimed of
  the first session and not of its first read: after a restart a stale mark can
  report a gap that is none (section 5), and a first connection that breaks before its
  first packet makes the first read an overrun.
* `TuningIsKept`, `ReaderComesToRest` (`SpectranTuning`). `TuningIsKept` leaves out sessions
  with a failed setter (its intent has already been published, and no document says
  whether a reconnect should apply it) and reconnects that race a setter (section 5).
* `SamplesComeOnce`, `LossesAreTold`, `OneMapping` (`NativeReads`). `SamplesComeOnce` leaves out
  the session in which `consume_packets` failed after a packet was copied: the SDK then
  hands out the same packet again.
* `SdkIsShared`, `DeviceIsGivenBack`, `DeviceIsAsTold` (`NativeLifecycle`). The last leaves out
  a device that a failed call left half configured (`torn`); that a rate too wide for the
  clock is never written is claimed of that one too.
* `InputIsAnsweredFor`, `EndsWithInput` (`SinkBlocks`). "Sent, held or counted" leaves out what a
  sender task had when it ended, at most `QueueDepth` batches and one, which the code loses
  uncounted (section 5); the batches offered to a task that is gone are counted, and the
  property shows that. `SdkSinkBlock` ends with its input if the rest is one burst; it does not
  ask to be called again (section 5).
* The ten of `MCAccess`: `PlaybackIsExact` and `SeeksAndReadsAgree` (`RtsaFile`),
  `ProbesAreHonest` and `AnswersAreTheDevices` (`RemoteConfig`), `CallsKeepTheirWord` (`CApi`),
  `BindingKeepsItsWord` (`PythonBinding`), `DriverTellsTheSource` (`SeifyDriver`), `OpeningIsRight`
  (`SourceOpening`), `SpectraAndFixesAreTrue` (`NativeSpectra`), `ConnectingIsBounded`
  (`ConnectRetry`, `LinkProbe`). The promises of `RemoteConfig` are of calls during which no other
  client wrote; that another one writes in between is in the model and nothing is claimed of the
  outcome. What it reports of a label is claimed where the written block's field is the mission's
  first of that name. `CallsKeepTheirWord` and `BindingKeepsItsWord` are
  action properties. Of C they say that a call that is refused leaves objects, buffers and
  allocations as they were, that a read that times out takes no samples, and that a call
  that reports leaves the message for its own answer; a call that fails half way may have changed
  its object, and of the four entry points that leave no message for a null pointer (section
  5) only that. Of Python, that a start that fails leaves the running source, and that
  `aaronia-doctor` passes no server without IQ and none whose first IQ declares a rate the
  device does not have; IQ without a rate passes (section 5).

## 4. The proofs

| Theorem | Module | For every |
|---|---|---|
| `InvIsInvariant`: `Spec => []Inv` | `BreakContractProofs` | set of geometries, tolerances, skews, packet lengths, bound |
| `GapsAreAlwaysExact`: `Spec => []GapsAreExact` | `BreakContractProofs` | the same |
| `GeometryIsAlwaysTold`: `Spec => []GeometryIsTold` | `BreakContractProofs` | the same |
| `InvIsInvariant`: `Spec => []Inv` | `StreamBreaksProofs` | the same, and every buffer size, capacity factor, limit of fetches and downstream room |
| `QueueIsAlwaysWellFormed`: `Spec => []QueueIsWellFormed` | `StreamBreaksProofs` | the same |
| `IndexIsNeverRevisited`: `Spec => IndexNeverRevisited` | `StreamBreaksProofs` | the same |
| `SourceImplementsContract`: `Spec => ImplementsContract` | `StreamBreaksProofs` | the same |
| `EveryBreakIsTold`: `Spec => [](GapsAreExact /\ GeometryIsTold)`, of the source's own state | `StreamBreaksProofs` | the same |
| `LostPacketsAreReported`: `Spec => []WholePacketsShow` | `DropDetectorProofs` | set of durations and jumps, rounding, floor, cap and decay that satisfy the assumption below |
| `RoundingIsNotReported`: `Spec => []SequenceIsQuiet` | `DropDetectorProofs` | the same |
| `SamplesAreNeverTrimmed`: `Spec => []NeverTrims` | `StreamIntakeProofs` | buffer, channel and fetch limit, sample width, sizes of chunks and packets |
| `BufferStaysBounded`: `Spec => []BufferIsBounded` | `StreamIntakeProofs` | the same |
| `StatsStayCurrent`: `MCSpec => []StatsAreCurrent` | `StreamIntakeProofs` | set of rates and of paths, size of the server's buffer, depth of the channel, settle time and window, tolerance, number of ticks, retunes, restarts and gaps |
| `VerdictIsAlwaysRight`: `MCSpec => []VerdictIsRight` | `StreamIntakeProofs` | the same |
| `VerdictAlwaysStands`: `MCSpec => VerdictStands` | `StreamIntakeProofs` | the same |
| `ReaderAlwaysServesItsStream`: `Spec => []ReaderServesItsStream` | `HttpConnectionProofs` | number of reader tasks, depth of the channel, limit of fetches, number of faults and requests |
| `ExternalRetuneAlwaysStands`: `Spec => ExternalRetuneStands` | `HttpConnectionProofs` | the same |
| `ReadsStayInOrder`: `Spec => []Inv` | `SpectranHttpProofs` | set of packets and of read sizes, depth of the channel, number of reconnects, errors, samples and sessions, width of the two bands |
| `ReadsAreAlwaysTrue`: `Spec => []ReadsAreTrue` | `SpectranHttpProofs` | the same |
| `LossesAreAlwaysFlagged`: `Spec => []LossesAreFlagged` | `SpectranHttpProofs` | the same |
| `TuningIsAlwaysKept`: `Tuning!Spec => []TuningIsKept` | `SpectranHttpProofs` | set of fields and values, number of reconnects, restarts of the server and sessions |
| `SourceIsTrue`: `MCSpec => [](TuningIsKept /\ ReadsAreTrue /\ LossesAreFlagged)` | `SpectranHttpProofs` | all of these |
| `OrderIsKept`: `Spec => []Inv` | `NativeLifecycleProofs` | finite set of owners, the configurations each may be made with, the devices that may be attached |
| `SdkSharing`: `Spec => []SdkIsShared` | `NativeLifecycleProofs` | the same |
| `GivingBack`: `Spec => []DeviceIsGivenBack` | `NativeLifecycleProofs` | the same |
| `StreamIsKept`: `Spec => []Inv` | `NativeReadsProofs` | set of packet lengths, read sizes and geometries, depth of the queue, number of samples, errors and sessions |
| `EachSampleOnce`: `Spec => []SamplesComeOnce` | `NativeReadsProofs` | the same |
| `EachLossIsTold`: `Spec => []LossesAreTold` | `NativeReadsProofs` | the same |
| `EachReadHasOneMapping`: `Spec => []OneMapping` | `NativeReadsProofs` | the same |

**BreakContract.** Neither promise is inductive: what is produced was queued first. `Inv`
says the same of the whole `Stream` (produced samples followed by queued ones), that
its samples are in the order they were taken (`OrderedIn`), and what the label of the
*next* sample stands for (`TailIsExact`: it has a gap exactly if the last sample of the
stream is not the last one taken). The proof has one lemma per action; `GrowIsGood` is
the step that appends a packet, `DiscardIsGood` the one that gives samples up at the
front, `ConcatAt` and `PrefixIsGood` move facts between a stream and its parts. The
assumptions are the types of the constants (`StreamTypes`).

**StreamBreaks.** `QueueIsWellFormed` is not inductive: it says nothing of what has left the
queue, and that decides what the queue may hold. `Inv` takes what was reported (`sink`) and
what is queued (`pending_breaks`) as the two halves of one record of the stream:

* each half is `InQueue`: in order, at indices that exist, gaps carry no geometry,
  announced geometries were declared, and the first announcement of both together is
  the initial one;
* `SinkIsBehind`: all that was reported lies before all that is queued and before the samples
  of the next call, so that neither trimming nor merging can touch it, and no index is
  visited twice;
* `PublishedIsLast` and `EpochIsLast`: the two geometries the code keeps are what the two
  halves announce last. A packet is compared with the second, `note_buffer_cleared` falls back
  on the first;
* `ForgottenIsFlagged`: when the detector has forgotten the stream, the gap is already queued
  behind the last sample. Without it a packet after a reconnect would be a hole nobody
  reports;
* `CallsAreInStep`: the output index counts the samples produced, and nothing is copied out
  between calls.

A queue of offsets is read as two functions of the output index: `Ann(k)`, the geometry in
force at `k` (`WordAt`: the last announcement at or before `k`, in the queue, else in the sink),
and `Hole(k)`, whether a gap is reported right before `k`. Lemmas on sequences of breaks say
what appending, rebasing, trimming and merging, and reporting the first break do to these
functions; the actions are compositions of them. `Latest` and `Picked`, by which the model
states the code's loops, have lemmas of their own (`LatestIs`, `LatestOnly`).

For the refinement, `ViewIs` shows that the labels of `Contract` are the samples tagged with
these two functions. A step that leaves both alone is a stutter (reporting a break moves it
from one half to the other, copying out moves samples); a packet is an `Arrive`, with the trim
that may follow it as the samples `Arrive` gives up and the break that survives the trim as
its label; a packet lost or a failed fetch is a `Lose`, a restart a `Clear`, publishing a
`Produce`. `SourceImplementsContract` is therefore the statement that the abstract stream is
what the offsets amount to, and `EveryBreakIsTold` instantiates `BreakContractProofs` under the
same mapping to bring its two promises back to `HttpSource`. The assumptions are those of
`StreamTypes` and `CapacityAssumption`: all sizes are naturals, factor and fetch limit
positive.

**DropDetector.** The invariant adds `MemoryIsTrue`: whatever the detector remembers is
the truth up to the rounding of the timestamps it came from. `ClassifyIsSound` then
shows that the tolerance, capped by a fraction of the shorter packet and floored at the
resolution, separates rounding from a lost packet. It rests on `ResolutionAssumption`:
packets last more than 14 roundings and more than the floor and two roundings, and two
roundings fit under floor and cap. At the server's resolution of 1 us every packet
longer than 14 us satisfies it. For shorter ones the statement is not claimed.

**SweepCapacity.** `SweepAccount` keeps, in the middle of a sweep, the books: what was
added is the rest of one packet begun before the sweep plus samples that came whole
out of its bytes, of which there are at most a channel of the largest chunk seen.
`catch_up_headroom` is exactly that sum.

**LinkCheck.** `LinkInv` follows the check through its three states (`CheckIsTrue`). A window
that is open has a meter that is true (`WindowIsTrue`): it was marked after the settle time,
its last sweep came before the window's end, what it counted is what arrived from the one to
the other, and every sample it counted is of the rate the device reports now. For the count to
go on being exact the meter has to have been told of every byte that has left the channel
(`IsToldOf`); a connection that ends with bytes in the channel breaks that, which is why the
claim is made of an active stream only and why a start must arm the check anew. A verdict is
of the rate the device reports, or the empty one of a link that cannot be measured. The
statistics tell the verdict (`BudgetIsTold`), and a link that cannot be measured never has
told one: without it, the check that a restart leaves done at once would be contradicted by
the verdict of the configuration before. `SweepOfOneRate` is the lemma on `note_device_rate`:
when no two neighbours of a sweep differ, all of its packets have the rate of the last
(the least index where they would not is a contradiction, `FirstExists`).

None of this says whom a verdict blames. `LinkIsRight` adds `PathIsTold`: what a meter has
counted is the path times the ticks counted if the path is slower than the rate, and at least
the rate times those ticks if it is not, unless the window was limited by the consumer
(`CountFits`). What waits in the channel fits in the same way the ticks since the last sweep
(`ChannelFits`), unless the channel is full or holds a packet of another rate; both are
exceptions the next sweep notices, and then it marks the window or starts another. `TickFits`
is the tick: a backlog at the server only adds to what a fast path delivers, and a slow one
delivers neither more nor less. `JudgedRightly` cancels the length of the window from both
sides of the comparison with the tolerance, so that no window is long or short enough to turn
the verdict, and `LadderDoubles` (above each rung but the highest is one of twice its rate)
shows that the rung a verdict names is the highest the path carries.

**HttpConnection.** `ReaderServesItsStream` (at most one task that could still deliver, a
parser that holds bytes of this stream only, a dropped source that holds no connection,
nothing written by a source that only listens) is not inductive: it says nothing of what
a start finds. `Inv` adds `StreamIsOwned`: while a stream is being started, or after a
start that failed, nothing is left of the one before, and a channel is held by an active
stream or by one that `work` is about to clean up. `CleanupLeavesNothing` is the lemma on
`cleanup_stream` that every way into a start rests on. `ExternalRetuneStands` is an action
property: it follows from the actions alone.

**SpectranReads.** A sample on its way to the caller is in a chunk on the channel, in the
stash, in the read in progress, or it is the last one the caller got. `Queued(k)` is the last
sample the caller would have after the first `k` chunks of the channel, `Pulled` and `InHand` what
he has with and without the stash. The two promises speak of a read that has returned; `Inv`
follows its samples back to the reader task:

* chunks, stash and read are each one piece of the stream (`ChannelIsWhole`, `HeldIsWhole`),
  chunks are of one frequency and rate, and what is held fits the label kept with it
  (`LabelsFit`): a sample that declares a frequency is never labelled with none;
* a chunk is marked *exactly* if it does not go on at `Queued` of the chunks before it
  (`ChunksAreFlagged`), the stash if it does not go on where the read is (`StashFollows`),
  and the read if it does not go on at `previous` (`BatchFollows`). "Exactly" is claimed of the
  first session only, as the mark a restart leaves behind is the divergence of section 5;
* `ReaderKnows`: what the reader task remembers, the detector's last sample and the two flags
  of its reconnect loop, is enough to mark the next chunk. After a reconnect or a failed
  start the detector remembers nothing and the flag is set, unless nothing was ever delivered;
* `CallsAreInStep`: while a read has room the stash is empty, so that what a chunk leaves over
  is put behind the read and behind nothing else.

`Cut(s, p, t)` says that a sequence of samples is one followed by another. Its lemmas
(`SplitIsCut`, `JoinIsCut`, `CutEach`, `CutRuns`) carry the facts through the two ways the code
takes a sequence apart: the stash that a read starts from, and the chunk it takes the head of.
The reader's steps leave what the caller holds alone (`CallerKeeps`), and the caller's leave the
channel alone or take its head (`CallerLeavesReader`, `HeadLeaves`); so each action has little
to show. `SourceIsTrue` brings the theorems of both halves to the specification of the run.

**SpectranTuning.** `TuningIsKept` speaks of the time between the caller's calls. `Inv` adds
what holds during one, `IntentIsPublished` (the tuple a setter has on its way is what it has
published), and `DownIsUntuned` (a server that is down has not been tuned). `RequestsTune`
says what any request leaves, applied or not; the lemmas after it take the server's, the
reader's and the caller's steps in turn.

**NativeLifecycle.** Owners work through scripts of vendor calls, each of which may be
refused, and interleave between calls. What an owner may leave behind depends on what it
still has to call, so `SdkIsShared` and `DeviceIsGivenBack`, which speak of owners that
are done, say nothing of a step. `OwnerIsInOrder` relates the two for one owner: which
orders calls may stand in (`Shape`), that a source being made is installed or shut down
before a failure can drop the rest of the script (`FreshIsSettled`), that a device is opened
by a source that was made (`OpensWhatIsMade`) and a source replaced only after its shutdown
(`KeptIsSettled`), that a shutdown comes after two attempts to close (`ClosedTwice`), that
what runs is stopped and disconnected first, or the device refused to (`StopsWhatRuns`),
that a connected device goes on to be started (`GoesOn`), and that an owner that holds the
device has a handle to it or was refused twice when it closed it (`HeldIsAccountedFor`). `Inv` adds the count: `SDK_LIVE_INITS` is the number of clients
that are initialized, the SDK is up while it is not zero, and a device nobody holds is
off. One lemma per vendor call shows the step for its owner; that the others are not
disturbed is shown once.

**NativeReads.** A sample on its way is in the SDK's queue, in what was carried over from
the packet before, in the buffer of the read in progress, or it is the last one the caller
got. `SamplesComeOnce` and `LossesAreTold` speak of the last two. `Inv` says of all four
that their samples are in the order they were taken (`InOrder`), that packets in the queue
are whole (`PacketsAreWhole`), that what is carried over continues the last sample read
(`CarryIsNext`), and that whatever is missing anywhere between them is told by a flag that
is set or by one on a packet yet to be read (`HolesAreFlagged`). The order is given up only
after a packet was copied out and its consumption rejected (`twice`, which
`SamplesComeOnce` leaves out too); a hole is `Excused` while an overrun has been noted and
the caller has had no sample since. `MovedKeepsOrder`, `MovedIsNext` and `MovedLeavesNoHole` are the
lemmas on taking a prefix of a packet and carrying the rest over; the proof has one lemma
per action. `OneMapping` holds of a call that has returned; `CallsHaveOneMapping` says it of
one in progress.

Each proof shows `Init => Inv`, `Inv /\ [Next]_vars => Inv'` by cases on the actions,
and `Inv => P`. The constants' assumptions are the named `ASSUME`s of `StreamTypes`, `StreamBreaks`,
`DropDetector`, `SweepCapacity`, `MCStreamIntake` (for `LinkCheck`), `HttpConnection`,
`SpectranReads`, `MCSpectranHttp` (for `SpectranTuning`), `ReceiverConfig`,
`NativeLifecycle` and `NativeReads`, which TLC evaluates in the runs. `LinkIsRight` and the invariants `Inv` of
`StreamBreaks`, `SpectranReads`, `NativeLifecycle` and `NativeReads` hold in TLC on the bounds of
their runs too.

Only model-checked:

* the liveness properties (`SourceRecovers`, `RestartIsServed`, `ReaderComesToRest`,
  `EndsWithInput`): the prover treats neither fairness nor `ENABLED`;
* whatever depends on what a recursive function or a fold computes over data of any length: the
  parser's framing (`StreamParser`), the chunk chain and the sums of `RtsaFile`, the searches of
  `ConfigTree`. Induction over data is out of this prover's reach, and it has no SMT
  backend in modules with `RECURSIVE` operators;
* the safety properties of the other modules, for which a bounded instance is the
  evidence. `DeviceIsAsTold` (`NativeLifecycle`) is one of them: what the device accepts depends
  on its own limits of the span and of the sink's rates, which the proved invariant does not
  follow.

## 5. Where code and documents disagree

Two are runs that TLC refutes.

* `request_wins`. The reader copies the tuning under the lock and sends it after
  releasing it. A setter that publishes and sends in between is overwritten, although its
  intent is published first "so a reconnect racing this call restores the frequency the
  caller asked for".
* `native_retune`. `read_samples_within` stops before a packet of another geometry; the
  loop of `read_samples_deadline` calls it again for the rest and gets that packet into
  the same buffer. "A read never spans a frequency or sample-rate change."

Met while modelling, part of the modules where they are about state, and without a run of
their own. Some contradict a comment, some are only surprising.

*SpectranSource over HTTP.*

* `start_streaming` empties the stash and leaves `sample_buffer_after_gap` set: the next read
  that leaves a remainder marks it as following a gap, and the read after that reports
  an overrun in the middle of contiguous samples.
* After a lost stream the tuning is restored before the stream is opened again. If that
  fails and the stream does not open either, the next attempt only opens the stream: "the
  next reconnect retries the tuning" does not hold for it.
* The connection test and the initial tuning each have a whole `CONNECT_TOTAL_BUDGET`.
* The drop count restarts from zero with each reader task; a read none of whose packets
  declares a frequency keeps the frequency of an earlier read.

*Parser.*

* `http_endpoints.rs` says that no packet is dropped; `process_data`, on an error, drops those
  the chunk completed before it.
* A chunk that ends between the line feed and the record separator of a packet over the cap
  makes the separator count as payload. A packet over the cap is lost IQ also
  when it is of another kind. `parse_errors` counts some errors twice.

*Native backend.*

* When `consume_packets` fails after `read_spectra` copied a packet, the error is returned, the
  frames stay in the caller's buffer and the same packet is read again. A position whose
  flag was read before the fix was lost can be zero.
* A read by deadline loses what it collected if a later round fails.
* Starting an `SdkSource` or `SdkSink` that fails in `configure` leaves the device open, and
  starting it again says "already open" until it is stopped. On an ECO,
  `set_sample_rate_hz` has no effect once a span was set.
* "The first available device" is the first in the list, also when it is busy and another
  is free. `AARONIA_SDK_PATH` may name the `sdk` directory for the library and may not for
  the XML configuration and RTSAFileTool.

*Sinks.*

* When `HttpSink`'s sender task ends, by a panic or with its runtime, the channel goes with it:
  up to 16 batches and the push in progress are neither sent nor counted, although
  `dropped_samples` is documented as the way to detect a broken link "instead of transmission
  silently going quiet". Only the batches that follow are counted, as the comment in
  `push_batch` has it. The block finishes when its last batch is queued, and its `Drop` aborts
  the task: what is still queued then is lost in the same way. A push that timed out is counted as
  dropped and may have arrived.
* `SdkSinkBlock` takes one burst a call and does not ask to be called again for the rest; with
  `samples_per_burst` 0 it takes nothing. Its windows may overlap.

*Recordings.*

* A chunk cut short, and one of an unknown sample type, fail on every read, where a
  comment has the latter skipped. A stream start time of 0 gives an end before the start.
  The end of a recording with several sub-streams is that of all of them also when one is
  read. A raw recording reports a rate of 0.

*Remote configuration.*

* A field in nested blocks is written through the nearest of them, where a comment has the
  outermost win. `"main/reflevel"` of a doc example is always refused. Another client's
  write between a probe's read and its restore is taken back.
* `set_clock_source` and `set_gps_mode` write to the receiver's block and confirm by the first
  `sclksource` or `gpsmode` of the mission. Where another block has one first, a write that took
  is reported as a mismatch, or one that did not as confirmed, and the options offered
  are the other block's.

*Bindings.*

* Python: the loop ends without an exception when an HTTP stream ends by a transport failure, or
  when the native backend was idle for 500 ms, which the comment on `BlockIterator` excludes;
  `read_timeout_s` does not reach the native backend; a URL or path set back to `None`
  leaves its backend selected. `aaronia-doctor` compares a rate only if the header declares one: IQ
  without `sampleFrequency` passes.
* seify: an overrun deferred by a streamer outlives `deactivate`, and is lost with the streamer.
* C: a write to a sink whose device a failed configure left open is accepted. Given a null
  pointer, `spectran_source_rf_span_range`, `_set_rf_span_hz` and `_builder_native_options` return
  `InternalError` and leave no message, and `spectran_source_get_source_info` returns NULL
  without touching the slot, so that the message of an earlier call is still there; the head
  of `c_api.rs` promises a message for each failure and none of an earlier one.

## 6. What is not modelled

* Decoding, scaling and unit conversion of samples, frequencies and gains: `f64`/`f32`
  arithmetic without state (`decompression.rs`, `utils.rs`, `stream_geometry.rs`).
* Requests, authentication and response decoding, parsing of the vendor's XML, NumPy and C
  marshalling, wording of errors and logs: I/O. That a request or a vendor call is
  applied, refused or lost is in the external actions.
* `HttpSource`'s message ports and log throttling; packets of other kinds than IQ, which the
  bookkeeping skips; packet times, which follow the samples.
* `SpectranSource`'s reader awaits packets without a stall time-out of its own; the model has
  no connection that stays open and silent there, and claims nothing about one.
* In `NativeReads`: a packet whose samples the SDK gives no pointer to (skipped in silence by
  the code), a `close` that fails (`NativeLifecycle` has it).
* The spectra of a recording; static tables of ranges and capabilities.
* The SoapySDR driver, C++ over the C API, whose state is that of the seify driver. Error
  types, examples, benchmarks, packaging.

## 7. What could follow

In the order of what they would add: a refinement that shows
`SpectranReads` and `NativeReads` to implement the read operations of `SourceFacade`, which
the bindings' modules now take as given; the SoapySDR driver over `CApi`; a model of
`SpectranSource`'s reader on a silent connection, if the crate comes to promise anything
about it.
