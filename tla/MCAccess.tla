------------------------------ MODULE MCAccess ------------------------------
(***************************************************************************)
(* The components by which programs reach the receiver and its recordings, *)
(* each an instance of its own: one run checks them side by side, in a     *)
(* state of which all variables but those of one component are unused, so  *)
(* that their states add up where a product would multiply them.           *)
(***************************************************************************)
EXTENDS Integers, Sequences, TLC

CONSTANTS
  \* RtsaFile
  Files, Counts, ToolTime, MaxSeeks, TailWindow, NearBefore, Near, HeadBefore, HeadSize, Search,
  StrmBefore, Strm, ScanAhead, Small,
  \* RemoteConfig
  Blocks, Missions, RemoteCalls, Others, MaxFaults, MaxOthers,
  \* CApi, PythonBinding, SeifyDriver
  Jobs, Callers, Builds, Lengths, MaxSamples,
  PyThreads, Servers, BlockSizes, MaxRead,
  Controllers, Streamers, Values, MaxSets,
  \* SourceOpening
  Installs, Pool, OpeningRequests, MaxRetries, MaxChanges, MaxOpenings,
  \* NativeSpectra
  Sweeps, Devices, PacketShapes, MAX_VALUES, Trees, MaxPackets, MaxErrors,
  \* ConnectRetry, LinkProbe
  CONNECT_ATTEMPTS, CONNECT_BACKOFF_INITIAL, CONNECT_BACKOFF_MAX, CONNECT_TOTAL_BUDGET, Delays, MaxUp,
  ProbeStreams, Payload, Chunks, Settle, ProbeWindow, PROBE_STALL_TIMEOUT, PROBE_HEADER_SCAN,
  MaxCells

VARIABLES
  part,   \* which component this is an instance of; the variables of the others stay unused
  file, opened, samp_chunk_offsets, samp_chunk_start_samples, iq_stream_id, metadata,
  current_sample_index, chunk_scan_hint, position, file_result, filter, origin, played, seeks,
  remote_tree, licensed, remote_pc, op, block, original, readback, read_error, remote_outcome,
  remote_result, faults, others, start, remote_met, meddled, tested,
  job, c_installed, c_error, last, c_returned, builder, c_source, client, sink, staging, heap,
  held, out,
  py_installed, py_source, py_pc, scratch, py_returned, py_asked, server, findings,
  seify_source, owner, seify_pc, applied, tuning, deferred_overrun, untold, sets,
  install, bus, ready, active, listed, request, opening_pc, families, retries, found,
  populated, chosen, open, opening_outcome, openings, changes, opening_asked, steady,
  up, what, attempt, retry_now, started, backoff, retry_error, prompt, begun,
  task, mode, errors, items, before, device, spectra_asked, spectra_result, queue, arrived,
  spectra_met, frames, kept, spectra_tree, at, gps, fix, moved, broken,
  stream, probe_pc, probe_now, heard, sent, meter, sniffing, buf, fed, stream_sample_rate

file_vars == <<file, opened, samp_chunk_offsets, samp_chunk_start_samples, iq_stream_id,
               metadata, current_sample_index, chunk_scan_hint, position, file_result, filter,
               origin, played, seeks>>
remote_vars == <<remote_tree, licensed, remote_pc, op, block, original, readback, read_error,
                 remote_outcome, remote_result, faults, others, start, remote_met, meddled,
                 tested>>
c_vars == <<job, c_installed, c_error, last, c_returned, builder, c_source, client, sink,
            staging, heap, held, out>>
py_vars == <<py_installed, py_source, py_pc, scratch, py_returned, py_asked, server, findings>>
seify_vars == <<seify_source, owner, seify_pc, applied, tuning, deferred_overrun, untold, sets>>
opening_vars == <<install, bus, ready, active, listed, request, opening_pc, families, retries,
                  found, populated, chosen, open, opening_outcome, openings, changes,
                  opening_asked, steady>>
retry_vars == <<up, what, attempt, retry_now, started, backoff, retry_error, prompt, begun>>
spectra_vars == <<task, mode, errors, items, before, device, spectra_asked, spectra_result,
                  queue, arrived, spectra_met, frames, kept, spectra_tree, at, gps, fix, moved,
                  broken>>
probe_vars == <<stream, probe_pc, probe_now, heard, sent, meter, sniffing, buf, fed,
                stream_sample_rate>>
vars == <<part, file_vars, remote_vars, c_vars, py_vars, seify_vars, opening_vars, retry_vars,
          spectra_vars, probe_vars>>

File == INSTANCE RtsaFile WITH
  result <- file_result
Remote == INSTANCE RemoteConfig WITH
  Calls <- RemoteCalls,
  tree <- remote_tree, pc <- remote_pc, outcome <- remote_outcome, result <- remote_result,
  met <- remote_met
C == INSTANCE CApi WITH
  installed <- c_installed, error <- c_error, returned <- c_returned, source <- c_source
Py == INSTANCE PythonBinding WITH
  installed <- py_installed, source <- py_source, pc <- py_pc, returned <- py_returned,
  asked <- py_asked
Seify == INSTANCE SeifyDriver WITH
  source <- seify_source, pc <- seify_pc
Opening == INSTANCE SourceOpening WITH
  Requests <- OpeningRequests,
  pc <- opening_pc, outcome <- opening_outcome, asked <- opening_asked
Retry == INSTANCE ConnectRetry WITH
  now <- retry_now, error <- retry_error
Spectra == INSTANCE NativeSpectra WITH
  Shapes <- PacketShapes,
  asked <- spectra_asked, result <- spectra_result, met <- spectra_met, tree <- spectra_tree
Probe == INSTANCE LinkProbe WITH
  Streams <- ProbeStreams, Window <- ProbeWindow, pc <- probe_pc, now <- probe_now

Unused(v) == v = "unused"
NoFile ==
  /\ Unused(file) /\ Unused(opened) /\ Unused(samp_chunk_offsets)
  /\ Unused(samp_chunk_start_samples) /\ Unused(iq_stream_id) /\ Unused(metadata)
  /\ Unused(current_sample_index) /\ Unused(chunk_scan_hint) /\ Unused(position)
  /\ Unused(file_result) /\ Unused(filter) /\ Unused(origin) /\ Unused(played) /\ Unused(seeks)
NoRemote ==
  /\ Unused(remote_tree) /\ Unused(licensed) /\ Unused(remote_pc) /\ Unused(op)
  /\ Unused(block) /\ Unused(original) /\ Unused(readback) /\ Unused(read_error)
  /\ Unused(remote_outcome) /\ Unused(remote_result) /\ Unused(faults) /\ Unused(others)
  /\ Unused(start) /\ Unused(remote_met) /\ Unused(meddled) /\ Unused(tested)
NoC ==
  /\ Unused(job) /\ Unused(c_installed) /\ Unused(c_error) /\ Unused(last)
  /\ Unused(c_returned) /\ Unused(builder) /\ Unused(c_source) /\ Unused(client)
  /\ Unused(sink) /\ Unused(staging) /\ Unused(heap) /\ Unused(held) /\ Unused(out)
NoPy ==
  /\ Unused(py_installed) /\ Unused(py_source) /\ Unused(py_pc) /\ Unused(scratch)
  /\ Unused(py_returned) /\ Unused(py_asked) /\ Unused(server) /\ Unused(findings)
NoSeify ==
  /\ Unused(seify_source) /\ Unused(owner) /\ Unused(seify_pc) /\ Unused(applied)
  /\ Unused(tuning) /\ Unused(deferred_overrun) /\ Unused(untold) /\ Unused(sets)
NoOpening ==
  /\ Unused(install) /\ Unused(bus) /\ Unused(ready) /\ Unused(active) /\ Unused(listed)
  /\ Unused(request) /\ Unused(opening_pc) /\ Unused(families) /\ Unused(retries)
  /\ Unused(found) /\ Unused(populated) /\ Unused(chosen) /\ Unused(open)
  /\ Unused(opening_outcome) /\ Unused(openings) /\ Unused(changes) /\ Unused(opening_asked)
  /\ Unused(steady)
NoRetry ==
  /\ Unused(up) /\ Unused(what) /\ Unused(attempt) /\ Unused(retry_now) /\ Unused(started)
  /\ Unused(backoff) /\ Unused(retry_error) /\ Unused(prompt) /\ Unused(begun)
NoSpectra ==
  /\ Unused(task) /\ Unused(mode) /\ Unused(errors) /\ Unused(items) /\ Unused(before)
  /\ Unused(device) /\ Unused(spectra_asked) /\ Unused(spectra_result) /\ Unused(queue)
  /\ Unused(arrived) /\ Unused(spectra_met) /\ Unused(frames) /\ Unused(kept)
  /\ Unused(spectra_tree) /\ Unused(at) /\ Unused(gps) /\ Unused(fix) /\ Unused(moved)
  /\ Unused(broken)
NoProbe ==
  /\ Unused(stream) /\ Unused(probe_pc) /\ Unused(probe_now) /\ Unused(heard) /\ Unused(sent)
  /\ Unused(meter) /\ Unused(sniffing) /\ Unused(buf) /\ Unused(fed)
  /\ Unused(stream_sample_rate)

Init ==
  \/ part = "file" /\ File!Init
     /\ NoRemote /\ NoC /\ NoPy /\ NoSeify /\ NoOpening /\ NoRetry /\ NoSpectra /\ NoProbe
  \/ part = "remote" /\ Remote!Init
     /\ NoFile /\ NoC /\ NoPy /\ NoSeify /\ NoOpening /\ NoRetry /\ NoSpectra /\ NoProbe
  \/ part = "c" /\ C!Init
     /\ NoFile /\ NoRemote /\ NoPy /\ NoSeify /\ NoOpening /\ NoRetry /\ NoSpectra /\ NoProbe
  \/ part = "py" /\ Py!Init
     /\ NoFile /\ NoRemote /\ NoC /\ NoSeify /\ NoOpening /\ NoRetry /\ NoSpectra /\ NoProbe
  \/ part = "seify" /\ Seify!Init
     /\ NoFile /\ NoRemote /\ NoC /\ NoPy /\ NoOpening /\ NoRetry /\ NoSpectra /\ NoProbe
  \/ part = "opening" /\ Opening!Init
     /\ NoFile /\ NoRemote /\ NoC /\ NoPy /\ NoSeify /\ NoRetry /\ NoSpectra /\ NoProbe
  \/ part = "retry" /\ Retry!Init
     /\ NoFile /\ NoRemote /\ NoC /\ NoPy /\ NoSeify /\ NoOpening /\ NoSpectra /\ NoProbe
  \/ part = "spectra" /\ Spectra!Init
     /\ NoFile /\ NoRemote /\ NoC /\ NoPy /\ NoSeify /\ NoOpening /\ NoRetry /\ NoProbe
  \/ part = "probe" /\ Probe!Init
     /\ NoFile /\ NoRemote /\ NoC /\ NoPy /\ NoSeify /\ NoOpening /\ NoRetry /\ NoSpectra

FileSteps ==
  /\ part = "file" /\ File!Next
  /\ UNCHANGED <<part, remote_vars, c_vars, py_vars, seify_vars, opening_vars, retry_vars,
                 spectra_vars, probe_vars>>
RemoteSteps ==
  /\ part = "remote" /\ Remote!Next
  /\ UNCHANGED <<part, file_vars, c_vars, py_vars, seify_vars, opening_vars, retry_vars,
                 spectra_vars, probe_vars>>
CSteps ==
  /\ part = "c" /\ C!Next
  /\ UNCHANGED <<part, file_vars, remote_vars, py_vars, seify_vars, opening_vars, retry_vars,
                 spectra_vars, probe_vars>>
PySteps ==
  /\ part = "py" /\ Py!Next
  /\ UNCHANGED <<part, file_vars, remote_vars, c_vars, seify_vars, opening_vars, retry_vars,
                 spectra_vars, probe_vars>>
SeifySteps ==
  /\ part = "seify" /\ Seify!Next
  /\ UNCHANGED <<part, file_vars, remote_vars, c_vars, py_vars, opening_vars, retry_vars,
                 spectra_vars, probe_vars>>
OpeningSteps ==
  /\ part = "opening" /\ Opening!Next
  /\ UNCHANGED <<part, file_vars, remote_vars, c_vars, py_vars, seify_vars, retry_vars,
                 spectra_vars, probe_vars>>
RetrySteps ==
  /\ part = "retry" /\ Retry!Next
  /\ UNCHANGED <<part, file_vars, remote_vars, c_vars, py_vars, seify_vars, opening_vars,
                 spectra_vars, probe_vars>>
SpectraSteps ==
  /\ part = "spectra" /\ Spectra!Next
  /\ UNCHANGED <<part, file_vars, remote_vars, c_vars, py_vars, seify_vars, opening_vars,
                 retry_vars, probe_vars>>
ProbeSteps ==
  /\ part = "probe" /\ Probe!Next
  /\ UNCHANGED <<part, file_vars, remote_vars, c_vars, py_vars, seify_vars, opening_vars,
                 retry_vars, spectra_vars>>

Next ==
  \/ FileSteps \/ RemoteSteps \/ CSteps \/ PySteps
  \/ SeifySteps \/ OpeningSteps \/ RetrySteps \/ SpectraSteps
  \/ ProbeSteps

Spec == Init /\ [][Next]_vars

(***************************************************************************)
(* Values.                                                                 *)
(***************************************************************************)
Recordings == INSTANCE MCRtsaFile
MCFiles == Recordings!MCFiles

Configs == INSTANCE MCRemoteConfig
MCBlocks == Configs!MCBlocks
MCMissions == Configs!MCMissions
MCCalls == Configs!MCCalls
MCOthers == Configs!MCOthers

\* A program of each kind, the transmitting one with a second thread.
MCJobs == {"receive", "control", "transmit"}
MCCallers == [j \in MCJobs |-> IF j = "transmit" THEN {"t1", "t2"} ELSE {"t1"}]
Built(url, recording, forced) ==
  [url |-> url, file |-> recording, forced |-> forced, native |-> "none"]
MCBuilds ==
  [j \in MCJobs |->
     IF j = "receive" THEN {Built(TRUE, "none", "none"), Built(TRUE, "there", "none")}
     ELSE {Built(TRUE, "there", "none"), Built(FALSE, "missing", "none"), Built(FALSE, "none", "native")}]

\* What the doctor may meet: servers with each kind of input first, and servers that stop answering.
Serving(inputs) == [usable |-> TRUE, reachable |-> TRUE, lists |-> TRUE, inputs |-> inputs]
MCServers ==
  {Serving(i) : i \in {<< >>, <<"iq">>, <<"spectra">>, <<"none", "iq">>, <<"iq off the ladder", "iq">>, <<"none">>,
                      <<"spectra", "iq without a rate">>, <<"iq without a rate", "iq off the ladder">>}}
  \cup {[Serving(<< >>) EXCEPT !.usable = u, !.reachable = FALSE, !.lists = FALSE] : u \in BOOLEAN}
  \cup {[Serving(<< >>) EXCEPT !.lists = FALSE]}

\* Both layouts of an installation, with and without the variable that points there, or elsewhere.
Installed(env, standard, library) == [env |-> env, standard |-> standard, library |-> library]
MCInstalls ==
  {Installed("unset", TRUE, "root"), Installed("sdk", FALSE, "root"), Installed("root", FALSE, "sdk"),
   Installed("gone", FALSE, "root"), Installed("gone", TRUE, "sdk"), Installed("root", TRUE, "none")}
MCPool == [a |-> "spectranv6", b |-> "spectranv6", c |-> "spectranv6eco"]
Asking(by, serial, family, how) == [by |-> by, serial |-> serial, family |-> family, mode |-> how]
MCRequests ==
  {Asking("source", s, "none", "none") : s \in {"none", "b", "c"}}
  \cup {Asking("source", "none", "spectranv6eco", "none"), Asking("block", "none", "spectranv6eco", "none"),
        Asking("block", "none", "", "none"), Asking("sink", "none", "spectranv6", "none"),
        Asking("detected", "c", "none", "raw")}

\* Streams that give their rate at once, after headers without, late, or never.
Sends(payload, rate) == [payload |-> payload, rate |-> rate]
MCStreams ==
  {<<Sends("iq", 5)>>, <<Sends("spectra", 1)>>, <<Sends("spectra", 1), Sends("iq", 5)>>,
   <<Sends("iq", 0), Sends("iq", 5), Sends("iq", 7)>>,
   <<Sends("spectra", 1), Sends("iq", 0), Sends("spectra", 2), Sends("iq", 7)>>}

\* Devices with and without the items a sweep may lack; packets whose frames abut, are padded, or
\* cannot be; trees that give values before their flags, and flags in groups of their own.
MCSweeps == [geometry : {1, 2}, level : {0, 1, 2}]
MCDevices ==
  [present : {{"startfreq", "stopfreq", "rbwfreq"}, {"startfreq", "stopfreq", "rbwfreq", "vbw", "reflevel"}},
   bounds : {{}, {1}}]
MCShapes ==
  [null : {FALSE}, frames : {0, 2}, bins : {1, 2}, stride : {-1, 0, 1, 2, 3, 6}]
    \cup [null : {TRUE}, frames : {1}, bins : {1}, stride : {1}]
    \cup [null : {FALSE}, frames : {1}, bins : {0, 2}, stride : {2}]
Leaf(is, of, above) == [is |-> is, of |-> of, above |-> above]
Folder(above) == Leaf("group", "none", above)
MCTrees ==
  { <<Folder({}), Leaf("valid", "position", {1}), Leaf("value", "position", {1}),
      Leaf("valid", "time", {1}), Leaf("value", "time", {1})>>,
    <<Folder({}), Leaf("value", "position", {1}), Leaf("value", "time", {1}), Folder({}), Folder({4}),
      Leaf("valid", "time", {4, 5}), Leaf("valid", "position", {4})>>,
    <<Leaf("value", "time", {}), Folder({}), Leaf("valid", "position", {2}), Leaf("value", "position", {2}),
      Leaf("valid", "time", {2}), Leaf("value", "time", {})>> }
-----------------------------------------------------------------------------
(* Properties *)

\* Opening indexes each chunk of a recording once and in order, and reading from there gives what
\* the recording holds to its end, with the recording's own times (file_source.rs).
PlaybackIsExact ==
  part = "file" => /\ File!TypeOK /\ File!IndexIsExact /\ File!TimesAreTheRecordings
                   /\ File!PlaybackIsGapless /\ File!EndIsTheEnd

\* The two ways of finding a sample agree: a seek and the next read, and a search from the hint
\* and one from the first chunk (seek_to_sample, read_samples_from_sub_stream).
SeeksAndReadsAgree == part = "file" => File!SeekAgreesWithRead /\ File!HintIsOnlyAHint

\* A probe of remote writes puts the device back, and its verdict is one it saw evidence of
\* (verify_config_changes, probe_remote_config).
ProbesAreHonest ==
  part = "remote" => Remote!TypeOK /\ Remote!ProbeLeavesNoTrace /\ Remote!VerdictIsEarned

\* What setters, capabilities and sensors tell the caller is the device's, of the one receiver that
\* writes go to, and what is offered can be had (http_endpoints.rs, capabilities.rs).
AnswersAreTheDevices ==
  part = "remote" =>
    /\ Remote!SettersTellTheDevice /\ Remote!DiscoveryFindsTheField /\ Remote!OffersAreAccepted
    /\ Remote!CapabilitiesAreTheReceivers /\ Remote!SensorsAreOfOneBlock

\* The C interface: the message a thread reads explains its own last call (four null checks leave
\* none), nothing is freed early or leaked, reads give the next samples, a call that is refused
\* leaves everything as if it had not been made, and one that times out takes nothing (c_api.rs).
CallsKeepTheirWord ==
  [][ part = "c" =>
        /\ (C!TypeOK /\ C!MessageExplainsTheCode /\ C!HeapIsWhatIsHeld /\ C!AFailedSinkIsSilent)'
        /\ C!ReadsAreNext /\ C!StagingIsKept
        /\ C!RefusalsTouchNothing /\ C!NeverAnotherBackend ]_c_vars

\* The Python binding, its calls overlapping where the interpreter's lock is given up: a source is
\* replaced whole or not at all, a stop releases it, arrays and loops give the next samples, a loop
\* ends when nothing more is to come, and the doctor passes no server without IQ, nor one whose IQ
\* is at a rate it declares and the device does not have (python-aaronia/src/lib.rs).
BindingKeepsItsWord ==
  [][ part = "py" =>
        /\ (Py!TypeOK /\ Py!StopReleases /\ Py!DoctorIsRight)'
        /\ Py!AFailedStartChangesNothing /\ Py!BlocksAreNext
        /\ Py!LoopsEndAtTheEnd /\ Py!OpenIsAsAsked ]_py_vars

\* The seify driver: its frequency cache is the source's between setters, and a gap is told of by
\* some later read (seify_impl.rs).
DriverTellsTheSource ==
  part = "seify" => Seify!TypeOK /\ Seify!TuningIsTheSources /\ Seify!OverrunsAreTold

\* The device opened is the one asked for, before and after a restart, and "not found" is true of
\* the bus and of the installation (native_sdk.rs, sdk_utils.rs, detection.rs).
OpeningIsRight ==
  part = "opening" => Opening!TypeOK /\ Opening!OpenedIsTheOneAsked /\ Opening!NothingThereIsMissed

\* What else is done with an open device: a sweep that is refused has changed nothing, a read of
\* spectra gives whole frames and never the same packet for good, and a position is of a fix
\* (native_sdk.rs).
SpectraAndFixesAreTrue ==
  part = "spectra" => Spectra!SweepIsAllOrSaid /\ Spectra!FramesAreWhole /\ Spectra!AFixIsAFix

\* Connecting tries as long as it is worth it and no longer, and the link probe measures the stream
\* it asked for, or fails, in bounded time (unified_source.rs, http_source.rs).
ConnectingIsBounded ==
  /\ part = "retry" => Retry!RetriesAreWorthTheirTime
  /\ part = "probe" => Probe!MeasuresOrFails /\ Probe!RateIsTheStreams
=============================================================================
