-------------------------- MODULE NativeLifecycle --------------------------
(***************************************************************************)
(* Native sources and sinks of one process sharing the vendor SDK: the     *)
(* process-wide init count and NativeSdkSource's life cycle                *)
(* (native_sdk.rs), under the objects that own one: SpectranSource         *)
(* (unified_source.rs), SdkSource and SdkSink.                             *)
(*                                                                         *)
(* Owners run on threads of their own and interleave between vendor calls. *)
(* An owner's operation is the list of calls it has yet to make            *)
(* (script[o]); a call that fails replaces the list by what the code does  *)
(* on that error.  The vendor library may fail any call.  One device is    *)
(* attached, and one handle at a time may hold it.                         *)
(***************************************************************************)
EXTENDS ReceiverConfig, FiniteSets

CONSTANTS
  Spectrans, Sources, Sinks,   \* owners
  Nobody,
  Devices,       \* devices that may be attached
  Setups         \* by owner, the modes and requests it may be made with

Owners == Spectrans \cup Sources \cup Sinks
Slots  == {"kept", "fresh"}   \* the owner's native_source; the local being brought up

ASSUME OwnersAssumption ==
  /\ Nobody \notin Owners
  /\ IsFiniteSet(Owners)
  /\ Devices \subseteq Device /\ Setups \in [Owners -> SUBSET (Modes \X Request)]

VARIABLES
  \* external: the SDK, the device, who holds it, how far it is running, and
  \* the cleanup calls it has rejected since it was opened
  sdk, dev, items, held, line, refused,
  live,       \* SDK_LIVE_INITS
  src,        \* NativeSdkSource and its client, by owner and slot
  script,     \* the vendor calls an owner has yet to make
  mode,       \* the mode its configuration opens
  config,     \* SpectranConfig, SdkConfig, SdkSinkConfig
  torn        \* the last configuration failed after its first write

vendor == <<sdk, dev, items, held, line, refused>>
vars   == <<vendor, live, src, script, mode, config, torn>>

NoSource == [made |-> FALSE, initialized |-> FALSE, handle |-> FALSE, device |-> FALSE,
             device_connected |-> FALSE, stream_active |-> FALSE]
NewSource == [NoSource EXCEPT !.made = TRUE]

TypeOK ==
  /\ sdk \in {"up", "down"}
  /\ dev \in Device /\ DOMAIN items = Items
  /\ held \in Owners \cup {Nobody}
  /\ line \in {"off", "connected", "started"} /\ torn \in BOOLEAN
  /\ refused \subseteq {"stop", "disconnect", "close", "closed_again"}
  /\ live \in 0..2 * Cardinality(Owners)
  /\ src \in [Owners -> [Slots -> [made : BOOLEAN, initialized : BOOLEAN, handle : BOOLEAN,
                         device : BOOLEAN, device_connected : BOOLEAN, stream_active : BOOLEAN]]]
  /\ mode \in [Owners -> Modes] /\ config \in [Owners -> Request]
  /\ \A o \in Owners, s \in Slots : src[o][s].handle => src[o][s].initialized
-----------------------------------------------------------------------------
(* What an operation calls. *)

Calls(s, names) == [i \in DOMAIN names |-> <<names[i], s>>]

\* stop_streaming attempts each stage, whatever the ones before it returned.
Stopping(i, s) ==
  (IF i.stream_active THEN Calls(s, <<"stop">>) ELSE <<>>)
    \o (IF i.device_connected THEN Calls(s, <<"disconnect">>) ELSE <<>>)
    \o Calls(s, <<"close">>)

\* NativeSdkSource's Drop, then its client's.
Dropping(i, s) ==
  IF ~i.made THEN <<>>
  ELSE Stopping(i, s) \o Calls(s, <<"close", "close_handle", "shutdown">>)

\* init_native_sdk, and SdkSource's initialize.
BringUp    == Calls("fresh", <<"init", "open_handle", "find", "open", "configure">>)
initialize == Calls("fresh", <<"init", "open_handle">>)
Install    == Calls("fresh", <<"replace">>)
Run        == Calls("kept", <<"connect", "start">>)
StartBlock == Calls("kept", <<"find", "open", "configure">>) \o Run

\* What is left to do after the next call failed: a source being brought up is
\* dropped, the one the owner keeps stays as it is.
OnError(o) ==
  LET slot == Head(script[o])[2]
  IN  IF slot = "fresh" THEN Dropping(src[o][slot], slot) ELSE <<>>

Idle(o)    == script[o] = <<>>
Calling(o, call) == script[o] # <<>> /\ Head(script[o])[1] = call
Slot(o)    == Head(script[o])[2]
Me(o)      == src[o][Slot(o)]
Done(o)    == script' = [script EXCEPT ![o] = Tail(script[o])]
Failed(o)  == script' = [script EXCEPT ![o] = OnError(o)]
Set(o, i)  == src' = [src EXCEPT ![o][Slot(o)] = i]

-----------------------------------------------------------------------------
(* The owners' operations. *)

\* SpectranSource::new with the native backend.
SpectranNew(o) ==
  /\ o \in Spectrans /\ Idle(o) /\ ~src[o]["kept"].made
  /\ script' = [script EXCEPT ![o] = BringUp \o Install]
  /\ UNCHANGED <<vendor, live, src, mode, config, torn>>

\* SdkSource::initialize, SdkSink::initialize: a second one replaces the first
\* source.
BlockInitialize(o) ==
  /\ o \in Sources \cup Sinks /\ Idle(o)
  /\ script' = [script EXCEPT ![o] = initialize \o Install]
  /\ UNCHANGED <<vendor, live, src, mode, config, torn>>

RestartCalls(o) == BringUp \o Install \o Run

\* SpectranSource::start_streaming: the old client stays until its replacement
\* is ready.
SpectranStart(o) ==
  /\ o \in Spectrans /\ Idle(o) /\ src[o]["kept"].made /\ ~src[o]["kept"].stream_active
  /\ script' = [script EXCEPT ![o] =
                  IF src[o]["kept"].device THEN Run ELSE RestartCalls(o)]
  /\ UNCHANGED <<vendor, live, src, mode, config, torn>>

\* SdkSource::start_streaming, SdkSink::start_streaming.
BlockStart(o) ==
  /\ o \in Sources \cup Sinks /\ Idle(o) /\ src[o]["kept"].made
  /\ script' = [script EXCEPT ![o] = StartBlock]
  /\ UNCHANGED <<vendor, live, src, mode, config, torn>>

stop_streaming(o) ==
  /\ Idle(o) /\ src[o]["kept"].made
  /\ script' = [script EXCEPT ![o] = Stopping(src[o]["kept"], "kept")]
  /\ UNCHANGED <<vendor, live, src, mode, config, torn>>

DropOwner(o) ==
  /\ Idle(o) /\ src[o]["kept"].made
  /\ script' = [script EXCEPT ![o] = Dropping(src[o]["kept"], "kept")]
  /\ UNCHANGED <<vendor, live, src, mode, config, torn>>

\* set_center_frequency_hz, set_sample_rate_hz, set_reference_level_dbm (unified_source.rs): with a
\* device open the whole tuple is configured again, without one the value waits
\* for the next start.
Retune(o, req) ==
  /\ o \in Spectrans /\ Idle(o) /\ src[o]["kept"].made
  /\ IF ~src[o]["kept"].device
     THEN config' = [config EXCEPT ![o] = req] /\ UNCHANGED <<items, torn>>
     ELSE \E n \in Accepted(Writes(mode[o], dev, items, req)) :
            LET done == configure_iq_receiver(mode[o], dev, items, req, n)
            IN  /\ items' = done.items
                /\ torn' = (done.result = "failed" \/ (torn /\ done.result = "refused"))
                /\ config' = IF done.result = "ok" THEN [config EXCEPT ![o] = req] ELSE config
  /\ UNCHANGED <<sdk, dev, held, line, refused, live, src, script, mode>>

set_center_frequency_hz(o) == \E hz \in Centers \cup {0} : Retune(o, [config[o] EXCEPT !.center = hz])
set_sample_rate_hz(o)      == \E hz \in Rates : Retune(o, [config[o] EXCEPT !.rate = hz])
\* a level is configured with the rest of the tuple; its value is left out
set_reference_level_dbm(o) == Retune(o, config[o])

\* SpectranSource::set_rf_span_hz.
set_rf_span_hz(o) ==
  /\ o \in Spectrans /\ Idle(o) /\ src[o]["kept"].made
  /\ \E hz \in SpanBounds :
       LET wanted == [config EXCEPT ![o].span = hz] IN
       IF ~src[o]["kept"].device
       THEN config' = (IF mode[o] = "iqreceiver" THEN wanted ELSE config)
              /\ UNCHANGED <<items, torn>>
       ELSE \E n \in 0..1 :
              LET done == set_rf_span(mode[o], dev, items, hz, n)
              IN  /\ items' = done.items
                  /\ torn' = torn
                  /\ config' = IF done.result = "ok"
                               THEN [config EXCEPT ![o].span = done.items["spanfreq"]]
                               ELSE config
  /\ UNCHANGED <<sdk, dev, held, line, refused, live, src, script, mode>>
-----------------------------------------------------------------------------
(* The vendor calls, as native_sdk.rs makes them. *)

\* NativeSdkClient::new, for which the library may be missing, and
\* init_with_path, under SDK_LIVE_INITS.
NeedsInit(n) == n = 0
init_with_path(o) ==
  /\ Calling(o, "init")
  /\ \/ /\ live' = live + 1 /\ sdk' = "up"
        /\ Done(o) /\ Set(o, [NewSource EXCEPT !.initialized = TRUE])
     \/ /\ NeedsInit(live)
        /\ Set(o, NewSource)
        /\ script' = [script EXCEPT ![o] = Dropping(NewSource, Slot(o))]
        /\ UNCHANGED <<sdk, live>>
     \/ script' = [script EXCEPT ![o] = <<>>] /\ UNCHANGED <<sdk, live, src>>
  /\ UNCHANGED <<dev, items, held, line, refused, mode, config, torn>>

open_handle(o) ==
  /\ Calling(o, "open_handle")
  /\ \/ sdk = "up" /\ Done(o) /\ Set(o, [Me(o) EXCEPT !.handle = TRUE])
     \/ Failed(o) /\ UNCHANGED src
  /\ UNCHANGED <<vendor, live, mode, config, torn>>

\* find_devices and the choice of one: no device, one that is not ready, and,
\* for a SpectranSource, one that is active are errors.
MaySelect(o) == o \in Spectrans => held = Nobody
FindDevices(o) ==
  /\ Calling(o, "find")
  /\ \/ MaySelect(o) /\ Done(o)
     \/ Failed(o)
  /\ UNCHANGED <<vendor, live, src, mode, config, torn>>

\* NativeSdkSource::open_device: refused over a live device, and by the SDK
\* while another handle holds it; a partial open is released before the error.
MayHold == held = Nobody
MayOpen(i) == ~i.device
open_device(o) ==
  /\ Calling(o, "open")
  /\ \/ /\ MayOpen(Me(o)) /\ MayHold
        /\ held' = o /\ refused' = {}
        /\ Done(o) /\ Set(o, [Me(o) EXCEPT !.device = TRUE])
     \/ Failed(o) /\ UNCHANGED <<held, refused, src>>
  /\ UNCHANGED <<sdk, dev, items, line, live, mode, config, torn>>

Configure(o, n) ==
  IF o \in Sinks THEN configure_iq_transmitter(dev, items, config[o], n)
                 ELSE configure_iq_receiver(mode[o], dev, items, config[o], n)
ConfigureWrites(o) ==
  IF o \in Sinks THEN TransmitWrites(dev, config[o])
                 ELSE Writes(mode[o], dev, items, config[o])
CallConfigure(o) ==
  /\ Calling(o, "configure")
  /\ \E n \in Accepted(ConfigureWrites(o)) :
       LET done == Configure(o, n)
       IN  /\ items' = done.items
           /\ torn' = (done.result = "failed" \/ (torn /\ done.result = "refused"))
           /\ IF done.result = "ok" THEN Done(o) ELSE Failed(o)
  /\ UNCHANGED <<sdk, dev, held, line, refused, live, src, mode, config>>

\* self.native_source = Some(source): the source it had is dropped.
ReplaceSource(o) ==
  /\ Calling(o, "replace")
  /\ script' = [script EXCEPT ![o] =
                  Dropping(src[o]["kept"], "kept") \o Calls("fresh", <<"install">>) \o Tail(@)]
  /\ UNCHANGED <<vendor, live, src, mode, config, torn>>
InstallSource(o) ==
  /\ Calling(o, "install")
  /\ src' = [src EXCEPT ![o] = [kept |-> @["fresh"], fresh |-> NoSource]]
  /\ Done(o)
  /\ UNCHANGED <<vendor, live, mode, config, torn>>

\* Mutant: what was attempted and failed is not marked.
Attempted_not(i, call) == i

\* start_streaming marks what it attempts before the call: a connect or start
\* that fails may have acquired the device all the same.
Marked(i, call) == [i EXCEPT !.device_connected = TRUE, !.stream_active = @ \/ call = "start"]
Attempted(i, call) == Marked(i, call)
connect_device(o) ==
  /\ Calling(o, "connect")
  /\ IF Me(o).stream_active \/ ~Me(o).device
     THEN script' = [script EXCEPT ![o] = <<>>] /\ UNCHANGED <<line, src>>
     ELSE /\ line' \in {line, "connected"}
          /\ \/ line' = "connected" /\ Done(o) /\ Set(o, Marked(Me(o), "connect"))
             \/ /\ Set(o, Attempted(Me(o), "connect"))
                /\ script' = [script EXCEPT ![o] = Stopping(src'[o][Slot(o)], Slot(o))]
  /\ UNCHANGED <<sdk, dev, items, held, refused, live, mode, config, torn>>

start_device(o) ==
  /\ Calling(o, "start")
  /\ line' \in {line, "started"}
  /\ \/ line' = "started" /\ Done(o) /\ Set(o, Marked(Me(o), "start"))
     \/ /\ Set(o, Attempted(Me(o), "start"))
        /\ script' = [script EXCEPT ![o] = Stopping(src'[o][Slot(o)], Slot(o))]
  /\ UNCHANGED <<sdk, dev, items, held, refused, live, mode, config, torn>>

stop_device(o) ==
  /\ Calling(o, "stop")
  /\ \/ line' = "connected" /\ UNCHANGED refused
     \/ UNCHANGED line /\ refused' = refused \cup {"stop"}
  /\ Done(o)
  /\ UNCHANGED <<sdk, dev, items, held, live, src, mode, config, torn>>

disconnect_device(o) ==
  /\ Calling(o, "disconnect")
  /\ \/ line' = "off" /\ UNCHANGED refused
     \/ UNCHANGED line /\ refused' = refused \cup {"disconnect"}
  /\ Done(o)
  /\ UNCHANGED <<sdk, dev, items, held, live, src, mode, config, torn>>

\* device.take() and close_device: a device that does not close is kept, "for
\* Drop's last cleanup attempt".
Retained(i) == i
Stopped(i) == [i EXCEPT !.device_connected = FALSE, !.stream_active = FALSE]
close_device(o) ==
  /\ Calling(o, "close")
  /\ \/ /\ Me(o).device
        /\ held' = Nobody /\ line' = "off" /\ UNCHANGED refused
        /\ Set(o, [Stopped(Me(o)) EXCEPT !.device = FALSE])
     \/ /\ Me(o).device
        /\ refused' = refused \cup {IF "close" \in refused THEN "closed_again" ELSE "close"}
        /\ UNCHANGED <<held, line>>
        /\ Set(o, Retained(Stopped(Me(o))))
     \/ ~Me(o).device /\ UNCHANGED <<held, line, refused, src>>
  /\ Done(o)
  /\ UNCHANGED <<sdk, dev, items, live, mode, config, torn>>

close_handle(o) ==
  /\ Calling(o, "close_handle")
  /\ Set(o, [Me(o) EXCEPT !.handle = FALSE])
  /\ Done(o)
  /\ UNCHANGED <<vendor, live, mode, config, torn>>

\* Mutant: every client shuts the SDK down.
LastOut_any(n) == TRUE

\* shutdown, under SDK_LIVE_INITS: the flag is swapped, and only the last
\* client shuts the SDK down.
WasInitialized(i) == i.initialized
Released(n) == IF n = 0 THEN 0 ELSE n - 1
LastOut(n) == n = 0
shutdown(o) ==
  /\ Calling(o, "shutdown")
  /\ Set(o, NoSource)
  /\ IF ~WasInitialized(Me(o)) THEN UNCHANGED <<sdk, live>>
     ELSE /\ live' = Released(live)
          /\ sdk' \in IF LastOut(live') THEN {"up", "down"} ELSE {sdk}
  /\ Done(o)
  /\ UNCHANGED <<dev, items, held, line, refused, mode, config, torn>>
-----------------------------------------------------------------------------
Init ==
  /\ sdk = "down" /\ dev \in Devices
  /\ \E c \in Clocks :
       /\ "receiverclock" \notin dev.present => c = DEFAULT_RECEIVER_CLOCK
       /\ items = [i \in Items |-> CASE i = "receiverchannel" -> Rx1
                                      [] i = "receiverclock" -> c
                                      [] OTHER -> 0]
  /\ held = Nobody /\ line = "off" /\ refused = {}
  /\ live = 0 /\ torn = FALSE
  /\ src = [o \in Owners |-> [s \in Slots |-> NoSource]]
  /\ script = [o \in Owners |-> <<>>]
  /\ \E setup \in [Owners -> UNION {Setups[o] : o \in Owners}] :
       /\ \A o \in Owners : setup[o] \in Setups[o]
       /\ mode = [o \in Owners |-> setup[o][1]]
       /\ config = [o \in Owners |-> setup[o][2]]

Operation(o) ==
  \/ SpectranNew(o) \/ SpectranStart(o) \/ BlockInitialize(o) \/ BlockStart(o)
  \/ stop_streaming(o) \/ DropOwner(o)
  \/ set_center_frequency_hz(o) \/ set_sample_rate_hz(o) \/ set_reference_level_dbm(o)
  \/ set_rf_span_hz(o)
VendorCall(o) ==
  \/ init_with_path(o) \/ open_handle(o) \/ FindDevices(o) \/ open_device(o)
  \/ CallConfigure(o) \/ ReplaceSource(o) \/ InstallSource(o)
  \/ connect_device(o) \/ start_device(o) \/ stop_device(o) \/ disconnect_device(o)
  \/ close_device(o) \/ close_handle(o) \/ shutdown(o)
Next == \E o \in Owners : Operation(o) \/ VendorCall(o)

Spec == Init /\ [][Next]_vars
-----------------------------------------------------------------------------
Clients == {i \in Owners \X Slots : src[i[1]][i[2]].initialized}

\* Counting the live initialisations "shuts it down on the last, rather than
\* tearing it down under a source that is still streaming".
LiveInitsAreTrue == live = Cardinality(Clients)
SdkOutlivesHandles == \A o \in Owners, s \in Slots : src[o][s].handle => sdk = "up"

\* A stop that returned, and a start that failed, leave the device running only
\* as far as the SDK refused to bring it back.
StoppedIsStopped ==
  \A o \in Owners :
    Idle(o) /\ held = o /\ ~src[o]["kept"].stream_active =>
      /\ line # "off" => "disconnect" \in refused
      /\ line = "started" => "stop" \in refused

\* "an opened device that is never closed stays exclusively held until the
\* process exits": only one whose close the SDK refused each time is.
DeviceIsReleased ==
  \A o \in Owners :
    held = o /\ (\A s \in Slots : ~src[o][s].device) => "closed_again" \in refused

\* The device is as its source was last told it is, whatever was retuned while
\* it was open, closed or failing: "retunes cannot silently revert the channel".
SettingsHold ==
  \A o \in Spectrans :
    src[o]["kept"].device /\ ~torn /\ Idle(o) => Configured(mode[o], dev, items, config[o])

\* A rate the clock a call installs cannot carry is refused "before the first
\* write": it is never on the device, not even on the way to an error.
OverwideIsNeverWritten ==
  items["spanfreq"] = 0 \/ validate_iq_mode(items["spanfreq"], DEFAULT_RECEIVER_CLOCK)

\* A device does not stream at a rate its clock cannot carry.
RateFitsClock ==
  \A o \in Spectrans \cup Sources :
    src[o]["kept"].stream_active /\ ~torn /\ mode[o] = "raw" /\ ~explicit_raw(config[o]) =>
      validate_iq_mode(config[o].rate, read_receiver_clock(dev, items))

\* The SDK is up as long as a client of the process uses it, whoever failed to begin
\* or ended beside it.
SdkIsShared == TypeOK /\ LiveInitsAreTrue /\ SdkOutlivesHandles

\* Stopping, failing and dropping give the device back as far as the SDK lets them.
DeviceIsGivenBack == StoppedIsStopped /\ DeviceIsReleased

\* An open device is configured as its source was last told, through errors half way,
\* and never beyond what it can do on the way there.
DeviceIsAsTold == SettingsHold /\ OverwideIsNeverWritten /\ RateFitsClock
=============================================================================
