-------------------------------- MODULE CApi --------------------------------
(***************************************************************************)
(* The C interface (c_api.rs): entry points over opaque pointers.  What a  *)
(* failing call leaves in its thread's LAST_ERROR, what a read copies out  *)
(* of which buffer, what the caller owns and has to free, and the calls    *)
(* that cannot block on an asynchronous answer where they are made.        *)
(*                                                                         *)
(* The header allows one call at a time on an object, so that a call is a  *)
(* step; threads meet in LAST_ERROR and in what the objects were left as.  *)
(***************************************************************************)
EXTENDS SourceFacade

LOCAL INSTANCE FiniteSetsExt

CONSTANTS
  Jobs,          \* what a program is for: "receive", "control" or "transmit"; what follows is of each
  Callers,       \* its threads
  Builds,        \* the configurations it builds from
  MaxSamples, Lengths

Threads == UNION {Callers[j] : j \in Jobs}

VARIABLES
  job,
  installed,     \* is the native SDK there?
  error,         \* LAST_ERROR of each thread: why its message was left, or NoMessage
  last,          \* what each thread's last call that may fail returned, and what it did to its slot
  returned,      \* the thread whose call this step was, of those that may fail
  builder, source, client, sink,
  staging,       \* what the source's staging buffers hold
  heap, held,    \* what is allocated, and the structure or string the caller owns
  out            \* what the last read wrote to the caller's buffer

vars == <<job, installed, error, last, returned, builder, source, client, sink, staging, heap, held, out>>
objects == <<builder, source, client, sink>>

NoObject  == [none |-> TRUE]
NoMessage == "none"
Nobody    == "nobody"
NoBuffer  == <<0>>   \* nothing allocated
Codes == {"success", "null", "string", "internal", "context", "-1", "-3"}
\* Where an entry point returns a pointer or a flag, its NULL or false is "-1" here too.
\* LAST_ERROR is cleared and filled, cleared only, or kept as it was.
Slots == {"told", "cleared", "kept"}

\* The parts a structure may be of.
InfoParts == {{"struct"}, {"struct", "serial"}}
CapabilityParts ==
  {{"struct"}, {"struct", "texts"}, {"struct", "rates", "clocks"},
   {"struct", "texts", "rates", "clocks", "names"}}

TypeOK ==
  /\ job \in Jobs /\ installed \in BOOLEAN
  /\ error \in [Threads -> {NoMessage, "null", "string", "inner", "context", "timeout", "length"}]
  /\ last \in [Threads -> [code : Codes, slot : Slots]]
  /\ returned \in Threads \cup {Nobody}
  /\ builder \in {NoObject} \cup Configs
  /\ source \in {NoObject} \cup Sources(MaxSamples)
  /\ client \in BOOLEAN
  /\ sink \in {NoObject} \cup [backend : {"none", "loaded", "open", "on"}, wanted : BOOLEAN]
  /\ \A b \in {staging.rx1, staging.rx2, out} : b = NoBuffer \/ b \in Seq(1..MaxSamples)

Init ==
  /\ job \in Jobs /\ installed \in BOOLEAN
  /\ error = [t \in Threads |-> NoMessage] /\ last = [t \in Threads |-> [code |-> "success", slot |-> "told"]]
  /\ returned = Nobody
  /\ builder = NoObject /\ source = NoObject /\ client = FALSE /\ sink = NoObject
  /\ staging = [rx1 |-> NoBuffer, rx2 |-> NoBuffer]
  /\ heap = {} /\ held = NoObject /\ out = << >>

-----------------------------------------------------------------------------
(* The slot. *)

\* set_last_error after clear_last_error.
Told(t, why) == [error EXCEPT ![t] = why]

Return(t, code, why) ==
  /\ error' = Told(t, why)
  /\ last' = [last EXCEPT ![t] = [code |-> code, slot |-> "told"]]
  /\ returned' = t
  /\ UNCHANGED <<job, installed>>
Untold == returned' = Nobody /\ UNCHANGED <<job, installed, error, last>>

\* A caller in a tokio runtime of one thread is refused, as blocking there would deadlock; one in
\* a runtime of several blocks in place, any other on the library's own.
ffi_block_on(outcomes) ==
  outcomes \cup {[why |-> "context", source |-> source, read |-> 0, missed |-> 0]}

Message(o) == CASE o.why = "ok" -> NoMessage [] o.why = "closed" -> "inner" [] OTHER -> o.why
Unit(o) == CASE o.why = "ok" -> "success" [] o.why = "context" -> "context" [] OTHER -> "internal"
Pointer(o) == IF o.why = "ok" THEN "success" ELSE "-1"

\* An entry point given NULL; those that return a code or a pointer leave a message, but for four.
NullArgument(t) ==
  /\ \E code \in {"null", "-1"} : Return(t, code, "null")
  /\ UNCHANGED <<objects, staging, heap, held, out>>

\* spectran_source_rf_span_range, _set_rf_span_hz and _builder_native_options clear the slot and
\* leave no message.
NullSpan(t) ==
  /\ job = "control"
  /\ error' = Told(t, NoMessage)
  /\ last' = [last EXCEPT ![t] = [code |-> "internal", slot |-> "cleared"]] /\ returned' = t
  /\ UNCHANGED <<job, installed, objects, staging, heap, held, out>>

\* spectran_source_get_source_info returns NULL and leaves the slot to an earlier call's message.
NullInfo(t) ==
  /\ job = "control"
  /\ last' = [last EXCEPT ![t] = [code |-> "-1", slot |-> "kept"]] /\ returned' = t
  /\ UNCHANGED <<job, installed, error, objects, staging, heap, held, out>>

-----------------------------------------------------------------------------
(* Building. *)

spectran_source_builder_new ==
  /\ job # "transmit" /\ builder = NoObject
  /\ builder' = DefaultConfig
  /\ Untold /\ UNCHANGED <<source, client, sink, staging, heap, held, out>>

\* The setters, in whatever order: the configuration they add up to.  A source that was built
\* keeps its own copy.
spectran_source_builder ==
  /\ builder # NoObject /\ source = NoObject
  /\ \E config \in Builds[job] : builder' = [config EXCEPT !.native = builder.native]
  /\ Untold /\ UNCHANGED <<source, client, sink, staging, heap, held, out>>

spectran_source_builder_native_options(t) ==
  /\ job = "control" /\ builder # NoObject /\ source = NoObject
  /\ \/ \E native \in {"given", "bad"} :
          builder' = [builder EXCEPT !.native = native] /\ Return(t, "success", NoMessage)
     \/ UNCHANGED builder /\ Return(t, "internal", "string")
  /\ UNCHANGED <<source, client, sink, staging, heap, held, out>>

\* The builder is borrowed: it may build again.
spectran_source_build(t) ==
  /\ builder # NoObject /\ source = NoObject
  /\ \E o \in ffi_block_on({Ok(s) : s \in new(builder, installed)} \cup {Fails(NoObject)}) :
       source' = o.source /\ Return(t, Pointer(o), Message(o))
  /\ UNCHANGED <<builder, client, sink, staging, heap, held, out>>

spectran_source_free ==
  /\ source # NoObject
  /\ source' = NoObject
  /\ staging' = [rx1 |-> NoBuffer, rx2 |-> NoBuffer]
  /\ Untold /\ UNCHANGED <<builder, client, sink, heap, held, out>>

-----------------------------------------------------------------------------
(* Reading. *)

\* Mutant: the lent buffer keeps the samples it had.
take_scratch_uncleared(buffer) == IF buffer = NoBuffer THEN << >> ELSE buffer
take_scratch(buffer) == << >>

\* The samples an outcome read are appended to the buffer it was given.
Filled(o, buffer) == buffer \o [i \in 1..o.read |-> source.next + i - 1]
Copied(o, temp, len) ==
  IF o.why = "ok" THEN SubSeq(temp, 1, Min({o.read, len, Len(temp)})) ELSE << >>
Count(o) == CASE o.why = "ok" -> "success" [] o.why = "timeout" -> "-3" [] OTHER -> "-1"

Reads(t, outcomes, len, buffer, Kept(_)) ==
  \E o \in ffi_block_on(outcomes) :
    /\ source' = o.source
    /\ out' = Copied(o, Filled(o, buffer), len)
    /\ staging' = Kept(Filled(o, buffer))
    /\ Return(t, Count(o), Message(o))
    /\ UNCHANGED <<builder, client, sink, heap, held>>

\* These two read into vectors of their own.
spectran_source_read_samples(t) ==
  /\ job = "receive" /\ source # NoObject
  /\ \E len \in Lengths : Reads(t, read_samples(source, len), len, << >>, LAMBDA temp : staging)

spectran_source_read_samples_dual(t) ==
  /\ job = "receive" /\ source # NoObject
  /\ \E len \in Lengths : Reads(t, read_samples_dual(source, len), len, << >>, LAMBDA temp : staging)

\* return_scratch is reached on every path.
return_scratch(temp) == [staging EXCEPT !.rx1 = temp]
return_dual_scratch(temp) == [rx1 |-> temp, rx2 |-> temp]

spectran_source_read_samples_timeout(t) ==
  /\ job = "receive" /\ source # NoObject
  /\ \E len \in Lengths :
       Reads(t, read_samples_deadline(source, len), len, take_scratch(staging.rx1), return_scratch)

spectran_source_read_samples_dual_timeout(t) ==
  /\ job = "receive" /\ source # NoObject
  /\ \E len \in Lengths :
       Reads(t, read_samples_dual_deadline(source, len), len, take_scratch(staging.rx1),
             return_dual_scratch)

\* The accessors that cannot fail leave the slot as it is.
spectran_source_take_overrun ==
  /\ job = "receive" /\ source # NoObject
  /\ source' = take_overrun(source)
  /\ Untold /\ UNCHANGED <<builder, client, sink, staging, heap, held, out>>

-----------------------------------------------------------------------------
(* Streaming and tuning. *)

SourceCall(t, outcomes) ==
  /\ \E o \in ffi_block_on(outcomes) : source' = o.source /\ Return(t, Unit(o), Message(o))
  /\ UNCHANGED <<builder, client, sink, staging, heap, held, out>>

spectran_source_start_streaming(t) == source # NoObject /\ SourceCall(t, start_streaming(source))
spectran_source_stop_streaming(t)  == source # NoObject /\ SourceCall(t, stop_streaming(source))
\* The frequency, the rate, the level and the span.
spectran_source_set(t) == job = "control" /\ source # NoObject /\ SourceCall(t, Set(source))

spectran_source_set_clock_source(t) ==
  /\ job = "control" /\ source # NoObject
  /\ \/ SourceCall(t, Set(source))
     \/ Return(t, "string", "string") /\ UNCHANGED <<objects, staging, heap, held, out>>

-----------------------------------------------------------------------------
(* What the caller is given to keep. *)

\* A structure of these parts is the caller's until it frees it.
Hands(kind, parts) ==
  /\ held = NoObject
  /\ held' = [kind |-> kind, parts |-> parts]
  /\ heap' = heap \cup parts
HandsNone == held = NoObject /\ UNCHANGED <<heap, held>>

spectran_source_get_source_info ==
  /\ job = "control" /\ source # NoObject
  /\ \E parts \in InfoParts : Hands("info", parts)
  /\ Untold /\ UNCHANGED <<objects, staging, out>>

\* Nothing it asks can fail: what is not known is left out.
spectran_source_get_capabilities(t) ==
  /\ job = "control" /\ source # NoObject
  /\ \E caps \in device_capabilities(source), o \in ffi_block_on({Ok(source)}) :
       /\ IF o.why # "ok" THEN HandsNone
          ELSE IF caps = "unknown" THEN Hands("capabilities", {"struct"})
          ELSE \E parts \in CapabilityParts : Hands("capabilities", parts)
       /\ Return(t, Pointer(o), Message(o))
  /\ UNCHANGED <<objects, staging, out>>

\* A document is made of whatever is known; one that cannot be made is an error.
spectran_source_capabilities_json(t) ==
  /\ job = "control" /\ source # NoObject
  /\ \E o \in ffi_block_on({Ok(source), Fails(source)}) :
       /\ IF o.why = "ok" THEN Hands("string", {"text"}) ELSE HandsNone
       /\ Return(t, Pointer(o), Message(o))
  /\ UNCHANGED <<objects, staging, out>>

spectran_source_rf_span_range(t) ==
  /\ job = "control" /\ source # NoObject
  /\ \E caps \in device_capabilities(source) :
       SourceCall(t, {Fails(source)} \cup IF caps = "known" THEN {Ok(source)} ELSE {})

\* A reading of nothing is a reading.
spectran_source_get_sensors(t) ==
  /\ job = "control" /\ source # NoObject
  /\ \E o \in ffi_block_on({Ok(source)}) : Return(t, Pointer(o), Message(o))
  /\ UNCHANGED <<objects, staging, heap, held, out>>

spectran_last_error(t) ==
  /\ error[t] # NoMessage
  /\ Hands("string", {"text"})
  /\ Untold /\ UNCHANGED <<objects, staging, out>>
spectran_get_error_message ==
  /\ Hands("string", {"text"})
  /\ Untold /\ UNCHANGED <<objects, staging, out>>

\* What each free gives back of what it is handed.
spectran_string_free(parts)      == {"text"}
spectran_source_info_free(parts) == {"struct"} \cup (parts \cap {"serial"})
spectran_server_info_free(parts) == {"struct", "texts"}
spectran_source_capabilities_free(parts) ==
  {"struct"} \cup (parts \cap {"texts", "rates", "clocks"})
    \cup (IF "clocks" \in parts THEN parts \cap {"names"} ELSE {})

Free ==
  /\ held # NoObject
  /\ heap' = heap \ CASE held.kind = "string" -> spectran_string_free(held.parts)
                      [] held.kind = "info"   -> spectran_source_info_free(held.parts)
                      [] held.kind = "server" -> spectran_server_info_free(held.parts)
                      [] OTHER -> spectran_source_capabilities_free(held.parts)
  /\ held' = NoObject
  /\ Untold /\ UNCHANGED <<objects, staging, out>>

-----------------------------------------------------------------------------
(* The endpoints client: a thread may ask the server what it is, apart from the source. *)

spectran_endpoints_client_new(t) ==
  /\ job = "control" /\ ~client
  /\ \/ client' = TRUE /\ Return(t, "success", NoMessage)
     \/ UNCHANGED client /\ \E why \in {"string", "inner"} : Return(t, "-1", why)
  /\ UNCHANGED <<builder, source, sink, staging, heap, held, out>>
spectran_endpoints_client_free ==
  /\ client /\ client' = FALSE
  /\ Untold /\ UNCHANGED <<builder, source, sink, staging, heap, held, out>>

spectran_endpoints_client_get_info(t) ==
  /\ client
  /\ \E o \in ffi_block_on({Ok(source), Fails(source)}) :
       /\ IF o.why = "ok" THEN Hands("server", {"struct", "texts"}) ELSE HandsNone
       /\ Return(t, Pointer(o), Message(o))
  /\ UNCHANGED <<objects, staging, out>>

\* A GET that fails is a reading of nothing.
spectran_endpoints_client_get_sensors(t) ==
  /\ client
  /\ \E o \in ffi_block_on({Ok(source)}) : Return(t, Pointer(o), Message(o))
  /\ UNCHANGED <<objects, staging, heap, held, out>>

\* control_streaming and control_recording.
spectran_endpoints_client_control(t) ==
  /\ client
  /\ \E o \in ffi_block_on({Ok(source), Fails(source)}) : Return(t, Unit(o), Message(o))
  /\ UNCHANGED <<objects, staging, heap, held, out>>

-----------------------------------------------------------------------------
(* Transmitting (unified_sink.rs). *)

spectran_sink_build(t) ==
  /\ job = "transmit" /\ sink = NoObject
  /\ sink' = [backend |-> "none", wanted |-> FALSE]
  /\ Return(t, "success", NoMessage)
  /\ UNCHANGED <<builder, source, client, staging, heap, held, out>>

spectran_sink_free ==
  /\ sink # NoObject /\ sink' = NoObject
  /\ Untold /\ UNCHANGED <<builder, source, client, staging, heap, held, out>>

\* The backend there was is stopped and given up, whether or not another loads.
initialize(backend) == IF installed THEN {"none", "loaded"} ELSE {"none"}
\* Open, configure and start the device; one that fails is left as it is.
Started(backend) == IF backend = "loaded" THEN {"loaded", "open", "on"} ELSE {backend}

spectran_sink_initialize(t) ==
  /\ sink # NoObject
  /\ \/ UNCHANGED sink /\ Return(t, "internal", "context")
     \/ \E loaded \in initialize(sink.backend) : \E b \in Started(loaded) :
            LET ok == loaded = "loaded" /\ b = "on"
            IN  /\ sink' = [backend |-> b, wanted |-> ok]
                /\ IF ok THEN Return(t, "success", NoMessage) ELSE Return(t, "internal", "inner")
  /\ UNCHANGED <<builder, source, client, staging, heap, held, out>>

\* A device that does not close is kept, for another try.
spectran_sink_stop_streaming(t) ==
  /\ sink # NoObject
  /\ \/ UNCHANGED sink /\ Return(t, "internal", "context")
     \/ /\ sink' = [backend |-> IF sink.backend = "none" THEN "none" ELSE "loaded", wanted |-> FALSE]
        /\ Return(t, "success", NoMessage)
     \/ /\ sink.backend \in {"open", "on"}
        /\ \E b \in {"loaded", "open"} : sink' = [backend |-> b, wanted |-> FALSE]
        /\ Return(t, "internal", "inner")
  /\ UNCHANGED <<builder, source, client, staging, heap, held, out>>

\* A write does not block on anything; it needs a device, not a stream.
spectran_sink_write_samples(t) ==
  /\ sink # NoObject
  /\ \/ Return(t, "internal", "length") \/ Return(t, "internal", "inner")
     \/ sink.backend \in {"open", "on"} /\ Return(t, "success", NoMessage)
  /\ UNCHANGED <<objects, staging, heap, held, out>>

-----------------------------------------------------------------------------
(* The device and the server. *)

Streams ==
  /\ job = "receive" /\ source # NoObject
  /\ source' \in {s \in Arrivals(source) \cup Endings(source) : s.next + s.ready <= MaxSamples + 1}
  /\ Untold /\ UNCHANGED <<builder, client, sink, staging, heap, held, out>>

Next ==
  \/ spectran_source_builder_new \/ spectran_source_builder
  \/ spectran_source_free \/ spectran_source_take_overrun \/ spectran_source_get_source_info
  \/ spectran_get_error_message \/ Free
  \/ spectran_endpoints_client_free \/ spectran_sink_free
  \/ Streams
  \/ \E t \in Callers[job] :
       \/ NullArgument(t) \/ NullSpan(t) \/ NullInfo(t)
       \/ spectran_source_builder_native_options(t) \/ spectran_source_build(t)
       \/ spectran_source_read_samples(t) \/ spectran_source_read_samples_dual(t)
       \/ spectran_source_read_samples_timeout(t) \/ spectran_source_read_samples_dual_timeout(t)
       \/ spectran_source_start_streaming(t) \/ spectran_source_stop_streaming(t)
       \/ spectran_source_set(t) \/ spectran_source_set_clock_source(t)
       \/ spectran_source_get_capabilities(t) \/ spectran_source_capabilities_json(t)
       \/ spectran_source_rf_span_range(t) \/ spectran_source_get_sensors(t)
       \/ spectran_last_error(t)
       \/ spectran_endpoints_client_new(t) \/ spectran_endpoints_client_get_info(t)
       \/ spectran_endpoints_client_get_sensors(t) \/ spectran_endpoints_client_control(t)
       \/ spectran_sink_build(t) \/ spectran_sink_initialize(t)
       \/ spectran_sink_stop_streaming(t) \/ spectran_sink_write_samples(t)

Spec == Init /\ [][Next]_vars

-----------------------------------------------------------------------------

Explains(why, code) ==
  CASE code = "success"  -> why = NoMessage
    [] code = "null"     -> why = "null"
    [] code = "string"   -> why = "string"
    [] code = "context"  -> why = "context"
    [] code = "-3"       -> why = "timeout"
    [] code \in {"-1", "internal"} -> why \notin {NoMessage, "timeout"}

\* What spectran_last_error gives a thread explains the code its own last call returned, whatever
\* the other threads' calls came to, and there is nothing to give after one that succeeded.  The
\* four null checks that say nothing are excepted: three leave no stale message either, and
\* nothing is claimed of what the fourth keeps.
MessageExplainsTheCode ==
  \A t \in Threads :
    /\ last[t].slot = "told" => Explains(error[t], last[t].code)
    /\ last[t].slot = "cleared" => error[t] = NoMessage

\* What is allocated is what the caller holds a pointer to: every part of a structure is freed
\* with it, at both levels of the clock list.
HeapIsWhatIsHeld == heap = IF held = NoObject THEN {} ELSE held.parts

\* A read gives samples the caller has not had, in order, whatever an earlier one left in the
\* staging buffer it shares with the other kind of read.
ReadsAreNext ==
  out' # out /\ out' # << >> =>
     /\ out' = [i \in DOMAIN out' |-> source.next + i - 1]
     /\ source'.next = source.next + Len(out')

\* A call refused for its arguments, or for where it was made, has changed nothing, and a read
\* that timed out has taken nothing from the stream: each may be made again.  A call that fails
\* on the way may have changed its object.
RefusalsTouchNothing ==
  LET t == returned'
      refused == \/ last'[t].slot # "told"
                 \/ error'[t] \in {"null", "string", "context", "length"}
  IN  t # Nobody =>
        /\ refused => UNCHANGED <<objects, heap, held>>
        /\ last'[t].code = "-3" => /\ source'.next = source.next
                                   /\ source'.ready = source.ready

\* A staging buffer that has grown is kept for the next read, whichever way this one ended.
StagingIsKept ==
  \A b \in {"rx1", "rx2"} :
     staging'[b] = NoBuffer /\ staging[b] # NoBuffer => source' = NoObject

\* The device transmits only for a sink whose last initialize succeeded, and that was not stopped.
AFailedSinkIsSilent == sink # NoObject /\ sink.backend = "on" => sink.wanted

\* A source whose builder asked for a backend, or named a file, is of no other.
NeverAnotherBackend ==
  source = NoObject /\ source' # NoObject =>
     /\ builder.forced # NoChoice => source'.type = builder.forced
     /\ builder.forced = NoChoice /\ builder.file # NoChoice => source'.type = "file"
     /\ builder.native = "given" => source'.type = "native"
=============================================================================
