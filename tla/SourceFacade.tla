---------------------------- MODULE SourceFacade ----------------------------
(***************************************************************************)
(* SpectranSource (unified_source.rs) as the bindings see it: one value    *)
(* behind which the stream comes from the native SDK, an HTTP server or a  *)
(* recording.  Each operation is the set of what it may come to: the       *)
(* source it leaves, why it ended, and what it read.                       *)
(*                                                                         *)
(* How each backend gets there is the business of SpectranReads,           *)
(* SpectranTuning, HttpConnection, NativeReads, NativeLifecycle and        *)
(* RtsaFile.  Samples are numbered in the order the backend has them.      *)
(***************************************************************************)
EXTENDS Naturals, Sequences, FiniteSets

LOCAL INSTANCE FiniteSetsExt

Backends == {"native", "http", "file"}

(***************************************************************************)
(* A configuration: a URL, a path ("missing" names no file), a forced type *)
(* and the native receiver options ("bad" ones name no mode or family).    *)
(***************************************************************************)
NoChoice == "none"
Configs ==
  [url : BOOLEAN, file : {NoChoice, "there", "missing"}, forced : Backends \cup {NoChoice},
   native : {NoChoice, "given", "bad"}]
DefaultConfig == [url |-> FALSE, file |-> NoChoice, forced |-> NoChoice, native |-> NoChoice]

\* A path or a URL is taken at its word; with neither, the SDK if there is one.
detect_best_source_type(config, installed) ==
  IF config.file = "there" THEN "file"
  ELSE IF config.file = "missing" THEN "error"
  ELSE IF config.url THEN "http"
  ELSE IF installed THEN "native" ELSE "http"

source_type(config, installed) ==
  IF config.forced # NoChoice THEN config.forced ELSE detect_best_source_type(config, installed)

Refused(config, type) ==
  config.native = "bad" \/ (config.native = "given" /\ type # "native")

(***************************************************************************)
(* A source.  open: http_receiver, the SDK device or the file is there;    *)
(* live: the reader task runs, the SDK streams.  mode: how the stream has  *)
(* been read.  ready: the samples the backend has; next: the number of     *)
(* the first of them.                                                      *)
(***************************************************************************)
Sources(max) ==
  [type : Backends, open : BOOLEAN, live : BOOLEAN, mode : {NoChoice, "mono", "dual"},
   ready : 0..max, next : 1..max + 1, overrun : BOOLEAN]

Fresh(type) ==
  [type |-> type, open |-> TRUE, live |-> type # "native", mode |-> NoChoice, ready |-> 0,
   next |-> 1, overrun |-> FALSE]

Ok(s)       == [source |-> s, why |-> "ok", read |-> 0, missed |-> 0]
Fails(s)    == [Ok(s) EXCEPT !.why = "inner"]
TimesOut(s) == [Ok(s) EXCEPT !.why = "timeout"]
\* Error::StreamClosed: the reader task ended, for whatever reason.
Closed(s)   == [Ok(s) EXCEPT !.why = "closed"]

\* Opening a recording gives the rate and centre of its metadata.
init_file_source(config) ==
  IF config.file = NoChoice THEN {} ELSE {Fresh("file")}
init_http_source(config) == {Fresh("http")}
init_native_sdk(config, installed) == IF installed THEN {Fresh("native")} ELSE {}

\* What SpectranSource::new may give; it may always fail instead.
new(config, installed) ==
  LET type == source_type(config, installed)
  IN  IF type = "error" \/ Refused(config, type) THEN {}
      ELSE CASE type = "native" -> init_native_sdk(config, installed)
             [] type = "http"   -> init_http_source(config)
             [] type = "file"   -> init_file_source(config)

Halted(s) == [s EXCEPT !.live = FALSE, !.open = FALSE, !.mode = NoChoice,
                       !.next = @ + s.ready, !.ready = 0]

\* A reader that ended is replaced; its stash is gone even when no other comes.
Restarted(s) ==
  {[s EXCEPT !.live = FALSE, !.next = @ + n, !.ready = @ - n, !.overrun = FALSE] : n \in 0..s.ready}

\* A start of a native source that stopped opens the device again, one that fails closes it.
start_streaming(s) ==
  CASE s.type = "native" ->
         IF s.open /\ s.live THEN {Ok(s)}
         ELSE {Ok([s EXCEPT !.open = TRUE, !.live = TRUE, !.mode = NoChoice]),
               Fails(Halted(s))}
    [] s.type = "http" ->
         IF s.open /\ s.live THEN {Ok(s)}
         ELSE {Ok([Halted(s) EXCEPT !.overrun = FALSE, !.open = TRUE, !.live = TRUE])}
              \cup {Fails(r) : r \in Restarted(s)}
    [] s.type = "file" -> {Ok(s)}

stop_streaming(s) ==
  CASE s.type = "native" -> {Ok(Halted(s))} \cup (IF s.open THEN {Fails(Halted(s))} ELSE {})
    [] s.type = "http"   -> {Ok(Halted(s))}
    [] s.type = "file"   -> {Ok(s)}

\* Setters of the tuning, clock and GPS mode: a recording ignores them.
Set(s) ==
  CASE s.type = "native" -> {Ok(s), Fails(s)}
    [] s.type = "http"   -> {Ok(s), Fails(s)}
    [] s.type = "file"   -> {Ok(s)}

-----------------------------------------------------------------------------
(* Reads. *)

\* n samples of the stream handed to the caller; samples may have been missed before them.
Given(s, n) ==
  {[Ok([s EXCEPT !.ready = @ - n, !.next = @ + n, !.overrun = @ \/ gap]) EXCEPT !.read = n] :
     gap \in IF n > 0 /\ s.type # "file" THEN BOOLEAN ELSE {FALSE}}
\* n samples taken from the device by a read that then failed.
Lost(s, n) ==
  [Fails([s EXCEPT !.ready = @ - n, !.next = @ + n]) EXCEPT !.missed = n]

Upto(s, max) == Min({s.ready, max})

\* A read of the HTTP stream waits until the deadline; one of nothing asks for nothing.
HttpRead(s, max) ==
  IF ~s.open THEN {Fails(s)}
  ELSE IF max = 0 THEN Given(s, 0)
  ELSE IF s.ready > 0 THEN UNION {Given(s, n) : n \in 1..Upto(s, max)}
  ELSE IF s.live THEN {TimesOut(s)} ELSE {Closed(s)}

FileRead(s, max) == Given(s, Upto(s, max)) \cup {Fails(s)}

\* One round of the native read, of either kind of stream, latched to the first.
Latched(s, mode) == [s EXCEPT !.mode = IF @ = NoChoice THEN mode ELSE @]
NativeRound(s, max, mode) ==
  IF ~(s.open /\ s.live) \/ s.mode \notin {NoChoice, mode} THEN {Fails(s)}
  ELSE LET l == Latched(s, mode)
       IN  UNION {Given(l, n) \cup {Lost(l, n)} : n \in 0..Upto(s, max)}

\* Rounds until the deadline: what a failing round had collected is lost, and a read that
\* collected nothing has timed out.
WithinDeadline(s, max, mode) ==
  {IF r.why = "ok" /\ r.read = 0 /\ max > 0 THEN [r EXCEPT !.why = "timeout"] ELSE r :
     r \in NativeRound(s, max, mode)}

read_samples(s, max) ==
  CASE s.type = "native" -> NativeRound(s, max, "mono")
    [] s.type = "http"   -> HttpRead(s, max)
    [] s.type = "file"   -> FileRead(s, max)

read_samples_deadline(s, max) ==
  IF s.type = "native" THEN WithinDeadline(s, max, "mono") ELSE read_samples(s, max)

read_samples_dual(s, max) ==
  IF s.type = "native" THEN NativeRound(s, max, "dual") ELSE {Fails(s)}

read_samples_dual_deadline(s, max) ==
  IF s.type = "native" THEN WithinDeadline(s, max, "dual") ELSE {Fails(s)}

\* Only the HTTP stream and the SDK tell of overruns.
take_overrun(s) == [s EXCEPT !.overrun = FALSE]

-----------------------------------------------------------------------------
(* What it says of itself. *)

\* The native device answers while it is open, the HTTP server may, a recording has none.
device_capabilities(s) ==
  CASE s.type = "native" -> IF s.open THEN {"known", "unknown"} ELSE {"unknown"}
    [] s.type = "http"   -> {"known", "unknown"}
    [] s.type = "file"   -> {"unknown"}

-----------------------------------------------------------------------------
(* The world's part: samples arrive, the stream ends. *)

Arrivals(s) ==
  IF s.live THEN {[s EXCEPT !.ready = @ + 1]} ELSE {}
Endings(s) == IF s.type = "http" /\ s.live THEN {[s EXCEPT !.live = FALSE]} ELSE {}
=============================================================================
