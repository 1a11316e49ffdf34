--------------------------- MODULE PythonBinding ---------------------------
(***************************************************************************)
(* The Python module (python-aaronia/src/lib.rs): a SpectranSource whose   *)
(* calls release the interpreter's lock while they wait, so that others    *)
(* are made meanwhile; the loop over its blocks; open and a configuration; *)
(* and diagnose, which asks a server one thing after another.              *)
(*                                                                         *)
(* The extension library lets one call at a time have an object mutably,   *)
(* and refuses, without waiting, the call that comes meanwhile.            *)
(***************************************************************************)
EXTENDS SourceFacade

CONSTANTS
  PyThreads,      \* the interpreter's threads
  Servers,      \* what diagnose may find
  MaxSamples, BlockSizes, MaxRead

VARIABLES
  installed,
  source,       \* {} or the one there is
  pc,           \* of each thread: the call that waits, with what it has taken
  scratch,      \* read_scratch
  returned,     \* what the call that ended in this step came to
  asked,        \* the backend that the last call of open named
  server,       \* of a program that is aaronia-doctor: {} or the one it asks
  findings

vars == <<installed, source, pc, scratch, returned, asked, server, findings>>

Idle == [call |-> "none"]
Nothing == [call |-> "none", why |-> "none", block |-> << >>]

\* A call in progress: its name, who has what, and what it builds or takes.
Waiting ==
  [call : {"start", "open", "stop", "exit", "set", "look"}, taken : SUBSET Sources(MaxSamples)]
    \cup [call : {"read", "dual", "next"}, count : BlockSizes]

TypeOK ==
  /\ installed \in BOOLEAN
  /\ source \subseteq Sources(MaxSamples)
  /\ \A t \in PyThreads : pc[t] = Idle \/ pc[t] \in Waiting
  /\ scratch \in Seq(1..MaxSamples) /\ Len(scratch) <= MaxRead
  /\ returned.why \in {"none", "ok", "inner", "timeout", "closed", "value", "borrowed", "panic", "stop"}
  /\ returned.block \in Seq(1..MaxSamples)
  /\ asked \in Backends \cup {NoChoice}
  /\ \A i \in DOMAIN findings : findings[i] \in BOOLEAN

Init ==
  /\ installed \in BOOLEAN
  /\ source = {} /\ pc = [t \in PyThreads |-> Idle]
  /\ scratch = << >> /\ returned = Nothing
  /\ asked = NoChoice
  /\ server \in {{}} \cup {{s} : s \in Servers} /\ findings = << >>

-----------------------------------------------------------------------------
(* The configuration: a URL, a path or the SDK pins the backend. *)

set_http_base_url(c, url) ==
  [c EXCEPT !.url = url, !.forced = IF url THEN "http" ELSE @]
set_file_path(c, path) ==
  [c EXCEPT !.file = path, !.forced = IF path # NoChoice THEN "file" ELSE @]
set_force_native_sdk(c, on) ==
  [c EXCEPT !.forced = IF on THEN "native" ELSE IF @ = "native" THEN NoChoice ELSE @]

\* What the setters make of a configuration, two of them in any order.
Set_(cs) ==
  UNION {{set_http_base_url(c, u) : u \in BOOLEAN}
           \cup {set_file_path(c, p) : p \in {NoChoice, "there", "missing"}}
           \cup {set_force_native_sdk(c, on) : on \in BOOLEAN} : c \in cs}
Configured == Set_(Set_({DefaultConfig}))

-----------------------------------------------------------------------------
(* Calls. *)

Shared == {"look"}
Borrowed(by) == \E t \in PyThreads : pc[t].call \in by
Calls == {"start", "open", "stop", "exit", "set", "look", "read", "dual", "next"}
\* May another call have the object?
Free(call) == ~Borrowed(IF call \in Shared THEN Calls \ Shared ELSE Calls)

Ends(t, call, why, block) ==
  /\ pc' = [pc EXCEPT ![t] = Idle]
  /\ returned' = [call |-> call, why |-> why, block |-> block]

\* A call that finds the object borrowed; the loop's borrow of it cannot be refused.
Refused_(t) ==
  /\ pc[t] = Idle
  /\ \E call \in Calls \ {"open"} :
       ~Free(call) /\ Ends(t, "refused", IF call = "next" THEN "panic" ELSE "borrowed", << >>)
  /\ UNCHANGED <<installed, source, scratch, asked, server, findings>>

Begins(t, call) ==
  /\ pc[t] = Idle /\ Free(call)
  /\ returned' = Nothing
  /\ UNCHANGED <<installed, scratch, server, findings>>

Raises(t, call, why) ==
  /\ pc[t] = Idle /\ Free(call)
  /\ Ends(t, IF why = "ok" THEN call ELSE "refused", why, << >>)
  /\ UNCHANGED <<installed, source, scratch, asked, server, findings>>

\* The source there was goes on until another has started.
StartBegins(t) ==
  /\ Begins(t, "start")
  /\ \E config \in Configured :
       pc' = [pc EXCEPT ![t] = [call |-> "start", taken |-> new(config, installed)]]
  /\ UNCHANGED <<source, asked>>

Replaced(old, started) == IF started = {} THEN old ELSE started

StartEnds(t) ==
  /\ pc[t].call \in {"start", "open"}
  /\ \/ \E s \in pc[t].taken : \E o \in start_streaming(s) :
          /\ source' = Replaced(source, IF o.why = "ok" THEN {o.source} ELSE {})
          /\ Ends(t, pc[t].call, o.why, << >>)
     \/ \* SpectranSource::new fails.
        /\ source' = Replaced(source, {}) /\ Ends(t, pc[t].call, "inner", << >>)
  /\ UNCHANGED <<installed, scratch, asked, server, findings>>

\* open names one backend, or none, which is the local server; two are refused.
OpenChoice(url, file, sdk) ==
  IF url THEN set_http_base_url(DefaultConfig, TRUE)
  ELSE IF file # NoChoice THEN set_file_path(DefaultConfig, file)
  ELSE IF sdk THEN set_force_native_sdk(DefaultConfig, TRUE)
  ELSE set_http_base_url(DefaultConfig, TRUE)

open(t) ==
  \/ /\ source = {} /\ Begins(t, "open")
     /\ \E url, sdk \in BOOLEAN, file \in {NoChoice, "there", "missing"} :
          /\ ~(url /\ (sdk \/ file # NoChoice)) /\ ~(sdk /\ file # NoChoice)
          /\ asked' = IF file # NoChoice THEN "file" ELSE IF sdk THEN "native" ELSE "http"
          /\ pc' = [pc EXCEPT ![t] =
                      [call |-> "open", taken |-> new(OpenChoice(url, file, sdk), installed)]]
     /\ UNCHANGED source
  \/ Raises(t, "open", "value")

\* Option::take: the object has no source from here on, however the stop goes.
take(s) == {}

StopBegins(t) ==
  \E call \in {"stop", "exit"} :
    \/ /\ source # {} /\ Begins(t, call)
       /\ pc' = [pc EXCEPT ![t] = [call |-> call, taken |-> source]]
       /\ source' = take(source)
       /\ UNCHANGED asked
    \/ source = {} /\ Raises(t, call, "ok")

\* __exit__ raises what stopping did only when the body raised nothing.
StopEnds(t) ==
  /\ pc[t].call \in {"stop", "exit"}
  /\ \E s \in pc[t].taken : \E o \in stop_streaming(s) :
       \E body_raised \in IF pc[t].call = "exit" THEN BOOLEAN ELSE {FALSE} :
         Ends(t, pc[t].call, IF body_raised THEN "ok" ELSE o.why, << >>)
  /\ UNCHANGED <<installed, source, scratch, asked, server, findings>>

\* Setters of the tuning hold the object, the capabilities share it.
SetOrLook(t) ==
  \E call \in {"set", "look"} :
    \/ /\ source # {} /\ Begins(t, call)
       /\ pc' = [pc EXCEPT ![t] = [call |-> call, taken |-> {}]]
       /\ UNCHANGED <<source, asked>>
    \/ source = {} /\ Raises(t, call, "inner")
SetOrLookEnds(t) ==
  /\ pc[t].call \in {"set", "look"}
  /\ \E s \in source : \E o \in IF pc[t].call = "set" THEN Set(s) ELSE {Ok(s), Fails(s)} :
       source' = {o.source} /\ Ends(t, pc[t].call, o.why, << >>)
  /\ UNCHANGED <<installed, scratch, asked, server, findings>>

take_overrun_(t) ==
  /\ source # {} /\ pc[t] = Idle /\ Free("set")
  /\ source' = {take_overrun(s) : s \in source}
  /\ returned' = Nothing
  /\ UNCHANGED <<installed, pc, scratch, asked, server, findings>>

cleared(buffer) == << >>

\* read_into_scratch, for the arrays of both kinds and for the loop; pairs have vectors of their own.
ReadBegins(t) ==
  \E call \in {"read", "dual", "next"}, count \in BlockSizes :
    \/ /\ source # {} /\ count <= MaxRead
       /\ pc[t] = Idle /\ Free(call)
       /\ pc' = [pc EXCEPT ![t] = [call |-> call, count |-> count]]
       /\ scratch' = IF call = "dual" THEN scratch ELSE cleared(scratch)
       /\ returned' = Nothing
       /\ UNCHANGED <<installed, source, asked, server, findings>>
    \/ count > MaxRead /\ Raises(t, call, "value")
    \/ source = {} /\ Raises(t, call, "inner")

\* Mutant: any error ends the loop as the end of the stream does.
NextBlock_any(why, block) == IF why # "ok" \/ block = << >> THEN "stop" ELSE "ok"

\* The loop ends with an empty read, and with a stream that was closed.
NextBlock(why, block) ==
  IF why = "closed" \/ (why = "ok" /\ block = << >>) THEN "stop" ELSE why

ReadEnds(t) ==
  /\ pc[t].call \in {"read", "dual", "next"}
  /\ \E s \in source :
       \E o \in IF pc[t].call = "dual" THEN read_samples_dual(s, pc[t].count)
                ELSE read_samples(s, pc[t].count) :
         LET fresh  == [i \in 1..o.read |-> s.next + i - 1]
             filled == IF pc[t].call = "dual" THEN fresh ELSE scratch \o fresh
             block  == IF o.why = "ok" THEN SubSeq(filled, 1, o.read) ELSE << >>
         IN  /\ source' = {o.source}
             /\ scratch' = IF pc[t].call = "dual" THEN scratch ELSE filled
             /\ Ends(t, pc[t].call, IF pc[t].call = "next" THEN NextBlock(o.why, block) ELSE o.why, block)
  /\ UNCHANGED <<installed, asked, server, findings>>

-----------------------------------------------------------------------------
(* diagnose: the checks in their order, each only when those before it allow it. *)

Carriers == {"iq", "iq off the ladder", "iq without a rate"}

\* The inputs are asked in turn, up to the first that carries IQ.
FirstIq(s) ==
  LET iq == {i \in DOMAIN s.inputs : s.inputs[i] \in Carriers}
  IN  IF iq = {} THEN {} ELSE {CHOOSE i \in iq : \A j \in iq : i <= j}

\* The rate is compared with the ladder only when the header declares one, and not as zero.
IqFindings(s) ==
  IF FirstIq(s) = {} THEN <<FALSE>>
  ELSE IF \E i \in FirstIq(s) : s.inputs[i] = "iq off the ladder" THEN <<TRUE, FALSE>>
  ELSE <<TRUE>>

Checks(s) ==
  IF ~s.usable \/ ~s.reachable THEN <<FALSE>>
  ELSE IF ~s.lists \/ s.inputs = << >> THEN <<TRUE, FALSE>>
  ELSE <<TRUE, TRUE>> \o IqFindings(s)

\* The whole has a budget, and what it found by then is not told.
diagnose ==
  /\ findings = << >>
  /\ \E s \in server : findings' \in {Checks(s), <<FALSE>>}
  /\ UNCHANGED <<installed, source, pc, scratch, returned, asked, server>>

\* The exit status of aaronia-doctor.
doctor_cli(found) == \E i \in DOMAIN found : ~found[i]

-----------------------------------------------------------------------------

Streams ==
  /\ \E s \in source :
       \E r \in Arrivals(s) \cup Endings(s) : r.next + r.ready <= MaxSamples + 1 /\ source' = {r}
  /\ returned' = Nothing
  /\ UNCHANGED <<installed, pc, scratch, asked, server, findings>>

Next ==
  \/ diagnose
  \/ server = {} /\ Streams
  \/ server = {} /\ \E t \in PyThreads :
       \/ Refused_(t) \/ StartBegins(t) \/ StartEnds(t) \/ open(t)
       \/ StopBegins(t) \/ StopEnds(t) \/ SetOrLook(t) \/ SetOrLookEnds(t)
       \/ take_overrun_(t) \/ ReadBegins(t) \/ ReadEnds(t)

Spec == Init /\ [][Next]_vars

-----------------------------------------------------------------------------

\* A start that fails leaves the source that runs as it is, also when the new one was made.
AFailedStartChangesNothing ==
  returned'.call \in {"start", "open"} /\ returned'.why # "ok" => UNCHANGED source

\* From the moment stop_streaming or the end of a with block has begun, no other call reads from or
\* tunes that source, and when it returns, with an error or without, the object has none.
StopReleases ==
  /\ \A t \in PyThreads : pc[t].call \in {"stop", "exit"} => source = {}
  /\ returned.call \in {"stop", "exit"} /\ returned.why # "none" => source = {}

\* Whichever threads read, and by array or loop, each block is of the samples that come next.
BlocksAreNext ==
  returned'.block # << >> =>
     \E s \in source, r \in source' :
       /\ returned'.block = [i \in DOMAIN returned'.block |-> s.next + i - 1]
       /\ r.next = s.next + Len(returned'.block)

\* A loop over blocks of some size of an HTTP stream or a recording ends only where there is no more
\* to read.  That the HTTP stream came to its end is not said: a transport failure that ended the
\* reader task is StreamClosed too.
LoopsEndAtTheEnd ==
  \A t \in PyThreads : pc[t].call = "next" /\ pc'[t] = Idle /\ returned'.why = "stop" /\ pc[t].count > 0 =>
     \A s \in source : s.type # "native" => s.ready = 0 /\ (s.type = "http" => ~s.live)

\* What open opens is of the backend its arguments named.
OpenIsAsAsked ==
  returned'.call = "open" /\ returned'.why = "ok" => \A s \in source' : s.type = asked

\* aaronia-doctor succeeds only for a server that gives IQ, and whose first input with IQ does not
\* declare a rate the device does not have.  Of IQ that declares no rate it looks at none.
DoctorIsRight ==
  findings # << >> /\ ~doctor_cli(findings) =>
    \A s \in server :
      /\ s.usable /\ s.reachable /\ s.lists
      /\ \E i \in DOMAIN s.inputs :
           /\ s.inputs[i] \in Carriers \ {"iq off the ladder"}
           /\ \A j \in 1..i - 1 : s.inputs[j] # "iq off the ladder"
=============================================================================
