----------------------- MODULE NativeLifecycleProofs -----------------------
(***************************************************************************)
(* The SDK stays up while a client of it lives, and the device is given    *)
(* back: for every number of owners, whatever they were set up with, and   *)
(* whichever vendor calls fail.                                            *)
(*                                                                         *)
(* Both rest on what an owner has yet to call (script[o]).  Shape says in  *)
(* which order calls may stand there, the other parts of OwnerIsInOrder    *)
(* relate them to the sources the owner holds.                             *)
(***************************************************************************)
EXTENDS NativeLifecycle, FiniteSetTheorems, SequenceTheorems, TLAPS

Cleanup == {"stop", "disconnect", "close", "close_handle", "shutdown"}
Opening == {"find", "open", "configure"}
Call ==
  ({"init", "open_handle", "replace", "install"} \X {"fresh"})
    \cup ({"connect", "start"} \X {"kept"})
    \cup ((Opening \cup Cleanup) \X Slots)

\* The calls that take a source out of "fresh", and those that give a script up.
Settling == {<<"replace", "fresh">>, <<"install", "fresh">>, <<"shutdown", "fresh">>}
Risky    == (Opening \cup {"connect", "start"}) \X {"kept"}

Earlier(s, i, c) == \E j \in 1..(i - 1) : s[j] = c

\* In which order calls stand: a source is made first and its handle opened next, a device
\* is opened before all but that, what cleans up comes before what starts, a replacement is
\* put in place once and only after cleaning up, a device is started after it was connected,
\* and stopped and disconnected before it closes.
Shape(s) ==
  \A i \in 1..Len(s) :
    /\ s[i][1] = "init" => i = 1
    /\ s[i][1] = "open_handle" => i = 1 \/ s[i - 1] = <<"init", "fresh">>
    /\ s[i][1] = "start" => i = 1 \/ s[i - 1] = <<"connect", "kept">>
    /\ s[i][1] \in Opening =>
         \A j \in 1..(i - 1) : s[j][1] \in Opening \cup {"init", "open_handle"}
    /\ s[i][1] \in {"replace", "install"} =>
         \A j \in 1..Len(s) : s[j][1] \in {"replace", "install"} => j = i
    /\ s[i][1] = "install" => \A j \in 1..(i - 1) : s[j] \in Cleanup \X {"kept"}
    /\ s[i][1] = "stop" => i < Len(s) /\ s[i + 1] = <<"disconnect", s[i][2]>>
    /\ s[i][1] \in Cleanup =>
         \A j \in 1..(i - 1) : s[j][1] \in Cleanup
    /\ s[i][1] \in {"stop", "disconnect"} =>
         \A j \in 1..(i - 1) : s[j] # <<"close", s[i][2]>> /\ s[j] # <<"shutdown", s[i][2]>>

\* What is in "fresh" is on its way out of it before anything can give the script up.
FreshIsSettled(s, fresh) ==
  /\ s # <<>> /\ s[1][1] = "init" => fresh = NoSource
  /\ s # <<>> /\ s[1][1] = "open_handle" => fresh.initialized
  /\ fresh # NoSource \/ (s # <<>> /\ s[1][1] = "init") =>
       \E k \in 1..Len(s) : s[k] \in Settling /\ \A i \in 1..(k - 1) : s[i] \notin Risky

\* A device is opened by a source that was made.
OpensWhatIsMade(s, kept, fresh) ==
  \A i \in 1..Len(s) :
    /\ s[i][1] \in Opening /\ s[i][2] = "kept" => kept.made
    /\ s[i][1] \in Opening /\ s[i][2] = "fresh" => fresh.made \/ s[1][1] = "init"

\* Nothing is replaced that has not been shut down.
KeptIsSettled(s, kept) ==
  \A i \in 1..Len(s) :
    s[i][1] = "install" => kept = NoSource \/ Earlier(s, i, <<"shutdown", "kept">>)

\* A shutdown is preceded by as many attempts to close as it takes to give up.
ClosedTwice(s, slot, open, refusals) ==
  \A i \in 1..Len(s) :
    s[i] = <<"shutdown", slot>> /\ open =>
      /\ "closed_again" \in refusals \/ Earlier(s, i, <<"close", slot>>)
      /\ \/ "close" \in refusals
         \/ \E j \in 1..(i - 1) : s[j] = <<"close", slot>> /\ Earlier(s, j, <<"close", slot>>)

\* What is stopped and disconnected was connected, and by the one who holds the device;
\* nothing that runs is closed or forgotten before it was stopped.
StopsWhatRuns(s, kept, fresh, mine, at, refusals) ==
  /\ \A i \in 1..Len(s) :
       s[i][1] \in {"stop", "disconnect"} => s[i][2] = "kept" /\ kept.device_connected
  /\ s # <<>> /\ s[1][1] = "start" => kept.device_connected
  /\ mine /\ at = "started" => "stop" \in refusals \/ kept.stream_active
  /\ mine /\ at # "off" => "disconnect" \in refusals \/ kept.device_connected
  /\ \A i \in 1..Len(s) :
       s[i] \in {<<"close", "kept">>, <<"shutdown", "kept">>} /\ mine =>
         /\ at = "started" => "stop" \in refusals \/ Earlier(s, i, <<"stop", "kept">>)
         /\ at # "off" => "disconnect" \in refusals \/ Earlier(s, i, <<"disconnect", "kept">>)

\* The flags of a source go with its handles, and only one of two holds the device.
SourcesAgree(kept, fresh, mine) ==
  /\ \A i \in {kept, fresh} :
       /\ ~i.made => i = NoSource
       /\ i.handle => i.initialized
       /\ i.stream_active => i.device_connected
       /\ i.device_connected => i.device
       /\ i.device => mine
  /\ ~fresh.device_connected
  /\ ~(kept.device /\ fresh.device)

\* Who holds the device without a source for it was refused each attempt to close it.
HeldIsAccountedFor(kept, fresh, mine, refusals) ==
  mine => kept.device \/ fresh.device \/ "closed_again" \in refusals

ConnectsToStart(s) ==
  \A i \in 1..Len(s) : s[i][1] = "connect" => i < Len(s) /\ s[i + 1] = <<"start", "kept">>

\* A device that is connected is started next, runs, or is about to be closed.
GoesOn(s, kept) ==
  /\ ConnectsToStart(s)
  /\ kept.device_connected =>
       \/ kept.stream_active
       \/ s # <<>> /\ s[1][1] = "start"
       \/ \E i \in 1..Len(s) : s[i] = <<"close", "kept">>

ScriptFits(s, kept, fresh, mine, at, refusals) ==
  /\ Shape(s)
  /\ FreshIsSettled(s, fresh) /\ OpensWhatIsMade(s, kept, fresh)
  /\ KeptIsSettled(s, kept)
  /\ ClosedTwice(s, "kept", kept.device, refusals) /\ ClosedTwice(s, "fresh", fresh.device, refusals)
  /\ StopsWhatRuns(s, kept, fresh, mine, at, refusals)

OwnerIsInOrder(s, kept, fresh, mine, at, refusals) ==
  /\ ScriptFits(s, kept, fresh, mine, at, refusals)
  /\ GoesOn(s, kept)
  /\ SourcesAgree(kept, fresh, mine)
  /\ HeldIsAccountedFor(kept, fresh, mine, refusals)

Source == [made : BOOLEAN, initialized : BOOLEAN, handle : BOOLEAN, device : BOOLEAN,
           device_connected : BOOLEAN, stream_active : BOOLEAN]
Refusals == {"stop", "disconnect", "close", "closed_again"}

Typed ==
  /\ sdk \in {"up", "down"}
  /\ dev \in Device /\ DOMAIN items = Items /\ items["spanfreq"] \in Nat
  /\ held \in Owners \cup {Nobody}
  /\ line \in {"off", "connected", "started"} /\ torn \in BOOLEAN
  /\ refused \subseteq Refusals
  /\ live \in Nat
  /\ src \in [Owners -> [Slots -> Source]]
  /\ mode \in [Owners -> Modes] /\ config \in [Owners -> Request]
  /\ script \in [Owners -> Seq(Call)]

OwnersInOrder ==
  \A o \in Owners :
    OwnerIsInOrder(script[o], src[o]["kept"], src[o]["fresh"], held = o, line, refused)

Inv ==
  /\ Typed
  /\ OwnersInOrder
  /\ live = Cardinality(Clients)
  /\ live > 0 => sdk = "up"
  /\ held = Nobody => line = "off"
-----------------------------------------------------------------------------
(* Sequences of calls *)

LEMMA TailAt ==
  ASSUME NEW T, NEW s \in Seq(T), s # <<>>
  PROVE  /\ Tail(s) \in Seq(T) /\ Len(s) \in Nat /\ Len(s) > 0
         /\ Len(Tail(s)) = Len(s) - 1
         /\ \A i \in 1..Len(Tail(s)) : Tail(s)[i] = s[i + 1]
         /\ Head(s) = s[1] /\ s[1] \in T
OBVIOUS

LEMMA Popped ==
  ASSUME NEW s \in Seq(Call), s # <<>>
  PROVE  /\ Len(s) \in Nat /\ Len(Tail(s)) = Len(s) - 1 /\ Tail(s) \in Seq(Call)
         /\ \A i \in 1..Len(Tail(s)) :
              Tail(s)[i] = s[i + 1] /\ i + 1 \in 1..Len(s) /\ 1 \in 1..((i + 1) - 1)
BY TailAt

\* A list of calls, from the list of their names.
LEMMA CallsAre ==
  ASSUME NEW x, NEW names \in Seq(STRING), \A i \in 1..Len(names) : <<names[i], x>> \in Call
  PROVE  /\ Calls(x, names) \in Seq(Call) /\ Len(Calls(x, names)) = Len(names)
         /\ \A i \in 1..Len(names) : Calls(x, names)[i] = <<names[i], x>>
BY DEF Calls

\* What stands in a concatenation, by position.
LEMMA ConcatIs ==
  ASSUME NEW u \in Seq(Call), NEW v \in Seq(Call), NEW s, s = u \o v
  PROVE  /\ s \in Seq(Call) /\ Len(s) = Len(u) + Len(v)
         /\ \A i \in 1..Len(u) : s[i] = u[i]
         /\ \A i \in 1..Len(v) : s[Len(u) + i] = v[i]
BY ConcatProperties

LEMMA StoppingIs ==
  ASSUME NEW i \in Source, NEW x \in Slots, i.stream_active => i.device_connected
  PROVE  LET s == Stopping(i, x)
         IN  /\ s \in Seq(Call)
             /\ i.stream_active =>
                  Len(s) = 3 /\ s[1] = <<"stop", x>> /\ s[2] = <<"disconnect", x>> /\ s[3] = <<"close", x>>
             /\ ~i.stream_active /\ i.device_connected =>
                  Len(s) = 2 /\ s[1] = <<"disconnect", x>> /\ s[2] = <<"close", x>>
             /\ ~i.device_connected => Len(s) = 1 /\ s[1] = <<"close", x>>
<1> DEFINE a == IF i.stream_active THEN Calls(x, <<"stop">>) ELSE <<>>
           b == IF i.device_connected THEN Calls(x, <<"disconnect">>) ELSE <<>>
           c == Calls(x, <<"close">>)
           d == a \o b
           s == Stopping(i, x)
<1>1. /\ a \in Seq(Call)
      /\ i.stream_active => Len(a) = 1 /\ a[1] = <<"stop", x>>
      /\ ~i.stream_active => Len(a) = 0
  BY DEF Calls, Call, Cleanup
<1>2. /\ b \in Seq(Call)
      /\ i.device_connected => Len(b) = 1 /\ b[1] = <<"disconnect", x>>
      /\ ~i.device_connected => Len(b) = 0
  BY DEF Calls, Call, Cleanup
<1>3. c \in Seq(Call) /\ Len(c) = 1 /\ c[1] = <<"close", x>>
  BY DEF Calls, Call, Cleanup
<1>4. s = d \o c
  BY <1>1, <1>2, <1>3, ConcatAssociative DEF Stopping
<1>5. d = a \o b
  OBVIOUS
<1> HIDE DEF a, b, c, d, s
<1>6. /\ d \in Seq(Call) /\ Len(d) = Len(a) + Len(b)
      /\ \A j \in 1..Len(a) : d[j] = a[j]
      /\ \A j \in 1..Len(b) : d[Len(a) + j] = b[j]
  BY <1>1, <1>2, <1>5, ConcatIs
<1>7. /\ s \in Seq(Call) /\ Len(s) = Len(d) + Len(c)
      /\ \A j \in 1..Len(d) : s[j] = d[j]
      /\ \A j \in 1..Len(c) : s[Len(d) + j] = c[j]
  <2>1. c \in Seq(Call) /\ d \in Seq(Call)
    BY <1>3, <1>6
  <2> QED
    BY <2>1, <1>4, ConcatIs
<1>8. s[Len(d) + 1] = <<"close", x>> /\ Len(s) = Len(d) + 1
  BY <1>3, <1>7
<1>9. i.stream_active => d[1] = <<"stop", x>> /\ d[2] = <<"disconnect", x>> /\ Len(d) = 2
  BY <1>1, <1>2, <1>6
<1>10. ~i.stream_active /\ i.device_connected => d[1] = <<"disconnect", x>> /\ Len(d) = 1
  <2> SUFFICES ASSUME ~i.stream_active, i.device_connected
               PROVE  d[0 + 1] = <<"disconnect", x>> /\ Len(d) = 1
    OBVIOUS
  <2> QED
    BY <1>1, <1>2, <1>6
<1>11. ~i.device_connected => Len(d) = 0
  BY <1>1, <1>2, <1>6
<1> QED
  BY <1>7, <1>8, <1>9, <1>10, <1>11 DEF s

LEMMA DroppingIs ==
  ASSUME NEW i \in Source, NEW x \in Slots, i.stream_active => i.device_connected
  PROVE  LET s == Dropping(i, x)
             n == Len(Stopping(i, x))
         IN  /\ s \in Seq(Call)
             /\ ~i.made => s = <<>>
             /\ i.made =>
                  /\ Len(s) = n + 3
                  /\ \A j \in 1..n : s[j] = Stopping(i, x)[j]
                  /\ s[n + 1] = <<"close", x>> /\ s[n + 2] = <<"close_handle", x>>
                  /\ s[n + 3] = <<"shutdown", x>>
<1> DEFINE c == Calls(x, <<"close", "close_handle", "shutdown">>)
           d == Stopping(i, x)
           s == Dropping(i, x)
<1>1. /\ c \in Seq(Call) /\ Len(c) = 3 /\ c[1] = <<"close", x>>
      /\ c[2] = <<"close_handle", x>> /\ c[3] = <<"shutdown", x>>
  BY DEF Calls, Call, Cleanup
<1>2. d \in Seq(Call) /\ Len(d) \in Nat
  BY StoppingIs
<1>3. i.made => s = d \o c
  BY DEF Dropping
<1>4. ~i.made => s = <<>> /\ s \in Seq(Call)
  BY DEF Dropping
<1> HIDE DEF c, d, s
<1>5. i.made =>
        /\ s \in Seq(Call) /\ Len(s) = Len(d) + Len(c)
        /\ \A j \in 1..Len(d) : s[j] = d[j]
        /\ \A j \in 1..Len(c) : s[Len(d) + j] = c[j]
  <2>1. c \in Seq(Call) /\ d \in Seq(Call)
    BY <1>1, <1>2
  <2> SUFFICES ASSUME i.made
               PROVE  /\ s \in Seq(Call) /\ Len(s) = Len(d) + Len(c)
                      /\ \A j \in 1..Len(d) : s[j] = d[j]
                      /\ \A j \in 1..Len(c) : s[Len(d) + j] = c[j]
    OBVIOUS
  <2>2. s = d \o c
    BY <1>3
  <2> QED
    BY <2>1, <2>2, ConcatIs
<1>6. i.made =>
        /\ Len(s) = Len(d) + 3 /\ s[Len(d) + 1] = <<"close", x>>
        /\ s[Len(d) + 2] = <<"close_handle", x>> /\ s[Len(d) + 3] = <<"shutdown", x>>
  BY <1>1, <1>5
<1> QED
  BY <1>4, <1>5, <1>6 DEF d, s

LEMMA BringUpIs ==
  /\ BringUp \in Seq(Call) /\ Len(BringUp) = 5
  /\ BringUp[1] = <<"init", "fresh">> /\ BringUp[2] = <<"open_handle", "fresh">>
  /\ BringUp[3] = <<"find", "fresh">> /\ BringUp[4] = <<"open", "fresh">>
  /\ BringUp[5] = <<"configure", "fresh">>
<1>1. /\ Len(BringUp) = 5
      /\ BringUp[1] = <<"init", "fresh">> /\ BringUp[2] = <<"open_handle", "fresh">>
      /\ BringUp[3] = <<"find", "fresh">> /\ BringUp[4] = <<"open", "fresh">>
      /\ BringUp[5] = <<"configure", "fresh">>
  BY DEF BringUp, Calls
<1>2. \A j \in 1..5 : BringUp[j] \in Call
  BY DEF BringUp, Calls, Call, Opening, Slots
<1>3. BringUp = [j \in 1..5 |-> BringUp[j]]
  BY DEF BringUp, Calls
<1> QED
  BY <1>1, <1>2, <1>3

LEMMA InstallIs == Install \in Seq(Call) /\ Len(Install) = 1 /\ Install[1] = <<"replace", "fresh">>
BY DEF Install, Calls, Call

LEMMA RunIs ==
  /\ Run \in Seq(Call) /\ Len(Run) = 2
  /\ Run[1] = <<"connect", "kept">> /\ Run[2] = <<"start", "kept">>
BY DEF Run, Calls, Call

LEMMA BringingIs ==
  LET s == BringUp \o Install
  IN  /\ s \in Seq(Call) /\ Len(s) = 6
      /\ s[1] = <<"init", "fresh">> /\ s[2] = <<"open_handle", "fresh">>
      /\ s[3] = <<"find", "fresh">> /\ s[4] = <<"open", "fresh">>
      /\ s[5] = <<"configure", "fresh">> /\ s[6] = <<"replace", "fresh">>
<1> DEFINE s == BringUp \o Install
<1>1. s = BringUp \o Install
  OBVIOUS
<1> HIDE DEF s
<1>2. /\ s \in Seq(Call) /\ Len(s) = 5 + 1
      /\ \A i \in 1..5 : s[i] = BringUp[i]
      /\ \A i \in 1..1 : s[5 + i] = Install[i]
  <2>1. BringUp \in Seq(Call) /\ Install \in Seq(Call)
    BY BringUpIs, InstallIs
  <2>2. Len(BringUp) = 5 /\ Len(Install) = 1
    BY BringUpIs, InstallIs
  <2>3. /\ s \in Seq(Call) /\ Len(s) = Len(BringUp) + Len(Install)
        /\ \A i \in 1..Len(BringUp) : s[i] = BringUp[i]
        /\ \A i \in 1..Len(Install) : s[Len(BringUp) + i] = Install[i]
    BY <1>1, <2>1, ConcatIs
  <2> QED
    BY <2>2, <2>3
<1>3. s[6] = <<"replace", "fresh">>
  BY <1>2, InstallIs
<1> QED
  BY <1>2, <1>3, BringUpIs, SMTT(30) DEF s

LEMMA InitializingIs ==
  LET s == initialize \o Install
  IN  /\ s \in Seq(Call) /\ Len(s) = 3
      /\ s[1] = <<"init", "fresh">> /\ s[2] = <<"open_handle", "fresh">>
      /\ s[3] = <<"replace", "fresh">>
<1> DEFINE s == initialize \o Install
<1>1. s = initialize \o Install
  OBVIOUS
<1>2. /\ initialize \in Seq(Call) /\ Len(initialize) = 2
      /\ initialize[1] = <<"init", "fresh">> /\ initialize[2] = <<"open_handle", "fresh">>
  BY DEF initialize, Calls, Call
<1> HIDE DEF s
<1>3. /\ s \in Seq(Call) /\ Len(s) = 2 + 1
      /\ \A i \in 1..2 : s[i] = initialize[i]
      /\ \A i \in 1..1 : s[2 + i] = Install[i]
  <2>1. initialize \in Seq(Call) /\ Install \in Seq(Call)
    BY <1>2, InstallIs
  <2>2. Len(initialize) = 2 /\ Len(Install) = 1
    BY <1>2, InstallIs
  <2>3. /\ s \in Seq(Call) /\ Len(s) = Len(initialize) + Len(Install)
        /\ \A i \in 1..Len(initialize) : s[i] = initialize[i]
        /\ \A i \in 1..Len(Install) : s[Len(initialize) + i] = Install[i]
    BY <1>1, <2>1, ConcatIs
  <2> QED
    BY <2>2, <2>3
<1>4. s[3] = <<"replace", "fresh">>
  BY <1>3, InstallIs
<1> QED
  BY <1>2, <1>3, <1>4 DEF s

LEMMA StartBlockIs ==
  LET s == StartBlock
  IN  /\ s \in Seq(Call) /\ Len(s) = 5
      /\ s[1] = <<"find", "kept">> /\ s[2] = <<"open", "kept">> /\ s[3] = <<"configure", "kept">>
      /\ s[4] = <<"connect", "kept">> /\ s[5] = <<"start", "kept">>
<1> DEFINE c == Calls("kept", <<"find", "open", "configure">>)
           s == StartBlock
<1>1. /\ c \in Seq(Call) /\ Len(c) = 3 /\ c[1] = <<"find", "kept">>
      /\ c[2] = <<"open", "kept">> /\ c[3] = <<"configure", "kept">>
  BY DEF Calls, Call, Opening, Slots
<1>2. s = c \o Run
  BY DEF StartBlock
<1> HIDE DEF c, s
<1>3. /\ s \in Seq(Call) /\ Len(s) = 3 + 2
      /\ \A i \in 1..3 : s[i] = c[i]
      /\ \A i \in 1..2 : s[3 + i] = Run[i]
  <2>1. c \in Seq(Call) /\ Run \in Seq(Call)
    BY <1>1, RunIs
  <2>2. Len(c) = 3 /\ Len(Run) = 2
    BY <1>1, RunIs
  <2>3. /\ s \in Seq(Call) /\ Len(s) = Len(c) + Len(Run)
        /\ \A i \in 1..Len(c) : s[i] = c[i]
        /\ \A i \in 1..Len(Run) : s[Len(c) + i] = Run[i]
    BY <1>2, <2>1, ConcatIs
  <2> QED
    BY <2>2, <2>3
<1>4. s[4] = <<"connect", "kept">> /\ s[5] = <<"start", "kept">>
  BY <1>3, RunIs
<1> QED
  BY <1>1, <1>3, <1>4 DEF s

LEMMA RestartingIs ==
  ASSUME NEW o
  PROVE  LET s == RestartCalls(o)
         IN  /\ s \in Seq(Call) /\ Len(s) = 8
             /\ s[1] = <<"init", "fresh">> /\ s[2] = <<"open_handle", "fresh">>
             /\ s[3] = <<"find", "fresh">> /\ s[4] = <<"open", "fresh">>
             /\ s[5] = <<"configure", "fresh">> /\ s[6] = <<"replace", "fresh">>
             /\ s[7] = <<"connect", "kept">> /\ s[8] = <<"start", "kept">>
<1> DEFINE u == BringUp \o Install
           s == RestartCalls(o)
<1>1. s = u \o Run
  BY ConcatAssociative, BringUpIs, InstallIs, RunIs DEF RestartCalls
<1>2. /\ u \in Seq(Call) /\ Len(u) = 6
      /\ u[1] = <<"init", "fresh">> /\ u[2] = <<"open_handle", "fresh">>
      /\ u[3] = <<"find", "fresh">> /\ u[4] = <<"open", "fresh">>
      /\ u[5] = <<"configure", "fresh">> /\ u[6] = <<"replace", "fresh">>
  BY BringingIs
<1> HIDE DEF u, s
<1>3. /\ s \in Seq(Call) /\ Len(s) = 6 + 2
      /\ \A j \in 1..6 : s[j] = u[j]
      /\ \A j \in 1..2 : s[6 + j] = Run[j]
  <2>1. u \in Seq(Call) /\ Run \in Seq(Call)
    BY <1>2, RunIs
  <2>2. Len(u) = 6 /\ Len(Run) = 2
    BY <1>2, RunIs
  <2>3. /\ s \in Seq(Call) /\ Len(s) = Len(u) + Len(Run)
        /\ \A i \in 1..Len(u) : s[i] = u[i]
        /\ \A i \in 1..Len(Run) : s[Len(u) + i] = Run[i]
    BY <1>1, <2>1, ConcatIs
  <2> QED
    BY <2>2, <2>3
<1>4. s[7] = <<"connect", "kept">> /\ s[8] = <<"start", "kept">>
  BY <1>3, RunIs
<1> QED
  BY <1>2, <1>3, <1>4 DEF s
-----------------------------------------------------------------------------
(* What one call off the front of a script leaves of its order *)

\* Calls after one that does not clean up clean nothing up either.
LEMMA NoCleanupFollows ==
  ASSUME NEW s \in Seq(Call), s # <<>>, Shape(s), s[1][1] \notin Cleanup
  PROVE  \A i \in 1..Len(s) : s[i][1] \notin Cleanup
<1> TAKE i \in 1..Len(s)
<1>1. CASE i = 1
  BY <1>1
<1>2. CASE i # 1
  <2>1. 1 \in 1..(i - 1)
    BY <1>2
  <2> QED
    BY <2>1 DEF Shape
<1> QED
  BY <1>1, <1>2

LEMMA ShapeOfTail ==
  ASSUME NEW s \in Seq(Call), s # <<>>, Shape(s)
  PROVE  Shape(Tail(s))
<1> DEFINE t == Tail(s)
<1>1. /\ Len(s) \in Nat /\ Len(t) = Len(s) - 1 /\ t \in Seq(Call)
      /\ \A i \in 1..Len(t) : t[i] = s[i + 1] /\ i + 1 \in 1..Len(s)
  BY TailAt
<1> HIDE DEF t
<1> SUFFICES ASSUME NEW i \in 1..Len(t)
             PROVE  /\ t[i][1] = "init" => i = 1
                    /\ t[i][1] = "open_handle" => i = 1 \/ t[i - 1] = <<"init", "fresh">>
                    /\ t[i][1] = "start" => i = 1 \/ t[i - 1] = <<"connect", "kept">>
                    /\ t[i][1] \in Opening =>
                         \A j \in 1..(i - 1) : t[j][1] \in Opening \cup {"init", "open_handle"}
                    /\ t[i][1] \in {"replace", "install"} =>
                         \A j \in 1..Len(t) : t[j][1] \in {"replace", "install"} => j = i
                    /\ t[i][1] = "install" => \A j \in 1..(i - 1) : t[j] \in Cleanup \X {"kept"}
                    /\ t[i][1] = "stop" => i < Len(t) /\ t[i + 1] = <<"disconnect", t[i][2]>>
                    /\ t[i][1] \in Cleanup =>
                         \A j \in 1..(i - 1) : t[j][1] \in Cleanup
                    /\ t[i][1] \in {"stop", "disconnect"} =>
                         \A j \in 1..(i - 1) : t[j] # <<"close", t[i][2]>> /\ t[j] # <<"shutdown", t[i][2]>>
  BY DEF Shape, t
<1>2. t[i] = s[i + 1] /\ i + 1 \in 1..Len(s)
  BY <1>1
<1>3. \A j \in 1..(i - 1) : t[j] = s[j + 1] /\ j + 1 \in 1..((i + 1) - 1) /\ j + 1 \in 1..Len(s)
  BY <1>1
<1>4. i # 1 => t[i - 1] = s[(i + 1) - 1]
  BY <1>1
<1>5. t[i][1] = "init" => i = 1
  BY <1>2 DEF Shape
<1>6. t[i][1] = "open_handle" => i = 1 \/ t[i - 1] = <<"init", "fresh">>
  BY <1>2, <1>4 DEF Shape
<1>7. t[i][1] = "start" => i = 1 \/ t[i - 1] = <<"connect", "kept">>
  BY <1>2, <1>4 DEF Shape
<1>8. t[i][1] \in {"replace", "install"} =>
        \A j \in 1..Len(t) : t[j][1] \in {"replace", "install"} => j = i
  <2> SUFFICES ASSUME t[i][1] \in {"replace", "install"}, NEW j \in 1..Len(t),
                      t[j][1] \in {"replace", "install"}
               PROVE  j = i
    OBVIOUS
  <2>1. t[j] = s[j + 1] /\ j + 1 \in 1..Len(s)
    BY <1>1
  <2>2. j + 1 = i + 1
    BY <1>2, <2>1 DEF Shape
  <2> QED
    BY <2>2
<1>9. t[i][1] = "install" => \A j \in 1..(i - 1) : t[j] \in Cleanup \X {"kept"}
  BY <1>2, <1>3 DEF Shape
<1>10. t[i][1] = "stop" => i < Len(t) /\ t[i + 1] = <<"disconnect", t[i][2]>>
  <2> SUFFICES ASSUME t[i][1] = "stop"
               PROVE  i < Len(t) /\ t[i + 1] = <<"disconnect", t[i][2]>>
    OBVIOUS
  <2>1. i + 1 < Len(s) /\ s[(i + 1) + 1] = <<"disconnect", t[i][2]>>
    BY <1>2 DEF Shape
  <2>2. i < Len(t) /\ i + 1 \in 1..Len(t)
    BY <1>1, <2>1
  <2> QED
    BY <1>1, <2>1, <2>2
<1>11. t[i][1] \in Cleanup => \A j \in 1..(i - 1) : t[j][1] \in Cleanup
  BY <1>2, <1>3 DEF Shape
<1>12. t[i][1] \in {"stop", "disconnect"} =>
         \A j \in 1..(i - 1) : t[j] # <<"close", t[i][2]>> /\ t[j] # <<"shutdown", t[i][2]>>
  <2> SUFFICES ASSUME t[i][1] \in {"stop", "disconnect"}, NEW j \in 1..(i - 1)
               PROVE  t[j] # <<"close", t[i][2]>> /\ t[j] # <<"shutdown", t[i][2]>>
    OBVIOUS
  <2>1. t[j] = s[j + 1] /\ j + 1 \in 1..((i + 1) - 1)
    BY <1>3
  <2> QED
    BY <1>2, <2>1 DEF Shape
<1>13. t[i][1] \in Opening =>
         \A j \in 1..(i - 1) : t[j][1] \in Opening \cup {"init", "open_handle"}
  BY <1>2, <1>3 DEF Shape
<1> QED
  BY <1>5, <1>6, <1>7, <1>8, <1>9, <1>10, <1>11, <1>12, <1>13

LEMMA EarlierInTail ==
  ASSUME NEW s \in Seq(Call), s # <<>>, NEW c, NEW i \in 1..Len(Tail(s)), Earlier(s, i + 1, c)
  PROVE  s[1] = c \/ Earlier(Tail(s), i, c)
<1> DEFINE t == Tail(s)
<1>1. /\ Len(s) \in Nat /\ Len(t) = Len(s) - 1
      /\ \A j \in 1..Len(t) : t[j] = s[j + 1]
  BY TailAt
<1> HIDE DEF t
<1>2. PICK j \in 1..((i + 1) - 1) : s[j] = c
  BY DEF Earlier
<1>3. CASE j = 1
  BY <1>2, <1>3
<1>4. CASE j # 1
  <2>1. j - 1 \in 1..(i - 1) /\ j - 1 \in 1..Len(t) /\ (j - 1) + 1 = j
    BY <1>1, <1>4 DEF t
  <2>2. t[j - 1] = c
    BY <1>1, <1>2, <2>1
  <2> QED
    BY <2>1, <2>2 DEF Earlier, t
<1> QED
  BY <1>3, <1>4

LEMMA FreshPops ==
  ASSUME NEW s \in Seq(Call), s # <<>>, Shape(s), NEW f, NEW g, FreshIsSettled(s, f),
         s[1][1] = "init" => g.initialized,
         g # NoSource => s[1] \notin Settling /\ (f # NoSource \/ s[1][1] = "init")
  PROVE  FreshIsSettled(Tail(s), g)
<1> DEFINE t == Tail(s)
<1>1. /\ Len(s) \in Nat /\ Len(t) = Len(s) - 1 /\ t \in Seq(Call)
      /\ \A i \in 1..Len(t) : t[i] = s[i + 1] /\ i + 1 \in 1..Len(s)
  BY Popped
<1>2. t # <<>> => 1 \in 1..Len(t)
  BY <1>1
<1> HIDE DEF t
<1>3. t # <<>> => t[1][1] # "init" /\ (t[1][1] = "open_handle" => s[1] = <<"init", "fresh">>)
  <2> SUFFICES ASSUME t # <<>>
               PROVE  t[1][1] # "init" /\ (t[1][1] = "open_handle" => s[1] = <<"init", "fresh">>)
    OBVIOUS
  <2>1. t[1] = s[2] /\ 2 \in 1..Len(s)
    BY <1>1, <1>2
  <2> QED
    BY <2>1 DEF Shape
<1>4. t # <<>> /\ t[1][1] = "open_handle" => g.initialized
  BY <1>3
<1>5. g # NoSource => \E k \in 1..Len(t) : t[k] \in Settling /\ \A i \in 1..(k - 1) : t[i] \notin Risky
  <2> SUFFICES ASSUME g # NoSource
               PROVE  \E k \in 1..Len(t) : t[k] \in Settling /\ \A i \in 1..(k - 1) : t[i] \notin Risky
    OBVIOUS
  <2>1. PICK k \in 1..Len(s) : s[k] \in Settling /\ \A i \in 1..(k - 1) : s[i] \notin Risky
    BY DEF FreshIsSettled
  <2>2. k # 1
    BY <2>1
  <2>3. k - 1 \in 1..Len(t) /\ (k - 1) + 1 = k
    BY <1>1, <2>2
  <2>4. t[k - 1] \in Settling
    BY <1>1, <2>1, <2>3
  <2>5. \A i \in 1..((k - 1) - 1) : t[i] \notin Risky
    <3> TAKE i \in 1..((k - 1) - 1)
    <3>1. i \in 1..Len(t) /\ i + 1 \in 1..(k - 1)
      BY <2>3
    <3> QED
      BY <1>1, <2>1, <3>1
  <2> QED
    BY <2>3, <2>4, <2>5
<1> QED
  BY <1>3, <1>4, <1>5 DEF FreshIsSettled, t

LEMMA MadePops ==
  ASSUME NEW s \in Seq(Call), s # <<>>, Shape(s), NEW k, NEW l, NEW f, NEW g, OpensWhatIsMade(s, k, f),
         s[1][1] \in Opening \cup {"init", "open_handle"} =>
           (k.made => l.made) /\ (f.made \/ s[1][1] = "init" => g.made)
  PROVE  OpensWhatIsMade(Tail(s), l, g)
<1> DEFINE t == Tail(s)
<1>1. /\ Len(s) \in Nat /\ Len(t) = Len(s) - 1
      /\ \A i \in 1..Len(t) : t[i] = s[i + 1] /\ i + 1 \in 1..Len(s) /\ 1 \in 1..((i + 1) - 1)
  BY Popped
<1> HIDE DEF t
<1> SUFFICES ASSUME NEW i \in 1..Len(t), t[i][1] \in Opening
             PROVE  (t[i][2] = "kept" => l.made) /\ (t[i][2] = "fresh" => g.made)
  BY DEF OpensWhatIsMade, t
<1>2. s[i + 1] = t[i] /\ i + 1 \in 1..Len(s) /\ s[1][1] \in Opening \cup {"init", "open_handle"}
  BY <1>1 DEF Shape
<1>3. (t[i][2] = "kept" => k.made) /\ (t[i][2] = "fresh" => f.made \/ s[1][1] = "init")
  BY <1>2 DEF OpensWhatIsMade
<1> QED
  BY <1>2, <1>3

LEMMA KeptPops ==
  ASSUME NEW s \in Seq(Call), s # <<>>, Shape(s), NEW k, NEW l, KeptIsSettled(s, k),
         s[1] = <<"shutdown", "kept">> => l = NoSource,
         k = NoSource /\ s[1] \in Cleanup \X {"kept"} => l = NoSource
  PROVE  KeptIsSettled(Tail(s), l)
<1> DEFINE t == Tail(s)
<1>1. /\ Len(s) \in Nat /\ Len(t) = Len(s) - 1
      /\ \A i \in 1..Len(t) : t[i] = s[i + 1] /\ i + 1 \in 1..Len(s)
  BY TailAt
<1> SUFFICES ASSUME NEW i \in 1..Len(t), t[i][1] = "install"
             PROVE  l = NoSource \/ Earlier(t, i, <<"shutdown", "kept">>)
  BY DEF KeptIsSettled
<1>2. s[i + 1][1] = "install" /\ i + 1 \in 1..Len(s)
  BY <1>1
<1>3. s[1] \in Cleanup \X {"kept"}
  <2>1. 1 \in 1..((i + 1) - 1)
    BY <1>1
  <2> QED
    BY <1>2, <2>1 DEF Shape
<1>4. k = NoSource \/ Earlier(s, i + 1, <<"shutdown", "kept">>)
  BY <1>2 DEF KeptIsSettled
<1>5. CASE k = NoSource
  BY <1>3, <1>5
<1>6. CASE Earlier(s, i + 1, <<"shutdown", "kept">>)
  BY <1>6, EarlierInTail
<1> QED
  BY <1>4, <1>5, <1>6

\* However many calls cleaned up before, closing once more adds a refusal or gives back.
LEMMA ClosedPops ==
  ASSUME NEW s \in Seq(Call), s # <<>>, NEW x, NEW open, NEW open2, NEW refs, NEW more,
         ClosedTwice(s, x, open, refs),
         open2 => open, refs \subseteq more,
         s[1] = <<"close", x>> /\ open2 =>
           "close" \in more /\ ("close" \in refs => "closed_again" \in more)
  PROVE  ClosedTwice(Tail(s), x, open2, more)
<1> DEFINE t == Tail(s)  again == <<"close", x>>
<1>1. /\ Len(s) \in Nat /\ Len(t) = Len(s) - 1
      /\ \A i \in 1..Len(t) : t[i] = s[i + 1] /\ i + 1 \in 1..Len(s)
  BY Popped
<1> HIDE DEF t
<1> SUFFICES ASSUME NEW i \in 1..Len(t), t[i] = <<"shutdown", x>>, open2
             PROVE  /\ "closed_again" \in more \/ Earlier(t, i, again)
                    /\ \/ "close" \in more
                       \/ \E j \in 1..(i - 1) : t[j] = again /\ Earlier(t, j, again)
  BY DEF ClosedTwice, t
<1>a. i \in Int /\ 1 <= i /\ i <= Len(t)
  BY <1>1
<1>2. /\ "closed_again" \in refs \/ Earlier(s, i + 1, again)
      /\ \/ "close" \in refs
         \/ \E j \in 1..((i + 1) - 1) : s[j] = again /\ Earlier(s, j, again)
  <2>1. s[i + 1] = <<"shutdown", x>> /\ i + 1 \in 1..Len(s)
    BY <1>1
  <2> QED
    BY <2>1 DEF ClosedTwice
<1>3. CASE "close" \in refs
  <2>1. "close" \in more
    BY <1>3
  <2>2. CASE "closed_again" \in refs
    BY <2>1, <2>2
  <2>3. CASE Earlier(s, i + 1, again)
    BY <2>1, <2>3, <1>3, EarlierInTail DEF t
  <2> QED
    BY <1>2, <2>2, <2>3
<1>4. CASE "close" \notin refs
  <2>1. PICK j \in 1..((i + 1) - 1) : s[j] = again /\ Earlier(s, j, again)
    BY <1>2, <1>4
  <2>2. j # 1
    <3> SUFFICES ASSUME j = 1 PROVE FALSE
      OBVIOUS
    <3>1. \E h \in 1..(j - 1) : s[h] = again
      BY <2>1 DEF Earlier
    <3>2. 1..(j - 1) = {}
      BY <1>a
    <3> QED
      BY <3>1, <3>2
  <2>3. j - 1 \in 1..(i - 1) /\ j - 1 \in 1..Len(t) /\ (j - 1) + 1 = j
    <3>1. j \in Int /\ 1 <= j /\ j <= i
      BY <1>a
    <3> QED
      BY <1>1, <1>a, <2>2, <3>1
  <2>4. t[j - 1] = again
    BY <1>1, <2>1, <2>3
  <2>5. s[1] = again \/ Earlier(t, j - 1, again)
    BY <2>1, <2>3, EarlierInTail DEF t
  <2>6. Earlier(t, i, again)
    BY <2>3, <2>4 DEF Earlier
  <2> QED
    BY <2>3, <2>4, <2>5, <2>6
<1> QED
  BY <1>3, <1>4

\* Where nothing cleans up, nothing is to be closed.
LEMMA NothingToClose ==
  ASSUME NEW s \in Seq(Call), \A i \in 1..Len(s) : s[i][1] \notin Cleanup,
         NEW slot, NEW open, NEW refs
  PROVE  ClosedTwice(s, slot, open, refs)
<1>1. \A i \in 1..Len(s) : s[i] # <<"shutdown", slot>>
  BY DEF Cleanup
<1> QED
  BY <1>1 DEF ClosedTwice

\* What runs is what its source says, or was refused.
Runs(k, mine, at, refs) ==
  /\ mine /\ at = "started" => "stop" \in refs \/ k.stream_active
  /\ mine /\ at # "off" => "disconnect" \in refs \/ k.device_connected

LEMMA StopsPops ==
  ASSUME NEW s \in Seq(Call), s # <<>>, Shape(s),
         NEW k, NEW l, NEW f, NEW g, NEW mine, NEW mine2, NEW at, NEW at2, NEW refs, NEW more,
         StopsWhatRuns(s, k, f, mine, at, refs),
         s[1] \notin {<<"close", "kept">>, <<"shutdown", "kept">>} /\ k.device_connected =>
           l.device_connected \/ s[1][1] \notin Cleanup,
         s[1] = <<"connect", "kept">> => l.device_connected,
         Runs(l, mine2, at2, more),
         s[1][1] \in Cleanup /\ mine2 =>
           /\ mine /\ refs \subseteq more
           /\ at2 = "started" => at = "started" /\ (s[1] = <<"stop", "kept">> => "stop" \in more)
           /\ at2 # "off" => (at # "off" \/ s[1] = <<"stop", "kept">>)
                              /\ (s[1] = <<"disconnect", "kept">> => "disconnect" \in more)
  PROVE  StopsWhatRuns(Tail(s), l, g, mine2, at2, more)
<1> DEFINE t == Tail(s)
<1>1. /\ Len(s) \in Nat /\ Len(t) = Len(s) - 1 /\ t \in Seq(Call)
      /\ \A i \in 1..Len(t) : t[i] = s[i + 1] /\ i + 1 \in 1..Len(s) /\ 1 \in 1..((i + 1) - 1)
  BY Popped
<1>2. t # <<>> => 1 \in 1..Len(t)
  BY <1>1
<1> HIDE DEF t
<1>3. \A i \in 1..Len(t) : t[i][1] \in Cleanup => s[1][1] \in Cleanup
  BY <1>1 DEF Shape
<1>4. \A i \in 1..Len(t) :
        t[i][1] \in {"stop", "disconnect"} => t[i][2] = "kept" /\ l.device_connected
  <2> SUFFICES ASSUME NEW i \in 1..Len(t), t[i][1] \in {"stop", "disconnect"}
               PROVE  t[i][2] = "kept" /\ l.device_connected
    OBVIOUS
  <2>1. t[i][2] = "kept" /\ k.device_connected
    BY <1>1 DEF StopsWhatRuns
  <2>2. s[1] # <<"close", "kept">> /\ s[1] # <<"shutdown", "kept">>
    <3>1. /\ s[i + 1] = t[i] /\ i + 1 \in 1..Len(s) /\ 1 \in 1..((i + 1) - 1)
      BY <1>1
    <3>2. s[1] # <<"close", s[i + 1][2]>> /\ s[1] # <<"shutdown", s[i + 1][2]>>
      BY <3>1 DEF Shape
    <3> QED
      BY <2>1, <3>1, <3>2
  <2>3. s[1][1] \in Cleanup
    BY <1>3 DEF Cleanup
  <2> QED
    BY <2>1, <2>2, <2>3
<1>5. t # <<>> /\ t[1][1] = "start" => l.device_connected
  <2> SUFFICES ASSUME t # <<>>, t[1][1] = "start" PROVE l.device_connected
    OBVIOUS
  <2>1. t[1] = s[2] /\ 2 \in 1..Len(s)
    BY <1>1, <1>2
  <2>2. s[1] = <<"connect", "kept">>
    BY <2>1 DEF Shape
  <2> QED
    BY <2>2
<1>6. \A i \in 1..Len(t) :
        t[i] \in {<<"close", "kept">>, <<"shutdown", "kept">>} /\ mine2 =>
          /\ at2 = "started" => "stop" \in more \/ Earlier(t, i, <<"stop", "kept">>)
          /\ at2 # "off" => "disconnect" \in more \/ Earlier(t, i, <<"disconnect", "kept">>)
  <2> SUFFICES ASSUME NEW i \in 1..Len(t), t[i] \in {<<"close", "kept">>, <<"shutdown", "kept">>}, mine2
               PROVE  /\ at2 = "started" => "stop" \in more \/ Earlier(t, i, <<"stop", "kept">>)
                      /\ at2 # "off" => "disconnect" \in more \/ Earlier(t, i, <<"disconnect", "kept">>)
    OBVIOUS
  <2>1. s[i + 1] = t[i] /\ i + 1 \in 1..Len(s)
    BY <1>1
  <2>2. t[i][1] \in Cleanup
    BY DEF Cleanup
  <2>3. s[1][1] \in Cleanup
    BY <1>3, <2>2
  <2>4. /\ mine /\ refs \subseteq more
        /\ at2 = "started" => at = "started" /\ (s[1] = <<"stop", "kept">> => "stop" \in more)
        /\ at2 # "off" => (at # "off" \/ s[1] = <<"stop", "kept">>)
                           /\ (s[1] = <<"disconnect", "kept">> => "disconnect" \in more)
    BY <2>3
  <2>5. /\ at = "started" => "stop" \in refs \/ Earlier(s, i + 1, <<"stop", "kept">>)
        /\ at # "off" => "disconnect" \in refs \/ Earlier(s, i + 1, <<"disconnect", "kept">>)
    BY <2>1, <2>4 DEF StopsWhatRuns
  <2>6. /\ Earlier(s, i + 1, <<"stop", "kept">>) =>
             s[1] = <<"stop", "kept">> \/ Earlier(t, i, <<"stop", "kept">>)
        /\ Earlier(s, i + 1, <<"disconnect", "kept">>) =>
             s[1] = <<"disconnect", "kept">> \/ Earlier(t, i, <<"disconnect", "kept">>)
    BY EarlierInTail DEF t
  <2>7. s[1] = <<"stop", "kept">> => Earlier(t, i, <<"disconnect", "kept">>)
    <3> SUFFICES ASSUME s[1] = <<"stop", "kept">> PROVE Earlier(t, i, <<"disconnect", "kept">>)
      OBVIOUS
    <3>1. 1 \in 1..Len(s) /\ s[1][1] = "stop" /\ s[1][2] = "kept"
      BY <2>1, <1>1
    <3>2. 1 < Len(s) /\ s[1 + 1] = <<"disconnect", "kept">>
      BY <3>1 DEF Shape
    <3>3. 1 \in 1..Len(t)
      BY <1>1, <3>2
    <3>4. t[1] = <<"disconnect", "kept">>
      BY <1>1, <3>2, <3>3
    <3>5. i # 1
      BY <3>4
    <3>6. 1 \in 1..(i - 1)
      BY <3>5
    <3> QED
      BY <3>4, <3>6 DEF Earlier
  <2> QED
    BY <2>4, <2>5, <2>6, <2>7
<1> QED
  BY <1>4, <1>5, <1>6 DEF StopsWhatRuns, Runs, t
-----------------------------------------------------------------------------
(* The scripts of the operations, and of what fails *)

LEMMA NothingFits ==
  ASSUME NEW k, NEW mine, NEW at, NEW refs, Runs(k, mine, at, refs)
  PROVE  ScriptFits(<<>>, k, NoSource, mine, at, refs)
BY DEF ScriptFits, Shape, FreshIsSettled, OpensWhatIsMade, KeptIsSettled, ClosedTwice,
       StopsWhatRuns, Runs

\* What only brings up and starts.
Starting(s) ==
  /\ \A i \in 1..Len(s) :
       /\ s[i][1] \notin Cleanup /\ s[i][1] # "install"
       /\ s[i][1] = "init" => i = 1
       /\ s[i][1] = "open_handle" => i # 1 /\ s[i - 1] = <<"init", "fresh">>
       /\ s[i][1] = "start" => i # 1 /\ s[i - 1] = <<"connect", "kept">>
       /\ s[i][1] = "replace" => \A j \in 1..Len(s) : s[j][1] = "replace" => j = i
       /\ s[i][1] \in Opening =>
            /\ \A j \in 1..(i - 1) : s[j][1] \in Opening \cup {"init", "open_handle"}
            /\ s[i][2] = "fresh" => s[1][1] = "init"
  /\ s # <<>> /\ s[1][1] = "init" =>
       \E i \in 1..Len(s) : s[i] \in Settling /\ \A j \in 1..(i - 1) : s[j] \notin Risky

LEMMA StartingFits ==
  ASSUME NEW s \in Seq(Call), Starting(s),
         NEW k, NEW mine, NEW at, NEW refs, Runs(k, mine, at, refs),
         \A i \in 1..Len(s) : s[i][1] \in Opening /\ s[i][2] = "kept" => k.made
  PROVE  ScriptFits(s, k, NoSource, mine, at, refs)
<1>1. Shape(s)
  BY DEF Starting, Shape, Cleanup
<1>2. s # <<>> => 1 \in 1..Len(s)
  OBVIOUS
<1>3. FreshIsSettled(s, NoSource)
  BY <1>2 DEF Starting, FreshIsSettled
<1>a. OpensWhatIsMade(s, k, NoSource)
  BY DEF Starting, OpensWhatIsMade
<1>4. KeptIsSettled(s, k)
  BY DEF Starting, KeptIsSettled
<1>5. ClosedTwice(s, "kept", k.device, refs) /\ ClosedTwice(s, "fresh", NoSource.device, refs)
  BY NothingToClose DEF Starting
<1>6. StopsWhatRuns(s, k, NoSource, mine, at, refs)
  <2>1. \A i \in 1..Len(s) : s[i][1] \notin {"stop", "disconnect", "close", "shutdown"}
    BY DEF Starting, Cleanup
  <2>2. \A i \in 1..Len(s) : s[i] # <<"close", "kept">> /\ s[i] # <<"shutdown", "kept">>
    BY <2>1
  <2>3. s # <<>> => s[1][1] # "start"
    BY <1>2 DEF Starting
  <2> QED
    BY <2>1, <2>2, <2>3 DEF StopsWhatRuns, Runs
<1> QED
  BY <1>1, <1>3, <1>a, <1>4, <1>5, <1>6 DEF ScriptFits

LEMMA BringingStarts == Starting(BringUp \o Install)
<1> DEFINE s == BringUp \o Install
<1>1. /\ s \in Seq(Call) /\ Len(s) = 6
      /\ s[1] = <<"init", "fresh">> /\ s[2] = <<"open_handle", "fresh">>
      /\ s[3] = <<"find", "fresh">> /\ s[4] = <<"open", "fresh">>
      /\ s[5] = <<"configure", "fresh">> /\ s[6] = <<"replace", "fresh">>
  BY BringingIs
<1> HIDE DEF s
<1>2. \A i \in 1..6 : i = 1 \/ i = 2 \/ i = 3 \/ i = 4 \/ i = 5 \/ i = 6
  OBVIOUS
<1>3. \A i \in 1..6 :
        /\ s[i][1] \notin Cleanup /\ s[i][1] # "install"
        /\ s[i][1] = "init" => i = 1
        /\ s[i][1] = "open_handle" => i = 2
        /\ s[i][1] = "replace" => i = 6
        /\ s[i][1] # "start"
  BY <1>1, <1>2 DEF Cleanup
<1>4. \A i \in 1..Len(s) :
        /\ s[i][1] \notin Cleanup /\ s[i][1] # "install"
        /\ s[i][1] = "init" => i = 1
        /\ s[i][1] = "open_handle" => i # 1 /\ s[i - 1] = <<"init", "fresh">>
        /\ s[i][1] = "start" => i # 1 /\ s[i - 1] = <<"connect", "kept">>
        /\ s[i][1] = "replace" => \A j \in 1..Len(s) : s[j][1] = "replace" => j = i
  BY <1>1, <1>3
<1>a. \A i \in 1..Len(s) :
        s[i][1] \in Opening =>
          /\ \A j \in 1..(i - 1) : s[j][1] \in Opening \cup {"init", "open_handle"}
          /\ s[i][2] = "fresh" => s[1][1] = "init"
  <2>1. \A i \in 1..Len(s) : s[i][1] \in Opening => i \in 3..5
    BY <1>1, <1>2 DEF Opening
  <2>2. \A j \in 1..4 : j = 1 \/ j = 2 \/ j = 3 \/ j = 4
    OBVIOUS
  <2>3. \A j \in 1..4 : s[j][1] \in Opening \cup {"init", "open_handle"}
    BY <1>1, <2>2 DEF Opening
  <2>4. \A i \in 3..5 : \A j \in 1..(i - 1) : j \in 1..4
    OBVIOUS
  <2> QED
    BY <1>1, <2>1, <2>3, <2>4
<1>5. s[6] \in Settling /\ 6 \in 1..Len(s)
  BY <1>1 DEF Settling
<1>6. \A j \in 1..(6 - 1) : s[j] \notin Risky
  <2> TAKE j \in 1..(6 - 1)
  <2>1. j = 1 \/ j = 2 \/ j = 3 \/ j = 4 \/ j = 5
    OBVIOUS
  <2> QED
    BY <1>1, <2>1 DEF Risky
<1> QED
  BY <1>4, <1>a, <1>5, <1>6 DEF Starting, s

LEMMA InitializingStarts == Starting(initialize \o Install)
<1> DEFINE s == initialize \o Install
<1>1. /\ s \in Seq(Call) /\ Len(s) = 3
      /\ s[1] = <<"init", "fresh">> /\ s[2] = <<"open_handle", "fresh">>
      /\ s[3] = <<"replace", "fresh">>
  BY InitializingIs
<1> HIDE DEF s
<1>2. \A i \in 1..3 : i = 1 \/ i = 2 \/ i = 3
  OBVIOUS
<1>3. \A i \in 1..3 :
        /\ s[i][1] \notin Cleanup /\ s[i][1] # "install"
        /\ s[i][1] = "init" => i = 1
        /\ s[i][1] = "open_handle" => i = 2
        /\ s[i][1] = "replace" => i = 3
        /\ s[i][1] # "start"
  BY <1>1, <1>2 DEF Cleanup
<1>4. \A i \in 1..Len(s) :
        /\ s[i][1] \notin Cleanup /\ s[i][1] # "install"
        /\ s[i][1] = "init" => i = 1
        /\ s[i][1] = "open_handle" => i # 1 /\ s[i - 1] = <<"init", "fresh">>
        /\ s[i][1] = "start" => i # 1 /\ s[i - 1] = <<"connect", "kept">>
        /\ s[i][1] = "replace" => \A j \in 1..Len(s) : s[j][1] = "replace" => j = i
  BY <1>1, <1>3
<1>a. \A i \in 1..Len(s) : s[i][1] \notin Opening
  BY <1>1, <1>2 DEF Opening
<1>5. s[3] \in Settling /\ 3 \in 1..Len(s)
  BY <1>1 DEF Settling
<1>6. \A j \in 1..(3 - 1) : s[j] \notin Risky
  <2> TAKE j \in 1..(3 - 1)
  <2>1. j = 1 \/ j = 2
    OBVIOUS
  <2> QED
    BY <1>1, <2>1 DEF Risky
<1> QED
  BY <1>4, <1>a, <1>5, <1>6 DEF Starting, s

LEMMA RestartingStarts ==
  ASSUME NEW o
  PROVE  Starting(RestartCalls(o))
<1> DEFINE s == RestartCalls(o)
<1>1. /\ s \in Seq(Call) /\ Len(s) = 8
      /\ s[1] = <<"init", "fresh">> /\ s[2] = <<"open_handle", "fresh">>
      /\ s[3] = <<"find", "fresh">> /\ s[4] = <<"open", "fresh">>
      /\ s[5] = <<"configure", "fresh">> /\ s[6] = <<"replace", "fresh">>
      /\ s[7] = <<"connect", "kept">> /\ s[8] = <<"start", "kept">>
  BY RestartingIs
<1> HIDE DEF s
<1>2. \A i \in 1..8 : i = 1 \/ i = 2 \/ i = 3 \/ i = 4 \/ i = 5 \/ i = 6 \/ i = 7 \/ i = 8
  OBVIOUS
<1>3. \A i \in 1..8 :
        /\ s[i][1] \notin Cleanup /\ s[i][1] # "install"
        /\ s[i][1] = "init" => i = 1
        /\ s[i][1] = "open_handle" => i = 2
        /\ s[i][1] = "replace" => i = 6
        /\ s[i][1] = "start" => i = 8
  BY <1>1, <1>2 DEF Cleanup
<1>4. \A i \in 1..Len(s) :
        /\ s[i][1] \notin Cleanup /\ s[i][1] # "install"
        /\ s[i][1] = "init" => i = 1
        /\ s[i][1] = "open_handle" => i # 1 /\ s[i - 1] = <<"init", "fresh">>
        /\ s[i][1] = "start" => i # 1 /\ s[i - 1] = <<"connect", "kept">>
        /\ s[i][1] = "replace" => \A j \in 1..Len(s) : s[j][1] = "replace" => j = i
  BY <1>1, <1>3
<1>a. \A i \in 1..Len(s) :
        s[i][1] \in Opening =>
          /\ \A j \in 1..(i - 1) : s[j][1] \in Opening \cup {"init", "open_handle"}
          /\ s[i][2] = "fresh" => s[1][1] = "init"
  <2>1. \A i \in 1..Len(s) : s[i][1] \in Opening => i \in 3..5
    BY <1>1, <1>2 DEF Opening
  <2>2. \A j \in 1..4 : j = 1 \/ j = 2 \/ j = 3 \/ j = 4
    OBVIOUS
  <2>3. \A j \in 1..4 : s[j][1] \in Opening \cup {"init", "open_handle"}
    BY <1>1, <2>2 DEF Opening
  <2>4. \A i \in 3..5 : \A j \in 1..(i - 1) : j \in 1..4
    OBVIOUS
  <2> QED
    BY <1>1, <2>1, <2>3, <2>4
<1>5. s[6] \in Settling /\ 6 \in 1..Len(s)
  BY <1>1 DEF Settling
<1>6. \A j \in 1..(6 - 1) : s[j] \notin Risky
  <2> TAKE j \in 1..(6 - 1)
  <2>1. j = 1 \/ j = 2 \/ j = 3 \/ j = 4 \/ j = 5
    OBVIOUS
  <2> QED
    BY <1>1, <2>1 DEF Risky
<1> QED
  BY <1>4, <1>a, <1>5, <1>6 DEF Starting, s

LEMMA RunStarts == Starting(Run)
<1> DEFINE s == Run
<1>1. /\ s \in Seq(Call) /\ Len(s) = 2
      /\ s[1] = <<"connect", "kept">> /\ s[2] = <<"start", "kept">>
  BY RunIs
<1> HIDE DEF s
<1>2. \A i \in 1..2 : i = 1 \/ i = 2
  OBVIOUS
<1>3. \A i \in 1..2 :
        /\ s[i][1] \notin Cleanup /\ s[i][1] # "install"
        /\ s[i][1] # "init"
        /\ s[i][1] # "open_handle"
        /\ s[i][1] # "replace"
        /\ s[i][1] = "start" => i = 2
  BY <1>1, <1>2 DEF Cleanup
<1>4. \A i \in 1..Len(s) :
        /\ s[i][1] \notin Cleanup /\ s[i][1] # "install"
        /\ s[i][1] = "init" => i = 1
        /\ s[i][1] = "open_handle" => i # 1 /\ s[i - 1] = <<"init", "fresh">>
        /\ s[i][1] = "start" => i # 1 /\ s[i - 1] = <<"connect", "kept">>
        /\ s[i][1] = "replace" => \A j \in 1..Len(s) : s[j][1] = "replace" => j = i
  BY <1>1, <1>3
<1>a. \A i \in 1..Len(s) : s[i][1] \notin Opening
  BY <1>1, <1>2 DEF Opening
<1>5. s[1][1] # "init"
  BY <1>1
<1> QED
  BY <1>4, <1>a, <1>5 DEF Starting, s

LEMMA StartBlockStarts == Starting(StartBlock)
<1> DEFINE s == StartBlock
<1>1. /\ s \in Seq(Call) /\ Len(s) = 5
      /\ s[1] = <<"find", "kept">> /\ s[2] = <<"open", "kept">>
      /\ s[3] = <<"configure", "kept">> /\ s[4] = <<"connect", "kept">>
      /\ s[5] = <<"start", "kept">>
  BY StartBlockIs
<1> HIDE DEF s
<1>2. \A i \in 1..5 : i = 1 \/ i = 2 \/ i = 3 \/ i = 4 \/ i = 5
  OBVIOUS
<1>3. \A i \in 1..5 :
        /\ s[i][1] \notin Cleanup /\ s[i][1] # "install"
        /\ s[i][1] # "init"
        /\ s[i][1] # "open_handle"
        /\ s[i][1] # "replace"
        /\ s[i][1] = "start" => i = 5
  BY <1>1, <1>2 DEF Cleanup
<1>4. \A i \in 1..Len(s) :
        /\ s[i][1] \notin Cleanup /\ s[i][1] # "install"
        /\ s[i][1] = "init" => i = 1
        /\ s[i][1] = "open_handle" => i # 1 /\ s[i - 1] = <<"init", "fresh">>
        /\ s[i][1] = "start" => i # 1 /\ s[i - 1] = <<"connect", "kept">>
        /\ s[i][1] = "replace" => \A j \in 1..Len(s) : s[j][1] = "replace" => j = i
  BY <1>1, <1>3
<1>a. \A i \in 1..Len(s) :
        s[i][1] \in Opening =>
          /\ \A j \in 1..(i - 1) : s[j][1] \in Opening \cup {"init", "open_handle"}
          /\ s[i][2] = "fresh" => s[1][1] = "init"
  <2>1. \A i \in 1..Len(s) : s[i][1] \in Opening => i \in 1..3 /\ s[i][2] = "kept"
    BY <1>1, <1>2 DEF Opening
  <2>2. \A j \in 1..2 : j = 1 \/ j = 2
    OBVIOUS
  <2>3. \A j \in 1..2 : s[j][1] \in Opening
    BY <1>1, <2>2 DEF Opening
  <2>4. \A i \in 1..3 : \A j \in 1..(i - 1) : j \in 1..2
    OBVIOUS
  <2> QED
    BY <2>1, <2>3, <2>4
<1>5. s[1][1] # "init"
  BY <1>1
<1> QED
  BY <1>4, <1>a, <1>5 DEF Starting, s

TwoCloses(s, i, x) == \E j \in 1..(i - 1) : s[j] = <<"close", x>> /\ Earlier(s, j, <<"close", x>>)

\* What cleans up a source, as far as its own flags call for.
Cleans(s, x, i) ==
  /\ s \in Seq(Call)
  /\ \A j \in 1..Len(s) :
       /\ s[j][1] \in Cleanup /\ s[j][2] = x
       /\ s[j][1] = "stop" => j < Len(s) /\ s[j + 1] = <<"disconnect", x>>
       /\ s[j][1] \in {"stop", "disconnect"} =>
            i.device_connected /\ \A h \in 1..(j - 1) : s[h][1] \notin {"close", "shutdown"}
       /\ s[j][1] \in {"close", "shutdown"} =>
            /\ i.stream_active => Earlier(s, j, <<"stop", x>>)
            /\ i.device_connected => Earlier(s, j, <<"disconnect", x>>)
       /\ s[j][1] = "shutdown" => TwoCloses(s, j, x)

LEMMA StoppingCleans ==
  ASSUME NEW i \in Source, NEW x \in Slots, i.stream_active => i.device_connected
  PROVE  Cleans(Stopping(i, x), x, i)
<1> DEFINE s == Stopping(i, x)
<1> HIDE DEF s
<1>1. CASE i.stream_active
  <2>1. /\ s \in Seq(Call) /\ Len(s) = 3
        /\ s[1] = <<"stop", x>> /\ s[2] = <<"disconnect", x>>
        /\ s[3] = <<"close", x>>
    BY <1>1, StoppingIs DEF s
  <2>2. \A j \in 1..3 : j = 1 \/ j = 2 \/ j = 3
    OBVIOUS
  <2>3. \A j \in 1..Len(s) : s[j][1] \in Cleanup /\ s[j][2] = x
    BY <2>1, <2>2 DEF Cleanup
  <2>4. \A j \in 1..Len(s) :
          /\ s[j][1] = "stop" => j = 1
          /\ s[j][1] = "disconnect" => j = 2
          /\ s[j][1] \in {"close", "shutdown"} => j >= 3
          /\ s[j][1] # "shutdown"
    BY <2>1, <2>2
  <2>5. \A j \in 1..Len(s) :
          s[j][1] = "stop" => j < Len(s) /\ s[j + 1] = <<"disconnect", x>>
    BY <2>1, <2>4
  <2>6. \A j \in 1..Len(s) :
          s[j][1] \in {"stop", "disconnect"} =>
            /\ i.device_connected
            /\ \A h \in 1..(j - 1) : s[h][1] \notin {"close", "shutdown"}
    BY <1>1, <2>1, <2>4
  <2>7. \A j \in 1..Len(s) :
          s[j][1] \in {"close", "shutdown"} =>
            /\ i.stream_active => Earlier(s, j, <<"stop", x>>)
            /\ i.device_connected => Earlier(s, j, <<"disconnect", x>>)
    <3>1. \A j \in 1..Len(s) :
            s[j][1] \in {"close", "shutdown"} => 1 \in 1..(j - 1) /\ 2 \in 1..(j - 1)
      BY <2>1, <2>4
    <3> QED
      BY <1>1, <2>1, <3>1 DEF Earlier
  <2>8. \A j \in 1..Len(s) : s[j][1] = "shutdown" => TwoCloses(s, j, x)
    BY <2>4
  <2> QED
    BY <2>1, <2>3, <2>5, <2>6, <2>7, <2>8 DEF Cleans, s
<1>2. CASE ~i.stream_active /\ i.device_connected
  <2>1. /\ s \in Seq(Call) /\ Len(s) = 2
        /\ s[1] = <<"disconnect", x>> /\ s[2] = <<"close", x>>
    BY <1>2, StoppingIs DEF s
  <2>2. \A j \in 1..2 : j = 1 \/ j = 2
    OBVIOUS
  <2>3. \A j \in 1..Len(s) : s[j][1] \in Cleanup /\ s[j][2] = x
    BY <2>1, <2>2 DEF Cleanup
  <2>4. \A j \in 1..Len(s) :
          /\ s[j][1] # "stop"
          /\ s[j][1] = "disconnect" => j = 1
          /\ s[j][1] \in {"close", "shutdown"} => j >= 2
          /\ s[j][1] # "shutdown"
    BY <2>1, <2>2
  <2>5. \A j \in 1..Len(s) :
          s[j][1] = "stop" => j < Len(s) /\ s[j + 1] = <<"disconnect", x>>
    BY <2>1, <2>4
  <2>6. \A j \in 1..Len(s) :
          s[j][1] \in {"stop", "disconnect"} =>
            /\ i.device_connected
            /\ \A h \in 1..(j - 1) : s[h][1] \notin {"close", "shutdown"}
    BY <1>2, <2>1, <2>4
  <2>7. \A j \in 1..Len(s) :
          s[j][1] \in {"close", "shutdown"} =>
            /\ i.stream_active => Earlier(s, j, <<"stop", x>>)
            /\ i.device_connected => Earlier(s, j, <<"disconnect", x>>)
    <3>1. \A j \in 1..Len(s) :
            s[j][1] \in {"close", "shutdown"} => 1 \in 1..(j - 1)
      BY <2>1, <2>4
    <3> QED
      BY <1>2, <2>1, <3>1 DEF Earlier
  <2>8. \A j \in 1..Len(s) : s[j][1] = "shutdown" => TwoCloses(s, j, x)
    BY <2>4
  <2> QED
    BY <2>1, <2>3, <2>5, <2>6, <2>7, <2>8 DEF Cleans, s
<1>3. CASE ~i.device_connected
  <2>1. /\ s \in Seq(Call) /\ Len(s) = 1
        /\ s[1] = <<"close", x>>
    BY <1>3, StoppingIs DEF s
  <2>2. \A j \in 1..1 : j = 1
    OBVIOUS
  <2>3. \A j \in 1..Len(s) : s[j][1] \in Cleanup /\ s[j][2] = x
    BY <2>1, <2>2 DEF Cleanup
  <2>4. \A j \in 1..Len(s) :
          /\ s[j][1] # "stop"
          /\ s[j][1] # "disconnect"
          /\ s[j][1] \in {"close", "shutdown"} => j >= 1
          /\ s[j][1] # "shutdown"
    BY <2>1, <2>2
  <2>5. \A j \in 1..Len(s) :
          s[j][1] = "stop" => j < Len(s) /\ s[j + 1] = <<"disconnect", x>>
    BY <2>1, <2>4
  <2>6. \A j \in 1..Len(s) :
          s[j][1] \in {"stop", "disconnect"} =>
            /\ i.device_connected
            /\ \A h \in 1..(j - 1) : s[h][1] \notin {"close", "shutdown"}
    BY <1>3, <2>1, <2>4
  <2>7. \A j \in 1..Len(s) :
          s[j][1] \in {"close", "shutdown"} =>
            /\ i.stream_active => Earlier(s, j, <<"stop", x>>)
            /\ i.device_connected => Earlier(s, j, <<"disconnect", x>>)
    BY <1>3
  <2>8. \A j \in 1..Len(s) : s[j][1] = "shutdown" => TwoCloses(s, j, x)
    BY <2>4
  <2> QED
    BY <2>1, <2>3, <2>5, <2>6, <2>7, <2>8 DEF Cleans, s
<1> QED
  BY <1>1, <1>2, <1>3

LEMMA DroppingCleans ==
  ASSUME NEW i \in Source, NEW x \in Slots, i.stream_active => i.device_connected, i.made
  PROVE  /\ Cleans(Dropping(i, x), x, i)
         /\ LET s == Dropping(i, x) IN Len(s) >= 1 /\ s[Len(s)] = <<"shutdown", x>>
<1> DEFINE s == Dropping(i, x)
           d == Stopping(i, x)
<1>a. /\ i.stream_active =>
           Len(d) = 3 /\ d[1] = <<"stop", x>> /\ d[2] = <<"disconnect", x>> /\ d[3] = <<"close", x>>
      /\ ~i.stream_active /\ i.device_connected =>
           Len(d) = 2 /\ d[1] = <<"disconnect", x>> /\ d[2] = <<"close", x>>
      /\ ~i.device_connected => Len(d) = 1 /\ d[1] = <<"close", x>>
  BY StoppingIs
<1>b. /\ s \in Seq(Call) /\ Len(s) = Len(d) + 3
      /\ \A j \in 1..Len(d) : s[j] = d[j]
      /\ s[Len(d) + 1] = <<"close", x>> /\ s[Len(d) + 2] = <<"close_handle", x>>
      /\ s[Len(d) + 3] = <<"shutdown", x>>
  BY DroppingIs
<1> HIDE DEF s, d
<1>1. CASE i.stream_active
  <2>1. /\ s \in Seq(Call) /\ Len(s) = 6
        /\ s[1] = <<"stop", x>> /\ s[2] = <<"disconnect", x>>
        /\ s[3] = <<"close", x>> /\ s[4] = <<"close", x>>
        /\ s[5] = <<"close_handle", x>> /\ s[6] = <<"shutdown", x>>
    <3>1. Len(d) = 3 /\ d[1] = <<"stop", x>> /\ d[2] = <<"disconnect", x>> /\ d[3] = <<"close", x>>
      BY <1>1, <1>a
    <3>2. s[1] = d[1] /\ s[2] = d[2] /\ s[3] = d[3]
      BY <3>1, <1>b
    <3> QED
      BY <1>b, <3>1, <3>2
  <2>2. \A j \in 1..6 : j = 1 \/ j = 2 \/ j = 3 \/ j = 4 \/ j = 5 \/ j = 6
    OBVIOUS
  <2>3. \A j \in 1..Len(s) : s[j][1] \in Cleanup /\ s[j][2] = x
    BY <2>1, <2>2 DEF Cleanup
  <2>4. \A j \in 1..Len(s) :
          /\ s[j][1] = "stop" => j = 1
          /\ s[j][1] = "disconnect" => j = 2
          /\ s[j][1] \in {"close", "shutdown"} => j >= 3
          /\ s[j][1] = "shutdown" => j = 6
    BY <2>1, <2>2
  <2>5. \A j \in 1..Len(s) :
          s[j][1] = "stop" => j < Len(s) /\ s[j + 1] = <<"disconnect", x>>
    BY <2>1, <2>4
  <2>6. \A j \in 1..Len(s) :
          s[j][1] \in {"stop", "disconnect"} =>
            /\ i.device_connected
            /\ \A h \in 1..(j - 1) : s[h][1] \notin {"close", "shutdown"}
    BY <1>1, <2>1, <2>4
  <2>7. \A j \in 1..Len(s) :
          s[j][1] \in {"close", "shutdown"} =>
            /\ i.stream_active => Earlier(s, j, <<"stop", x>>)
            /\ i.device_connected => Earlier(s, j, <<"disconnect", x>>)
    <3>1. \A j \in 1..Len(s) :
            s[j][1] \in {"close", "shutdown"} => 1 \in 1..(j - 1) /\ 2 \in 1..(j - 1)
      BY <2>1, <2>4
    <3> QED
      BY <1>1, <2>1, <3>1 DEF Earlier
  <2>8. \A j \in 1..Len(s) : s[j][1] = "shutdown" => TwoCloses(s, j, x)
    <3>1. 3 \in 1..(4 - 1) /\ 4 \in 1..(6 - 1)
      OBVIOUS
    <3>2. TwoCloses(s, 6, x)
      BY <2>1, <3>1 DEF TwoCloses, Earlier
    <3> QED
      BY <2>4, <3>2
  <2> QED
    BY <2>1, <2>3, <2>5, <2>6, <2>7, <2>8 DEF Cleans, s
<1>2. CASE ~i.stream_active /\ i.device_connected
  <2>1. /\ s \in Seq(Call) /\ Len(s) = 5
        /\ s[1] = <<"disconnect", x>> /\ s[2] = <<"close", x>>
        /\ s[3] = <<"close", x>> /\ s[4] = <<"close_handle", x>>
        /\ s[5] = <<"shutdown", x>>
    BY <1>2, <1>a, <1>b, SMTT(30)
  <2>2. \A j \in 1..5 : j = 1 \/ j = 2 \/ j = 3 \/ j = 4 \/ j = 5
    OBVIOUS
  <2>3. \A j \in 1..Len(s) : s[j][1] \in Cleanup /\ s[j][2] = x
    BY <2>1, <2>2 DEF Cleanup
  <2>4. \A j \in 1..Len(s) :
          /\ s[j][1] # "stop"
          /\ s[j][1] = "disconnect" => j = 1
          /\ s[j][1] \in {"close", "shutdown"} => j >= 2
          /\ s[j][1] = "shutdown" => j = 5
    BY <2>1, <2>2
  <2>5. \A j \in 1..Len(s) :
          s[j][1] = "stop" => j < Len(s) /\ s[j + 1] = <<"disconnect", x>>
    BY <2>1, <2>4
  <2>6. \A j \in 1..Len(s) :
          s[j][1] \in {"stop", "disconnect"} =>
            /\ i.device_connected
            /\ \A h \in 1..(j - 1) : s[h][1] \notin {"close", "shutdown"}
    BY <1>2, <2>1, <2>4
  <2>7. \A j \in 1..Len(s) :
          s[j][1] \in {"close", "shutdown"} =>
            /\ i.stream_active => Earlier(s, j, <<"stop", x>>)
            /\ i.device_connected => Earlier(s, j, <<"disconnect", x>>)
    <3>1. \A j \in 1..Len(s) :
            s[j][1] \in {"close", "shutdown"} => 1 \in 1..(j - 1)
      BY <2>1, <2>4
    <3> QED
      BY <1>2, <2>1, <3>1 DEF Earlier
  <2>8. \A j \in 1..Len(s) : s[j][1] = "shutdown" => TwoCloses(s, j, x)
    <3>1. 2 \in 1..(3 - 1) /\ 3 \in 1..(5 - 1)
      OBVIOUS
    <3>2. TwoCloses(s, 5, x)
      BY <2>1, <3>1 DEF TwoCloses, Earlier
    <3> QED
      BY <2>4, <3>2
  <2> QED
    BY <2>1, <2>3, <2>5, <2>6, <2>7, <2>8 DEF Cleans, s
<1>3. CASE ~i.device_connected
  <2>1. /\ s \in Seq(Call) /\ Len(s) = 4
        /\ s[1] = <<"close", x>> /\ s[2] = <<"close", x>>
        /\ s[3] = <<"close_handle", x>> /\ s[4] = <<"shutdown", x>>
    BY <1>3, <1>a, <1>b
  <2>2. \A j \in 1..4 : j = 1 \/ j = 2 \/ j = 3 \/ j = 4
    OBVIOUS
  <2>3. \A j \in 1..Len(s) : s[j][1] \in Cleanup /\ s[j][2] = x
    BY <2>1, <2>2 DEF Cleanup
  <2>4. \A j \in 1..Len(s) :
          /\ s[j][1] # "stop"
          /\ s[j][1] # "disconnect"
          /\ s[j][1] \in {"close", "shutdown"} => j >= 1
          /\ s[j][1] = "shutdown" => j = 4
    BY <2>1, <2>2
  <2>5. \A j \in 1..Len(s) :
          s[j][1] = "stop" => j < Len(s) /\ s[j + 1] = <<"disconnect", x>>
    BY <2>1, <2>4
  <2>6. \A j \in 1..Len(s) :
          s[j][1] \in {"stop", "disconnect"} =>
            /\ i.device_connected
            /\ \A h \in 1..(j - 1) : s[h][1] \notin {"close", "shutdown"}
    BY <1>3, <2>1, <2>4
  <2>7. \A j \in 1..Len(s) :
          s[j][1] \in {"close", "shutdown"} =>
            /\ i.stream_active => Earlier(s, j, <<"stop", x>>)
            /\ i.device_connected => Earlier(s, j, <<"disconnect", x>>)
    BY <1>3
  <2>8. \A j \in 1..Len(s) : s[j][1] = "shutdown" => TwoCloses(s, j, x)
    <3>1. 1 \in 1..(2 - 1) /\ 2 \in 1..(4 - 1)
      OBVIOUS
    <3>2. TwoCloses(s, 4, x)
      BY <2>1, <3>1 DEF TwoCloses, Earlier
    <3> QED
      BY <2>4, <3>2
  <2> QED
    BY <2>1, <2>3, <2>5, <2>6, <2>7, <2>8 DEF Cleans, s
<1> QED
  BY <1>1, <1>2, <1>3

LEMMA CleaningShape ==
  ASSUME NEW s, NEW x, NEW i, Cleans(s, x, i)
  PROVE  /\ Shape(s) /\ KeptIsSettled(s, i) /\ \A k, f : OpensWhatIsMade(s, k, f)
         /\ ClosedTwice(s, "kept", i.device, {}) /\ ClosedTwice(s, "fresh", i.device, {})
<1>1. \A j \in 1..Len(s) :
        s[j][1] \notin {"init", "open_handle", "start", "replace", "install"} \cup Opening
  BY DEF Cleans, Cleanup, Opening
<1>2. \A j \in 1..Len(s) : s[j][1] = "stop" => j < Len(s) /\ s[j + 1] = <<"disconnect", s[j][2]>>
  BY DEF Cleans
<1>3. \A j \in 1..Len(s) : \A h \in 1..(j - 1) : h \in 1..Len(s) /\ s[h][1] \in Cleanup
  BY DEF Cleans
<1>4. \A j \in 1..Len(s) :
        s[j][1] \in {"stop", "disconnect"} =>
          \A h \in 1..(j - 1) : s[h] # <<"close", s[j][2]>> /\ s[h] # <<"shutdown", s[j][2]>>
  BY DEF Cleans
<1>5. Shape(s)
  BY <1>1, <1>2, <1>3, <1>4 DEF Shape
<1>6. KeptIsSettled(s, i)
  BY <1>1 DEF KeptIsSettled
<1>7. \A y : ClosedTwice(s, y, i.device, {})
  <2> SUFFICES ASSUME NEW y, NEW j \in 1..Len(s), s[j] = <<"shutdown", y>>
               PROVE  TwoCloses(s, j, y) /\ Earlier(s, j, <<"close", y>>)
    BY DEF ClosedTwice, TwoCloses
  <2>1. s[j][1] = "shutdown" /\ s[j][2] = y
    OBVIOUS
  <2>2. TwoCloses(s, j, y)
    BY <2>1 DEF Cleans
  <2> QED
    BY <2>2 DEF TwoCloses, Earlier
<1>8. \A k, f : OpensWhatIsMade(s, k, f)
  BY <1>1 DEF OpensWhatIsMade
<1> QED
  BY <1>5, <1>6, <1>7, <1>8

LEMMA MoreRefusals ==
  ASSUME NEW s, NEW x, NEW open, NEW refs, ClosedTwice(s, x, open, {})
  PROVE  ClosedTwice(s, x, open, refs)
BY DEF ClosedTwice

LEMMA KeptCleaningFits ==
  ASSUME NEW s, NEW k, Cleans(s, "kept", k),
         NEW mine, NEW at, NEW refs, Runs(k, mine, at, refs)
  PROVE  ScriptFits(s, k, NoSource, mine, at, refs)
<1>1. s \in Seq(Call) /\ \A j \in 1..Len(s) : s[j][1] \in Cleanup /\ s[j][2] = "kept"
  BY DEF Cleans
<1>2. s # <<>> => 1 \in 1..Len(s)
  BY <1>1
<1>3. FreshIsSettled(s, NoSource)
  BY <1>1, <1>2 DEF FreshIsSettled, Cleanup
<1>4. ClosedTwice(s, "fresh", NoSource.device, refs)
  BY <1>1 DEF ClosedTwice
<1>5. StopsWhatRuns(s, k, NoSource, mine, at, refs)
  <2>1. \A j \in 1..Len(s) :
          s[j][1] \in {"stop", "disconnect"} => s[j][2] = "kept" /\ k.device_connected
    BY DEF Cleans
  <2>2. s # <<>> => s[1][1] # "start"
    BY <1>1, <1>2 DEF Cleanup
  <2>3. \A j \in 1..Len(s) :
          s[j] \in {<<"close", "kept">>, <<"shutdown", "kept">>} /\ mine =>
            /\ at = "started" => "stop" \in refs \/ Earlier(s, j, <<"stop", "kept">>)
            /\ at # "off" => "disconnect" \in refs \/ Earlier(s, j, <<"disconnect", "kept">>)
    <3> SUFFICES ASSUME NEW j \in 1..Len(s), mine,
                        s[j] \in {<<"close", "kept">>, <<"shutdown", "kept">>}
                 PROVE  /\ at = "started" => "stop" \in refs \/ Earlier(s, j, <<"stop", "kept">>)
                        /\ at # "off" => "disconnect" \in refs \/ Earlier(s, j, <<"disconnect", "kept">>)
      OBVIOUS
    <3>1. s[j][1] \in {"close", "shutdown"}
      OBVIOUS
    <3>2. /\ k.stream_active => Earlier(s, j, <<"stop", "kept">>)
          /\ k.device_connected => Earlier(s, j, <<"disconnect", "kept">>)
      BY <3>1 DEF Cleans
    <3> QED
      BY <3>2 DEF Runs
  <2> QED
    BY <2>1, <2>2, <2>3 DEF StopsWhatRuns, Runs
<1> QED
  BY <1>3, <1>4, <1>5, CleaningShape, MoreRefusals DEF ScriptFits

LEMMA FreshCleaningFits ==
  ASSUME NEW s, NEW f, Cleans(s, "fresh", f), ~f.device_connected,
         Len(s) >= 1, s[Len(s)] = <<"shutdown", "fresh">>,
         NEW k, NEW mine, NEW at, NEW refs, Runs(k, mine, at, refs)
  PROVE  ScriptFits(s, k, f, mine, at, refs)
<1>1. s \in Seq(Call) /\ \A j \in 1..Len(s) : s[j][1] \in Cleanup /\ s[j][2] = "fresh"
  BY DEF Cleans
<1>2. Len(s) \in 1..Len(s) /\ 1 \in 1..Len(s)
  BY <1>1
<1>3. FreshIsSettled(s, f)
  <2>1. s[1][1] # "init" /\ s[1][1] # "open_handle"
    BY <1>1, <1>2 DEF Cleanup
  <2>2. \A j \in 1..(Len(s) - 1) : s[j] \notin Risky
    BY <1>1, <1>2 DEF Risky
  <2>3. s[Len(s)] \in Settling
    BY DEF Settling
  <2> QED
    BY <1>2, <2>1, <2>2, <2>3 DEF FreshIsSettled
<1>4. KeptIsSettled(s, k)
  BY <1>1 DEF KeptIsSettled, Cleanup
<1>5. ClosedTwice(s, "kept", k.device, refs)
  BY <1>1 DEF ClosedTwice
<1>6. StopsWhatRuns(s, k, f, mine, at, refs)
  <2>1. \A j \in 1..Len(s) : s[j][1] \notin {"stop", "disconnect"}
    BY DEF Cleans
  <2>2. s[1][1] # "start"
    BY <1>1, <1>2 DEF Cleanup
  <2>3. \A j \in 1..Len(s) : s[j] # <<"close", "kept">> /\ s[j] # <<"shutdown", "kept">>
    BY <1>1
  <2> QED
    BY <2>1, <2>2, <2>3 DEF StopsWhatRuns, Runs
<1> QED
  BY <1>3, <1>4, <1>5, <1>6, CleaningShape, MoreRefusals DEF ScriptFits

\* What a replacement calls: the source it replaces is dropped, the new one is put in
\* its place, and what was to follow follows.
LEMMA ReplacingIs ==
  ASSUME NEW s \in Seq(Call), s # <<>>, Shape(s), s[1] = <<"replace", "fresh">>,
         NEW d \in Seq(Call)
  PROVE  LET r == d \o Calls("fresh", <<"install">>) \o Tail(s)
             n == Len(d)
         IN  /\ r \in Seq(Call)
             /\ n \in Nat /\ Len(r) >= n + 1 /\ r[n + 1] = <<"install", "fresh">>
             /\ \A i \in 1..n : r[i] = d[i]
             /\ \A i \in 1..Len(r) : i > n + 1 =>
                  /\ r[i][1] \notin Cleanup \cup Opening \cup {"init", "open_handle", "replace", "install"}
                  /\ r[i][1] = "start" => r[i - 1] = <<"connect", "kept">>
             /\ (\A i \in 1..n : d[i][1] # "connect") /\ ConnectsToStart(s) => ConnectsToStart(r)
<1> DEFINE c == Calls("fresh", <<"install">>)
           t == Tail(s)
           e == d \o c
           r == e \o t
           n == Len(d)
<1>1. c \in Seq(Call) /\ Len(c) = 1 /\ c[1] = <<"install", "fresh">>
  BY DEF Calls, Call
<1>2. /\ Len(s) \in Nat /\ Len(t) = Len(s) - 1 /\ t \in Seq(Call)
      /\ \A i \in 1..Len(t) : t[i] = s[i + 1] /\ i + 1 \in 1..Len(s)
  BY Popped
<1>3. n \in Nat
  OBVIOUS
<1>4. e = d \o c
  OBVIOUS
<1>a. r = e \o t
  OBVIOUS
<1> HIDE DEF c, t, e, r
<1>5. /\ e \in Seq(Call) /\ Len(e) = n + Len(c)
      /\ \A i \in 1..n : e[i] = d[i]
      /\ \A i \in 1..Len(c) : e[n + i] = c[i]
  <2>1. d \in Seq(Call) /\ c \in Seq(Call)
    BY <1>1
  <2> QED
    BY <1>4, <2>1, ConcatIs
<1>6. /\ r \in Seq(Call) /\ Len(r) = Len(e) + Len(t)
      /\ \A i \in 1..Len(e) : r[i] = e[i]
      /\ \A i \in 1..Len(t) : r[Len(e) + i] = t[i]
  <2>1. e \in Seq(Call) /\ t \in Seq(Call)
    BY <1>2, <1>5
  <2> QED
    BY <1>a, <2>1, ConcatIs
<1>7. Len(e) = n + 1 /\ e[n + 1] = <<"install", "fresh">>
  BY <1>1, <1>5
<1>8. /\ Len(r) >= n + 1 /\ r[n + 1] = <<"install", "fresh">>
      /\ \A i \in 1..n : r[i] = d[i]
  <2>1. Len(t) \in Nat
    BY <1>2
  <2>2. Len(r) >= n + 1 /\ n + 1 \in 1..Len(e) /\ \A i \in 1..n : i \in 1..Len(e)
    BY <2>1, <1>3, <1>6, <1>7
  <2>3. r[n + 1] = <<"install", "fresh">>
    BY <2>2, <1>6, <1>7
  <2>4. \A i \in 1..n : r[i] = d[i]
    BY <2>2, <1>5, <1>6
  <2> QED
    BY <2>2, <2>3, <2>4
<1>9. \A i \in 1..Len(t) :
        /\ t[i][1] \notin Cleanup \cup Opening \cup {"init", "open_handle", "replace", "install"}
        /\ t[i][1] = "start" => i # 1 /\ t[i - 1] = <<"connect", "kept">>
  <2> TAKE i \in 1..Len(t)
  <2>1. t[i] = s[i + 1] /\ i + 1 \in 1..Len(s) /\ i + 1 # 1 /\ (i + 1) - 1 = i
    BY <1>2
  <2>2. t[i][1] \notin Cleanup
    BY <2>1, NoCleanupFollows DEF Cleanup
  <2>3. t[i][1] \notin {"replace", "install"}
    <3>1. 1 \in 1..Len(s)
      BY <2>1
    <3> QED
      BY <2>1, <3>1 DEF Shape
  <2>4. i # 1 => s[i] = t[i - 1]
    BY <1>2
  <2>5. t[i][1] = "start" => i # 1 /\ t[i - 1] = <<"connect", "kept">>
    BY <2>1, <2>4 DEF Shape
  <2>6. i # 1 => s[i] # <<"init", "fresh">>
    <3>1. i \in 1..Len(s)
      BY <1>2
    <3> QED
      BY <3>1 DEF Shape
  <2>7. t[i][1] \notin {"init", "open_handle"}
    BY <2>1, <2>6 DEF Shape
  <2>8. t[i][1] \notin Opening
    <3>1. 1 \in 1..((i + 1) - 1)
      BY <1>2
    <3> QED
      BY <2>1, <3>1 DEF Shape, Opening
  <2> QED
    BY <2>2, <2>3, <2>5, <2>7, <2>8
<1>10. \A i \in 1..Len(r) : i > n + 1 =>
         /\ r[i][1] \notin Cleanup \cup Opening \cup {"init", "open_handle", "replace", "install"}
         /\ r[i][1] = "start" => r[i - 1] = <<"connect", "kept">>
  <2> SUFFICES ASSUME NEW i \in 1..Len(r), i > n + 1
               PROVE  /\ r[i][1] \notin Cleanup \cup Opening \cup {"init", "open_handle", "replace", "install"}
                      /\ r[i][1] = "start" => r[i - 1] = <<"connect", "kept">>
    OBVIOUS
  <2> DEFINE j == i - (n + 1)
  <2>1. j \in 1..Len(t) /\ i = Len(e) + j
    BY <1>2, <1>3, <1>6, <1>7
  <2>2. j # 1 => j - 1 \in 1..Len(t) /\ i - 1 = Len(e) + (j - 1)
    BY <1>2, <1>3, <1>7, <2>1
  <2> HIDE DEF j
  <2>3. r[i] = t[j] /\ (j # 1 => r[i - 1] = t[j - 1])
    BY <1>6, <2>1, <2>2
  <2> QED
    BY <1>9, <2>1, <2>3
<1>11. (\A i \in 1..n : d[i][1] # "connect") /\ ConnectsToStart(s) => ConnectsToStart(r)
  <2> SUFFICES ASSUME \A i \in 1..n : d[i][1] # "connect", ConnectsToStart(s),
                      NEW i \in 1..Len(r), r[i][1] = "connect"
               PROVE  i < Len(r) /\ r[i + 1] = <<"start", "kept">>
    BY DEF ConnectsToStart
  <2> DEFINE j == i - (n + 1)
  <2>1. i > n + 1
    BY <1>3, <1>8
  <2>2. j \in 1..Len(t) /\ i = Len(e) + j
    BY <1>2, <1>3, <1>6, <1>7, <2>1
  <2> HIDE DEF j
  <2>3. s[j + 1][1] = "connect" /\ j + 1 \in 1..Len(s)
    BY <1>2, <1>6, <2>2
  <2>4. j + 1 < Len(s) /\ s[(j + 1) + 1] = <<"start", "kept">>
    BY <2>3 DEF ConnectsToStart
  <2>a. j + 1 \in 1..Len(t)
    BY <1>2, <2>2, <2>4
  <2>5. j + 1 \in 1..Len(t) /\ t[j + 1] = <<"start", "kept">>
    BY <1>2, <2>4, <2>a
  <2>6. i + 1 = Len(e) + (j + 1) /\ i < Len(r)
    BY <1>2, <1>3, <1>6, <1>7, <2>2, <2>5
  <2> QED
    BY <1>6, <2>5, <2>6
<1> QED
  BY <1>3, <1>4, <1>a, <1>6, <1>8, <1>10, <1>11 DEF c, t, e, r

LEMMA ReplacingFits ==
  ASSUME NEW s \in Seq(Call), s # <<>>, Shape(s), s[1] = <<"replace", "fresh">>,
         NEW k \in Source, k.stream_active => k.device_connected, ~k.made => k = NoSource,
         NEW f, NEW mine, NEW at, NEW refs, Runs(k, mine, at, refs)
  PROVE  LET r == Dropping(k, "kept") \o Calls("fresh", <<"install">>) \o Tail(s)
         IN  /\ r \in Seq(Call) /\ ScriptFits(r, k, f, mine, at, refs)
             /\ ConnectsToStart(s) => ConnectsToStart(r)
<1> DEFINE d == Dropping(k, "kept")
           n == Len(d)
           r == d \o Calls("fresh", <<"install">>) \o Tail(s)
<1>1. d \in Seq(Call) /\ (~k.made => n = 0)
  BY DroppingIs DEF Slots
<1>2. k.made => Cleans(d, "kept", k) /\ n >= 1 /\ d[n] = <<"shutdown", "kept">>
  BY DroppingCleans DEF Slots
<1> HIDE DEF d
<1>3. /\ r \in Seq(Call)
      /\ n \in Nat /\ Len(r) >= n + 1 /\ r[n + 1] = <<"install", "fresh">>
      /\ \A i \in 1..n : r[i] = d[i]
      /\ \A i \in 1..Len(r) : i > n + 1 =>
           /\ r[i][1] \notin Cleanup \cup Opening \cup {"init", "open_handle", "replace", "install"}
           /\ r[i][1] = "start" => r[i - 1] = <<"connect", "kept">>
  BY <1>1, ReplacingIs
<1>b. (\A i \in 1..n : d[i][1] # "connect") /\ ConnectsToStart(s) => ConnectsToStart(r)
  BY <1>1, ReplacingIs
<1> HIDE DEF r
<1>4. n >= 1 => k.made
  BY <1>1
<1> HIDE DEF n
<1>5. \A i \in 1..Len(r) : i < n + 1 => i \in 1..n /\ r[i] = d[i] /\ n >= 1
  BY <1>3
<1>6. \A i \in 1..n :
        /\ i \in 1..Len(r) /\ r[i] = d[i] /\ r[i][1] \in Cleanup /\ r[i][2] = "kept"
        /\ i <= Len(d)
  <2> SUFFICES ASSUME NEW i \in 1..n
               PROVE  /\ i \in 1..Len(r) /\ r[i] = d[i] /\ r[i][1] \in Cleanup /\ r[i][2] = "kept"
                      /\ i <= Len(d)
    OBVIOUS
  <2>1. i \in 1..Len(r) /\ r[i] = d[i] /\ n >= 1
    BY <1>3
  <2>2. k.made /\ i \in 1..Len(d)
    BY <1>4, <2>1 DEF n
  <2>3. d[i][1] \in Cleanup /\ d[i][2] = "kept"
    BY <1>2, <2>2 DEF Cleans
  <2> QED
    BY <2>1, <2>2, <2>3
<1>7. \A i \in 1..Len(r) : r[i][1] \in Cleanup => i \in 1..n
  BY <1>3 DEF Cleanup
<1>8. \A i \in 1..Len(r) : r[i][1] \in {"replace", "install"} => i = n + 1
  BY <1>3, <1>6 DEF Cleanup
<1>9. \A i \in 1..Len(r) : r[i][1] = "start" => r[i - 1] = <<"connect", "kept">> /\ i > n + 1
  BY <1>3, <1>6 DEF Cleanup
<1>10. \A i \in 1..Len(r) : r[i][1] \notin {"init", "open_handle"} \cup Opening
  BY <1>3, <1>6 DEF Cleanup, Opening
<1>11. \A i \in 1..n : \A j \in 1..(i - 1) : j \in 1..n /\ r[j] = d[j]
  BY <1>3
<1>12. Shape(r)
  <2> SUFFICES ASSUME NEW i \in 1..Len(r)
               PROVE  /\ r[i][1] \in {"replace", "install"} =>
                           \A j \in 1..Len(r) : r[j][1] \in {"replace", "install"} => j = i
                      /\ r[i][1] = "install" => \A j \in 1..(i - 1) : r[j] \in Cleanup \X {"kept"}
                      /\ r[i][1] = "stop" => i < Len(r) /\ r[i + 1] = <<"disconnect", r[i][2]>>
                      /\ r[i][1] \in Cleanup =>
                           \A j \in 1..(i - 1) : r[j][1] \in Cleanup
                      /\ r[i][1] \in {"stop", "disconnect"} =>
                           \A j \in 1..(i - 1) : r[j] # <<"close", r[i][2]>> /\ r[j] # <<"shutdown", r[i][2]>>
    BY <1>9, <1>10 DEF Shape
  <2>1. r[i][1] \in {"replace", "install"} =>
          \A j \in 1..Len(r) : r[j][1] \in {"replace", "install"} => j = i
    BY <1>8
  <2>2. r[i][1] = "install" => \A j \in 1..(i - 1) : r[j] \in Cleanup \X {"kept"}
    <3> SUFFICES ASSUME r[i][1] = "install", NEW j \in 1..(i - 1)
                 PROVE  r[j] \in Cleanup \X {"kept"}
      OBVIOUS
    <3>1. j \in 1..n
      BY <1>3, <1>8
    <3>2. r[j] \in Call /\ r[j][1] \in Cleanup /\ r[j][2] = "kept"
      BY <1>3, <1>6, <3>1
    <3> QED
      BY <3>2 DEF Call
  <2>3. r[i][1] = "stop" => i < Len(r) /\ r[i + 1] = <<"disconnect", r[i][2]>>
    <3> SUFFICES ASSUME r[i][1] = "stop" PROVE i < Len(r) /\ r[i + 1] = <<"disconnect", r[i][2]>>
      OBVIOUS
    <3>1. i \in 1..n
      BY <1>7 DEF Cleanup
    <3>2. k.made /\ d[i][1] = "stop" /\ r[i][2] = "kept"
      BY <1>4, <1>6, <3>1, <1>3
    <3>3. i < n /\ d[i + 1] = <<"disconnect", "kept">>
      BY <1>2, <3>1, <3>2 DEF Cleans, n
    <3>4. i + 1 \in 1..n
      BY <1>3, <3>1, <3>3
    <3> QED
      BY <1>3, <3>2, <3>3, <3>4
  <2>4. r[i][1] \in Cleanup => \A j \in 1..(i - 1) : r[j][1] \in Cleanup
    BY <1>6, <1>7, <1>11
  <2>5. r[i][1] \in {"stop", "disconnect"} =>
          \A j \in 1..(i - 1) : r[j] # <<"close", r[i][2]>> /\ r[j] # <<"shutdown", r[i][2]>>
    <3> SUFFICES ASSUME r[i][1] \in {"stop", "disconnect"}, NEW j \in 1..(i - 1)
                 PROVE  r[j][1] \notin {"close", "shutdown"}
      OBVIOUS
    <3>1. i \in 1..n
      BY <1>7 DEF Cleanup
    <3>2. k.made /\ d[i][1] \in {"stop", "disconnect"} /\ r[j] = d[j]
      BY <1>3, <1>4, <1>6, <1>11, <3>1
    <3> QED
      BY <1>2, <3>1, <3>2 DEF Cleans, n
  <2> QED
    BY <2>1, <2>2, <2>3, <2>4, <2>5
<1>13. n + 1 \in 1..Len(r) /\ 1 \in 1..Len(r) /\ r # <<>>
  BY <1>3
<1>14. FreshIsSettled(r, f)
  <2>1. \A j \in 1..((n + 1) - 1) : r[j] \notin Risky
    BY <1>3, <1>6 DEF Risky, Opening, Cleanup
  <2>2. r[n + 1] \in Settling
    BY <1>3 DEF Settling
  <2> QED
    BY <1>10, <1>13, <2>1, <2>2 DEF FreshIsSettled
<1>a. OpensWhatIsMade(r, k, f)
  BY <1>10 DEF OpensWhatIsMade
<1>15. KeptIsSettled(r, k)
  <2> SUFFICES ASSUME NEW i \in 1..Len(r), r[i][1] = "install", k # NoSource
               PROVE  Earlier(r, i, <<"shutdown", "kept">>)
    BY DEF KeptIsSettled
  <2>1. i = n + 1 /\ k.made
    BY <1>8
  <2>2. n \in 1..(i - 1) /\ n \in 1..n
    BY <1>2, <1>3, <2>1
  <2>3. r[n] = <<"shutdown", "kept">>
    BY <1>2, <1>3, <2>1, <2>2
  <2> QED
    BY <2>2, <2>3 DEF Earlier
<1>16. \A i \in 1..n : \A c : Earlier(d, i, c) => Earlier(r, i, c)
  BY <1>11 DEF Earlier
<1>17. \A x \in Slots : \A open : ClosedTwice(r, x, open, refs)
  <2> SUFFICES ASSUME NEW x \in Slots, NEW i \in 1..Len(r), r[i] = <<"shutdown", x>>
               PROVE  TwoCloses(r, i, x) /\ Earlier(r, i, <<"close", x>>)
    BY DEF ClosedTwice, TwoCloses
  <2>1. i \in 1..n
    BY <1>7 DEF Cleanup
  <2>2. k.made /\ d[i][1] = "shutdown" /\ x = "kept"
    BY <1>4, <1>6, <2>1, <1>3
  <2>3. TwoCloses(d, i, x)
    BY <1>2, <2>1, <2>2 DEF Cleans, n
  <2>4. PICK j \in 1..(i - 1) : d[j] = <<"close", x>> /\ Earlier(d, j, <<"close", x>>)
    BY <2>3 DEF TwoCloses
  <2>5. j \in 1..n /\ r[j] = d[j] /\ Earlier(r, j, <<"close", x>>)
    BY <1>11, <1>16, <2>1, <2>4
  <2> QED
    BY <2>4, <2>5 DEF TwoCloses, Earlier
<1>18. StopsWhatRuns(r, k, f, mine, at, refs)
  <2>1. \A i \in 1..Len(r) :
          r[i][1] \in {"stop", "disconnect"} => r[i][2] = "kept" /\ k.device_connected
    <3> SUFFICES ASSUME NEW i \in 1..Len(r), r[i][1] \in {"stop", "disconnect"}
                 PROVE  r[i][2] = "kept" /\ k.device_connected
      OBVIOUS
    <3>1. i \in 1..n
      BY <1>7 DEF Cleanup
    <3>2. k.made /\ d[i][1] \in {"stop", "disconnect"} /\ r[i][2] = "kept"
      BY <1>3, <1>4, <1>6, <3>1
    <3> QED
      BY <1>2, <3>1, <3>2 DEF Cleans, n
  <2>2. r[1][1] # "start"
    BY <1>3, <1>9, <1>13
  <2>3. \A i \in 1..Len(r) :
          r[i] \in {<<"close", "kept">>, <<"shutdown", "kept">>} /\ mine =>
            /\ at = "started" => "stop" \in refs \/ Earlier(r, i, <<"stop", "kept">>)
            /\ at # "off" => "disconnect" \in refs \/ Earlier(r, i, <<"disconnect", "kept">>)
    <3> SUFFICES ASSUME NEW i \in 1..Len(r), mine,
                        r[i] \in {<<"close", "kept">>, <<"shutdown", "kept">>}
                 PROVE  /\ at = "started" => "stop" \in refs \/ Earlier(r, i, <<"stop", "kept">>)
                        /\ at # "off" => "disconnect" \in refs \/ Earlier(r, i, <<"disconnect", "kept">>)
      OBVIOUS
    <3>1. i \in 1..n
      BY <1>7 DEF Cleanup
    <3>2. k.made /\ d[i][1] \in {"close", "shutdown"}
      BY <1>3, <1>4, <3>1
    <3>3. /\ k.stream_active => Earlier(d, i, <<"stop", "kept">>)
          /\ k.device_connected => Earlier(d, i, <<"disconnect", "kept">>)
      BY <1>2, <3>1, <3>2 DEF Cleans, n
    <3>4. /\ k.stream_active => Earlier(r, i, <<"stop", "kept">>)
          /\ k.device_connected => Earlier(r, i, <<"disconnect", "kept">>)
      BY <1>16, <3>1, <3>3
    <3> QED
      BY <3>4 DEF Runs
  <2> QED
    BY <2>1, <2>2, <2>3 DEF StopsWhatRuns, Runs
<1>19. ConnectsToStart(s) => ConnectsToStart(r)
  BY <1>b, <1>6 DEF Cleanup
<1> QED
  BY <1>3, <1>12, <1>14, <1>a, <1>15, <1>17, <1>18, <1>19 DEF ScriptFits, r, Slots, d

LEMMA OpeningPops ==
  ASSUME NEW s \in Seq(Call), s # <<>>, s[1][1] \notin Cleanup,
         NEW k, NEW l, NEW f, NEW g, NEW mine, NEW mine2, NEW at, NEW at2, NEW refs, NEW more,
         ScriptFits(s, k, f, mine, at, refs),
         s[1][1] = "init" => g.initialized,
         g # NoSource => s[1] \notin Settling /\ (f # NoSource \/ s[1][1] = "init"),
         s[1] = <<"connect", "kept">> => l.device_connected,
         s[1][1] # "install" /\ k.made => l.made,
         s[1][1] # "install" /\ (f.made \/ s[1][1] = "init") => g.made,
         Runs(l, mine2, at2, more)
  PROVE  Tail(s) \in Seq(Call) /\ ScriptFits(Tail(s), l, g, mine2, at2, more)
<1>1. /\ Shape(s) /\ FreshIsSettled(s, f) /\ KeptIsSettled(s, k)
      /\ OpensWhatIsMade(s, k, f) /\ StopsWhatRuns(s, k, f, mine, at, refs)
  BY DEF ScriptFits
<1>2. s[1] # <<"shutdown", "kept">> /\ s[1] \notin Cleanup \X {"kept"}
  BY DEF Cleanup
<1>3. Tail(s) \in Seq(Call) /\ \A i \in 1..Len(Tail(s)) : Tail(s)[i][1] \notin Cleanup
  BY <1>1, NoCleanupFollows, Popped
<1>4. Shape(Tail(s))
  BY <1>1, ShapeOfTail
<1>5. FreshIsSettled(Tail(s), g)
  BY <1>1, FreshPops
<1>6. KeptIsSettled(Tail(s), l)
  BY <1>1, <1>2, KeptPops
<1>7. \A x, open : ClosedTwice(Tail(s), x, open, more)
  BY <1>3, NothingToClose
<1>8. StopsWhatRuns(Tail(s), l, g, mine2, at2, more)
  BY <1>1, StopsPops
<1>9. OpensWhatIsMade(Tail(s), l, g)
  BY <1>1, MadePops DEF Opening
<1> QED
  BY <1>3, <1>4, <1>5, <1>9, <1>6, <1>7, <1>8 DEF ScriptFits

LEMMA CleanupPops ==
  ASSUME NEW s \in Seq(Call), s # <<>>, s[1][1] \in Cleanup,
         NEW k, NEW l, NEW f, NEW g, NEW mine, NEW mine2, NEW at, NEW at2, NEW refs, NEW more,
         ScriptFits(s, k, f, mine, at, refs),
         g # NoSource => s[1] # <<"shutdown", "fresh">> /\ f # NoSource,
         s[1] = <<"shutdown", "kept">> => l = NoSource,
         k = NoSource => l = NoSource,
         l.device => k.device, g.device => f.device, refs \subseteq more,
         s[1] = <<"close", "kept">> /\ l.device =>
           "close" \in more /\ ("close" \in refs => "closed_again" \in more),
         s[1] = <<"close", "fresh">> /\ g.device =>
           "close" \in more /\ ("close" \in refs => "closed_again" \in more),
         s[1] \notin {<<"close", "kept">>, <<"shutdown", "kept">>} /\ k.device_connected =>
           l.device_connected,
         Runs(l, mine2, at2, more), mine2 => mine,
         mine2 /\ at2 = "started" => at = "started" /\ (s[1] = <<"stop", "kept">> => "stop" \in more),
         mine2 /\ at2 # "off" =>
           /\ at # "off" \/ s[1] = <<"stop", "kept">>
           /\ s[1] = <<"disconnect", "kept">> => "disconnect" \in more
  PROVE  Tail(s) \in Seq(Call) /\ ScriptFits(Tail(s), l, g, mine2, at2, more)
<1>1. /\ Shape(s) /\ FreshIsSettled(s, f) /\ KeptIsSettled(s, k) /\ OpensWhatIsMade(s, k, f)
      /\ ClosedTwice(s, "kept", k.device, refs) /\ ClosedTwice(s, "fresh", f.device, refs)
      /\ StopsWhatRuns(s, k, f, mine, at, refs)
  BY DEF ScriptFits
<1>2. s[1][1] # "init" /\ s[1][1] # "connect" /\ (s[1] \in Settling => s[1] = <<"shutdown", "fresh">>)
  BY DEF Cleanup, Settling
<1>3. Tail(s) \in Seq(Call) /\ Shape(Tail(s))
  BY <1>1, ShapeOfTail, Popped
<1>4. FreshIsSettled(Tail(s), g)
  BY <1>1, <1>2, FreshPops
<1>5. KeptIsSettled(Tail(s), l)
  BY <1>1, KeptPops
<1>6. ClosedTwice(Tail(s), "kept", l.device, more)
  BY <1>1, ClosedPops
<1>7. ClosedTwice(Tail(s), "fresh", g.device, more)
  BY <1>1, ClosedPops
<1>8. StopsWhatRuns(Tail(s), l, g, mine2, at2, more)
  BY <1>1, <1>2, StopsPops
<1>9. OpensWhatIsMade(Tail(s), l, g)
  BY <1>1, MadePops DEF Opening, Cleanup
<1> QED
  BY <1>3, <1>4, <1>5, <1>9, <1>6, <1>7, <1>8 DEF ScriptFits

\* The step from a connect to its start, and from a start to a stream that runs.
LEMMA GoesOnPops ==
  ASSUME NEW s \in Seq(Call), s # <<>>, NEW k, NEW l, GoesOn(s, k),
         l.device_connected =>
           \/ s[1][1] = "connect"
           \/ /\ k.device_connected /\ (k.stream_active \/ s[1][1] = "start" => l.stream_active)
              /\ s[1] # <<"close", "kept">>
  PROVE  GoesOn(Tail(s), l)
<1> DEFINE t == Tail(s)
<1>1. /\ Len(s) \in Nat /\ Len(t) = Len(s) - 1
      /\ \A i \in 1..Len(t) : t[i] = s[i + 1] /\ i + 1 \in 1..Len(s)
  BY Popped
<1>a. Len(s) > 0
  BY TailAt
<1> HIDE DEF t
<1>2. \A i \in 1..Len(s) : i # 1 => i - 1 \in 1..Len(t) /\ t[i - 1] = s[i]
  BY <1>1
<1>3. ConnectsToStart(t)
  <2> SUFFICES ASSUME NEW i \in 1..Len(t), t[i][1] = "connect"
               PROVE  i < Len(t) /\ t[i + 1] = <<"start", "kept">>
    BY DEF ConnectsToStart
  <2>1. s[i + 1][1] = "connect" /\ i + 1 \in 1..Len(s)
    BY <1>1
  <2>2. i + 1 < Len(s) /\ s[(i + 1) + 1] = <<"start", "kept">>
    BY <2>1 DEF GoesOn, ConnectsToStart
  <2>3. i < Len(t) /\ i + 1 \in 1..Len(t)
    BY <1>1, <2>2
  <2> QED
    BY <1>1, <2>2, <2>3
<1>4. CASE s[1][1] = "connect"
  <2>1. 1 \in 1..Len(s)
    BY <1>1, <1>a
  <2>2. 1 < Len(s) /\ s[1 + 1] = <<"start", "kept">>
    BY <1>4, <2>1 DEF GoesOn, ConnectsToStart
  <2>3. 1 \in 1..Len(t)
    BY <1>1, <2>2
  <2>4. t # <<>> /\ t[1] = <<"start", "kept">>
    BY <1>1, <2>2, <2>3
  <2> QED
    BY <1>3, <2>4 DEF GoesOn, t
<1>5. CASE ~l.device_connected
  BY <1>3, <1>5 DEF GoesOn, t
<1>6. CASE l.stream_active
  BY <1>3, <1>6 DEF GoesOn, t
<1>7. CASE s[1][1] # "connect" /\ l.device_connected /\ ~l.stream_active
  <2>1. PICK i \in 1..Len(s) : s[i] = <<"close", "kept">>
    BY <1>7 DEF GoesOn
  <2>2. i # 1
    BY <1>7, <2>1
  <2>3. i - 1 \in 1..Len(t) /\ t[i - 1] = <<"close", "kept">>
    BY <1>2, <2>1, <2>2
  <2> QED
    BY <1>3, <2>3 DEF GoesOn, t
<1> QED
  BY <1>4, <1>5, <1>6, <1>7

\* Before anything cleans up, what is connected runs or is started next.
LEMMA OpeningRuns ==
  ASSUME NEW s \in Seq(Call), s # <<>>, Shape(s), NEW k, GoesOn(s, k),
         s[1][1] \notin Cleanup, s[1][1] # "start"
  PROVE  k.device_connected => k.stream_active
<1>1. \A i \in 1..Len(s) : s[i][1] \notin Cleanup
  BY NoCleanupFollows
<1>2. \A i \in 1..Len(s) : s[i] # <<"close", "kept">>
  BY <1>1 DEF Cleanup
<1> QED
  BY <1>2 DEF GoesOn

LEMMA CleansGoOn ==
  ASSUME NEW s, NEW x, NEW i, Cleans(s, x, i), NEW k,
         k.device_connected =>
           k.stream_active \/ \E j \in 1..Len(s) : s[j] = <<"close", "kept">>
  PROVE  GoesOn(s, k)
BY DEF Cleans, Cleanup, GoesOn, ConnectsToStart

LEMMA StartsConnect ==
  /\ ConnectsToStart(BringUp \o Install) /\ ConnectsToStart(initialize \o Install)
  /\ ConnectsToStart(Run) /\ ConnectsToStart(StartBlock)
  /\ \A o : ConnectsToStart(RestartCalls(o))
<1>1. ConnectsToStart(BringUp \o Install)
  <2>1. \A i \in 1..6 : i = 1 \/ i = 2 \/ i = 3 \/ i = 4 \/ i = 5 \/ i = 6
    OBVIOUS
  <2> QED
    BY <2>1, BringingIs, SMTT(30) DEF ConnectsToStart
<1>2. ConnectsToStart(initialize \o Install)
  <2>1. \A i \in 1..3 : i = 1 \/ i = 2 \/ i = 3
    OBVIOUS
  <2> QED
    BY <2>1, InitializingIs DEF ConnectsToStart
<1>3. ConnectsToStart(Run)
  BY RunIs DEF ConnectsToStart
<1>4. ConnectsToStart(StartBlock)
  <2>1. \A i \in 1..5 : i = 1 \/ i = 2 \/ i = 3 \/ i = 4 \/ i = 5
    OBVIOUS
  <2> QED
    BY <2>1, StartBlockIs DEF ConnectsToStart
<1>5. \A o : ConnectsToStart(RestartCalls(o))
  <2> TAKE o
  <2> DEFINE s == RestartCalls(o)
  <2>1. \A i \in 1..8 : i = 1 \/ i = 2 \/ i = 3 \/ i = 4 \/ i = 5 \/ i = 6 \/ i = 7 \/ i = 8
    OBVIOUS
  <2>2. /\ Len(s) = 8 /\ s[1][1] # "connect" /\ s[2][1] # "connect" /\ s[3][1] # "connect"
        /\ s[4][1] # "connect" /\ s[5][1] # "connect" /\ s[6][1] # "connect"
        /\ s[8] = <<"start", "kept">>
    BY RestartingIs
  <2> HIDE DEF s
  <2>3. \A i \in 1..Len(s) : s[i][1] = "connect" => i = 7 \/ i = 8
    BY <2>1, <2>2
  <2>4. s[8][1] # "connect"
    BY <2>2
  <2>5. \A i \in 1..Len(s) : s[i][1] = "connect" => i = 7
    BY <2>3, <2>4
  <2> QED
    BY <2>2, <2>5 DEF ConnectsToStart, s
<1> QED
  BY <1>1, <1>2, <1>3, <1>4, <1>5

\* An owner is in order whatever happens to a device that is not its own.
LEMMA OthersKeep ==
  ASSUME NEW s, NEW k, NEW f, NEW mine, NEW mine2, NEW at, NEW at2, NEW refs, NEW more,
         OwnerIsInOrder(s, k, f, mine, at, refs), ~mine, ~mine2
  PROVE  OwnerIsInOrder(s, k, f, mine2, at2, more)
<1>1. ~k.device /\ ~f.device
  BY DEF OwnerIsInOrder, SourcesAgree
<1>2. ClosedTwice(s, "kept", k.device, more) /\ ClosedTwice(s, "fresh", f.device, more)
  BY <1>1 DEF ClosedTwice
<1>3. StopsWhatRuns(s, k, f, mine2, at2, more)
  BY DEF OwnerIsInOrder, ScriptFits, StopsWhatRuns
<1>4. SourcesAgree(k, f, mine2)
  BY DEF OwnerIsInOrder, SourcesAgree
<1> QED
  BY <1>2, <1>3, <1>4 DEF OwnerIsInOrder, ScriptFits, HeldIsAccountedFor
-----------------------------------------------------------------------------
(* One owner's step *)

LEMMA NoSourceIs ==
  /\ NoSource \in Source /\ ~NoSource.made /\ ~NoSource.initialized /\ ~NoSource.handle
  /\ ~NoSource.device /\ ~NoSource.device_connected /\ ~NoSource.stream_active
BY DEF NoSource, Source

\* What an owner's order says of its two sources.
LEMMA OrderSays ==
  ASSUME Inv, NEW o \in Owners
  PROVE  LET k == src[o]["kept"]
             f == src[o]["fresh"]
         IN  /\ k \in Source /\ f \in Source /\ script[o] \in Seq(Call)
             /\ ScriptFits(script[o], k, f, held = o, line, refused)
             /\ SourcesAgree(k, f, held = o)
             /\ HeldIsAccountedFor(k, f, held = o, refused)
             /\ Runs(k, held = o, line, refused)
             /\ GoesOn(script[o], k)
             /\ script[o] = <<>> => f = NoSource /\ (k.device_connected => k.stream_active)
             /\ script[o] # <<>> => script[o][1] \in Call /\ Head(script[o]) = script[o][1]
<1>1. src[o]["kept"] \in Source /\ src[o]["fresh"] \in Source /\ script[o] \in Seq(Call)
  BY DEF Inv, Typed, Slots
<1>2. OwnerIsInOrder(script[o], src[o]["kept"], src[o]["fresh"], held = o, line, refused)
  BY DEF Inv, OwnersInOrder
<1>3. Runs(src[o]["kept"], held = o, line, refused)
  BY <1>2 DEF OwnerIsInOrder, ScriptFits, StopsWhatRuns, Runs
<1>4. /\ script[o] = <<>> => src[o]["fresh"] = NoSource
      /\ script[o] = <<>> /\ src[o]["kept"].device_connected => src[o]["kept"].stream_active
  BY <1>2 DEF OwnerIsInOrder, ScriptFits, FreshIsSettled, GoesOn
<1>5. script[o] # <<>> => script[o][1] \in Call /\ Head(script[o]) = script[o][1]
  BY <1>1, TailAt
<1> QED
  BY <1>1, <1>2, <1>3, <1>4, <1>5 DEF OwnerIsInOrder

\* The types of what a configuration writes and remembers.
Settings ==
  /\ dev \in Device /\ DOMAIN items = Items /\ items["spanfreq"] \in Nat
  /\ mode \in [Owners -> Modes] /\ config \in [Owners -> Request] /\ torn \in BOOLEAN

\* A step of one owner: the others keep their order, and their share of the count.
LEMMA StepKeepsInv ==
  ASSUME Inv, NEW o \in Owners, NEW s \in Seq(Call), NEW w \in [Slots -> Source],
         script' = [script EXCEPT ![o] = s], src' = [src EXCEPT ![o] = w],
         Settings', sdk' \in {"up", "down"}, held' \in Owners \cup {Nobody},
         line' \in {"off", "connected", "started"}, refused' \subseteq Refusals,
         OwnerIsInOrder(s, w["kept"], w["fresh"], held' = o, line', refused'),
         \/ held' = held /\ line' = line /\ refused' = refused
         \/ held \in {o, Nobody} /\ held' \in {o, Nobody},
         live' \in Nat, live' = Cardinality(Clients'), live' > 0 => sdk' = "up",
         held' = Nobody => line' = "off"
  PROVE  Inv'
<1>1. /\ src \in [Owners -> [Slots -> Source]] /\ script \in [Owners -> Seq(Call)]
      /\ Nobody \notin Owners
  BY OwnersAssumption DEF Inv, Typed
<1>2. /\ src' \in [Owners -> [Slots -> Source]] /\ src'[o] = w
      /\ \A p \in Owners : p # o => src'[p] = src[p]
  BY <1>1
<1>3. /\ script' \in [Owners -> Seq(Call)] /\ script'[o] = s
      /\ \A p \in Owners : p # o => script'[p] = script[p]
  BY <1>1
<1>4. Typed'
  BY <1>2, <1>3 DEF Typed, Settings
<1>5. OwnersInOrder'
  <2> SUFFICES ASSUME NEW p \in Owners
               PROVE  OwnerIsInOrder(script'[p], src'[p]["kept"], src'[p]["fresh"], held' = p,
                                     line', refused')
    BY DEF OwnersInOrder
  <2>1. CASE p = o
    BY <1>2, <1>3, <2>1
  <2>2. CASE p # o
    <3>1. OwnerIsInOrder(script[p], src[p]["kept"], src[p]["fresh"], held = p, line, refused)
      BY DEF Inv, OwnersInOrder
    <3>2. script'[p] = script[p] /\ src'[p] = src[p]
      BY <1>2, <1>3, <2>2
    <3>3. CASE held' = held /\ line' = line /\ refused' = refused
      BY <3>1, <3>2, <3>3
    <3>4. CASE held \in {o, Nobody} /\ held' \in {o, Nobody}
      <4>1. ~(held = p) /\ ~(held' = p)
        BY <1>1, <2>2, <3>4
      <4> QED
        BY <3>1, <3>2, <4>1, OthersKeep
    <3> QED
      BY <3>3, <3>4
  <2> QED
    BY <2>1, <2>2
<1> QED
  BY <1>4, <1>5 DEF Inv

\* A step that changes neither who is initialised nor the device.
LEMMA SameClients ==
  ASSUME Inv, NEW o \in Owners, NEW w \in [Slots -> Source], src' = [src EXCEPT ![o] = w],
         \A x \in Slots : w[x].initialized = src[o][x].initialized
  PROVE  Clients' = Clients
<1>1. src \in [Owners -> [Slots -> Source]]
  BY DEF Inv, Typed
<1>2. \A p \in Owners, x \in Slots : src'[p][x].initialized = src[p][x].initialized
  BY <1>1
<1>3. \A i \in Owners \X Slots : src'[i[1]][i[2]].initialized = src[i[1]][i[2]].initialized
  BY <1>2
<1> QED
  BY <1>3 DEF Clients

\* A step that only gives an owner other calls to make, or other settings.
LEMMA ScriptStep ==
  ASSUME Inv, NEW o \in Owners, NEW s \in Seq(Call),
         script' = [script EXCEPT ![o] = s], GoesOn(s, src[o]["kept"]),
         ScriptFits(s, src[o]["kept"], src[o]["fresh"], held = o, line, refused),
         Settings', UNCHANGED <<sdk, held, line, refused, live, src>>
  PROVE  Inv'
<1>1. src \in [Owners -> [Slots -> Source]] /\ src[o] \in [Slots -> Source]
  BY DEF Inv, Typed
<1>2. src' = [src EXCEPT ![o] = src[o]]
  BY <1>1
<1>3. OwnerIsInOrder(s, src[o]["kept"], src[o]["fresh"], held' = o, line', refused')
  BY OrderSays DEF OwnerIsInOrder
<1>4. Clients' = Clients
  BY DEF Clients
<1>5. /\ sdk' \in {"up", "down"} /\ held' \in Owners \cup {Nobody}
      /\ line' \in {"off", "connected", "started"} /\ refused' \subseteq Refusals
      /\ live' \in Nat /\ live' = Cardinality(Clients') /\ (live' > 0 => sdk' = "up")
      /\ (held' = Nobody => line' = "off")
  BY <1>4 DEF Inv, Typed
<1> QED
  BY <1>1, <1>2, <1>3, <1>5, StepKeepsInv
-----------------------------------------------------------------------------
(* What configuring writes *)

LEMMA AfterKeepsItems ==
  ASSUME NEW d, NEW its, DOMAIN its = Items, its["spanfreq"] \in Nat, NEW writes, NEW n,
         \A k \in 1..n : writes[k][1] = "spanfreq" => writes[k][2] \in Nat
  PROVE  DOMAIN After(d, its, writes, n) = Items /\ After(d, its, writes, n)["spanfreq"] \in Nat
<1>1. DOMAIN After(d, its, writes, n) = Items
  BY DEF After
<1>2. CASE "spanfreq" \notin d.ignored /\ \E k \in 1..n : writes[k][1] = "spanfreq"
  <2> DEFINE h == CHOOSE k \in 1..n : writes[k][1] = "spanfreq"
  <2>1. h \in 1..n /\ writes[h][1] = "spanfreq"
    BY <1>2
  <2>2. After(d, its, writes, n)["spanfreq"] = writes[h][2]
    BY <1>2 DEF After, Items
  <2> HIDE DEF h
  <2> QED
    BY <1>1, <2>1, <2>2
<1>3. CASE ~("spanfreq" \notin d.ignored /\ \E k \in 1..n : writes[k][1] = "spanfreq")
  <2>1. After(d, its, writes, n)["spanfreq"] = its["spanfreq"]
    BY <1>3 DEF After, Items
  <2> QED
    BY <1>1, <2>1
<1> QED
  BY <1>2, <1>3

LEMMA SpansAreNumbers ==
  ASSUME NEW m, NEW req \in Request
  PROVE  spanfreq_to_write(m, req) \in Nat
<1>1. req.rate \in Nat /\ req.span \in Nat \cup {Unset}
  BY ConfigAssumption DEF Request
<1>2. (2 * req.rate) \div 3 \in Nat
  BY <1>1
<1> QED
  BY <1>1, <1>2 DEF spanfreq_to_write

LEMMA WriteIs ==
  ASSUME NEW T, NEW d, NEW item, NEW value, <<item, value>> \in T
  PROVE  Write(d, item, value) \in Seq(T)
<1> DEFINE w == <<item, value>>
<1>1. w \in T /\ Write(d, item, value) \in {<<w>>, <<>>}
  BY DEF Write
<1> HIDE DEF w
<1>2. <<w>> \in Seq(T) /\ <<>> \in Seq(T)
  BY <1>1
<1> QED
  BY <1>1, <1>2

LEMMA WritesSpans ==
  ASSUME NEW m, NEW d, NEW its, NEW req \in Request, NEW n \in Accepted(Writes(m, d, its, req))
  PROVE  \A k \in 1..n :
           Writes(m, d, its, req)[k][1] = "spanfreq" => Writes(m, d, its, req)[k][2] \in Nat
<1> DEFINE span == spanfreq_to_write(m, req)
           channel == ChannelWritten(req)
           clock == ClockLabel(d, its, req)
           T == {<<"centerfreq", req.center>>, <<"receiverchannel", channel>>,
                 <<"receiverclock", clock>>, <<"decimation", req.decimation>>,
                 <<"spanfreq", span>>}
           a == Write(d, "centerfreq", req.center)
           b == IF explicit_raw(req) THEN <<>> ELSE Write(d, "spanfreq", span)
           e == Write(d, "receiverchannel", channel)
           f == Write(d, "receiverclock", clock)
           c == IF supports_raw_only_keys(m) THEN e \o f ELSE <<>>
           g == IF req.decimation = Unset THEN <<>> ELSE Write(d, "decimation", req.decimation)
           w == Writes(m, d, its, req)
<1>1. span \in Nat
  BY SpansAreNumbers
<1>2. /\ <<"centerfreq", req.center>> \in T /\ <<"spanfreq", span>> \in T
      /\ <<"receiverchannel", channel>> \in T /\ <<"receiverclock", clock>> \in T
      /\ <<"decimation", req.decimation>> \in T
  OBVIOUS
<1>3. <<>> \in Seq(T)
  OBVIOUS
<1>4. \A t \in T : t[1] = "spanfreq" => t[2] \in Nat
  BY <1>1
<1>5. w = a \o b \o c \o g
  BY DEF Writes
<1>6. c = e \o f \/ c = <<>>
  OBVIOUS
<1>7. /\ b \in {<<>>, Write(d, "spanfreq", span)}
      /\ g \in {<<>>, Write(d, "decimation", req.decimation)}
  OBVIOUS
<1> HIDE DEF span, channel, clock, T
<1>8. a \in Seq(T) /\ e \in Seq(T) /\ f \in Seq(T)
  BY <1>2, WriteIs, Zenon
<1>10. Write(d, "spanfreq", span) \in Seq(T) /\ Write(d, "decimation", req.decimation) \in Seq(T)
  BY <1>2, WriteIs, Zenon
<1> HIDE DEF a, b, c, e, f, g, w
<1>11. b \in Seq(T) /\ g \in Seq(T)
  BY <1>3, <1>7, <1>10
<1>12. e \o f \in Seq(T)
  BY <1>8, ConcatProperties
<1>13. c \in Seq(T)
  BY <1>3, <1>6, <1>12
<1>14. a \o b \in Seq(T)
  BY <1>8, <1>11, ConcatProperties
<1>15. (a \o b) \o c \in Seq(T)
  BY <1>13, <1>14, ConcatProperties
<1>16. w \in Seq(T)
  BY <1>5, <1>11, <1>15, ConcatProperties
<1>9. \A k \in 1..n : w[k] \in T
  BY <1>16 DEF Accepted, w
<1> QED
  BY <1>4, <1>9 DEF w

LEMMA TransmitWritesSpans ==
  ASSUME NEW d, NEW req \in Request, NEW n \in Accepted(TransmitWrites(d, req))
  PROVE  \A k \in 1..n :
           TransmitWrites(d, req)[k][1] = "spanfreq" => TransmitWrites(d, req)[k][2] \in Nat
<1> DEFINE T == {<<"centerfreq", req.center>>, <<"spanfreq", req.rate>>}
           a == Write(d, "centerfreq", req.center)
           b == Write(d, "spanfreq", req.rate)
           w == TransmitWrites(d, req)
<1>a. req.rate \in Nat
  BY ConfigAssumption DEF Request
<1>1. \A t \in T : t[1] = "spanfreq" => t[2] \in Nat
  BY <1>a
<1>b. <<"centerfreq", req.center>> \in T /\ <<"spanfreq", req.rate>> \in T
  OBVIOUS
<1> HIDE DEF T
<1>2. a \in Seq(T) /\ b \in Seq(T)
  BY <1>b, WriteIs, Zenon
<1>3. w = a \o b
  BY DEF TransmitWrites
<1> HIDE DEF a, b, w
<1>4. w \in Seq(T)
  BY <1>2, <1>3, ConcatProperties
<1>5. \A k \in 1..n : w[k] \in T
  BY <1>4 DEF Accepted, w
<1> QED
  BY <1>1, <1>5 DEF w

ItemsAre(its) == DOMAIN its = Items /\ its["spanfreq"] \in Nat

LEMMA ReceiverKeepsItems ==
  ASSUME NEW m, NEW d, NEW its, ItemsAre(its), NEW req \in Request,
         NEW n \in Accepted(Writes(m, d, its, req))
  PROVE  ItemsAre(configure_iq_receiver(m, d, its, req, n).items)
<1> DEFINE after == After(d, its, Writes(m, d, its, req), n)
<1>1. ItemsAre(after)
  BY WritesSpans, AfterKeepsItems DEF ItemsAre
<1>2. configure_iq_receiver(m, d, its, req, n).items \in {its, after}
  BY DEF configure_iq_receiver
<1> QED
  BY <1>1, <1>2

LEMMA TransmitterKeepsItems ==
  ASSUME NEW d, NEW its, ItemsAre(its), NEW req \in Request,
         NEW n \in Accepted(TransmitWrites(d, req))
  PROVE  ItemsAre(configure_iq_transmitter(d, its, req, n).items)
<1> DEFINE after == After(d, its, TransmitWrites(d, req), n)
<1>1. ItemsAre(after)
  BY TransmitWritesSpans, AfterKeepsItems DEF ItemsAre
<1>2. configure_iq_transmitter(d, its, req, n).items = after
  BY DEF configure_iq_transmitter
<1> QED
  BY <1>1, <1>2

LEMMA SpanKeepsItems ==
  ASSUME NEW m, NEW d, NEW its, ItemsAre(its), NEW hz \in SpanBounds, NEW n \in 0..1
  PROVE  ItemsAre(set_rf_span(m, d, its, hz, n).items)
<1> DEFINE w == <<<<"spanfreq", hz>>>>
           after == After(d, its, w, n)
<1>1. hz \in Nat
  BY ConfigAssumption
<1>2. \A k \in 1..n : w[k][2] \in Nat
  BY <1>1
<1> HIDE DEF w
<1>3. ItemsAre(after)
  BY <1>2, AfterKeepsItems DEF ItemsAre
<1>4. set_rf_span(m, d, its, hz, n).items \in {its, after}
  BY DEF set_rf_span, w
<1> QED
  BY <1>3, <1>4
-----------------------------------------------------------------------------
(* The owners' operations *)

LEMMA SettingsStay ==
  ASSUME Inv, UNCHANGED <<dev, items, mode, config, torn>>
  PROVE  Settings'
BY DEF Inv, Typed, Settings

\* An operation gives an idle owner its calls.
LEMMA OperationStarts ==
  ASSUME Inv, NEW o \in Owners, Idle(o), NEW s \in Seq(Call), Starting(s), ConnectsToStart(s),
         src[o]["kept"].made \/ \A i \in 1..Len(s) : s[i][2] = "fresh",
         script' = [script EXCEPT ![o] = s],
         UNCHANGED <<vendor, live, src, mode, config, torn>>
  PROVE  Inv'
<1>1. ScriptFits(s, src[o]["kept"], src[o]["fresh"], held = o, line, refused)
  BY OrderSays, StartingFits DEF Idle
<1>2. Settings'
  BY SettingsStay DEF vendor
<1>3. GoesOn(s, src[o]["kept"])
  BY OrderSays DEF Idle, GoesOn
<1> QED
  BY <1>1, <1>2, <1>3, ScriptStep DEF vendor

LEMMA OperationCleans ==
  ASSUME Inv, NEW o \in Owners, Idle(o), NEW s, Cleans(s, "kept", src[o]["kept"]),
         script' = [script EXCEPT ![o] = s],
         UNCHANGED <<vendor, live, src, mode, config, torn>>
  PROVE  Inv'
<1>1. s \in Seq(Call)
  BY DEF Cleans
<1>2. ScriptFits(s, src[o]["kept"], src[o]["fresh"], held = o, line, refused)
  BY OrderSays, KeptCleaningFits DEF Idle
<1>3. Settings'
  BY SettingsStay DEF vendor
<1>4. GoesOn(s, src[o]["kept"])
  BY OrderSays, CleansGoOn DEF Idle
<1> QED
  BY <1>1, <1>2, <1>3, <1>4, ScriptStep DEF vendor

LEMMA StartsKeepInv ==
  ASSUME Inv, NEW o \in Owners,
         SpectranNew(o) \/ SpectranStart(o) \/ BlockInitialize(o) \/ BlockStart(o)
  PROVE  Inv'
<1>1. CASE SpectranNew(o)
  <2> DEFINE s == BringUp \o Install
  <2>1. \A i \in 1..6 : i = 1 \/ i = 2 \/ i = 3 \/ i = 4 \/ i = 5 \/ i = 6
    OBVIOUS
  <2>2. s \in Seq(Call) /\ \A i \in 1..Len(s) : s[i][2] = "fresh"
    BY <2>1, BringingIs, SMTT(30)
  <2> QED
    BY <1>1, <2>2, BringingStarts, StartsConnect, OperationStarts DEF SpectranNew
<1>2. CASE SpectranStart(o)
  BY <1>2, RunIs, RunStarts, RestartingIs, RestartingStarts, StartsConnect, OperationStarts
     DEF SpectranStart
<1>3. CASE BlockInitialize(o)
  <2> DEFINE s == initialize \o Install
  <2>1. \A i \in 1..3 : i = 1 \/ i = 2 \/ i = 3
    OBVIOUS
  <2>2. s \in Seq(Call) /\ \A i \in 1..Len(s) : s[i][2] = "fresh"
    BY <2>1, InitializingIs
  <2> QED
    BY <1>3, <2>2, InitializingStarts, StartsConnect, OperationStarts DEF BlockInitialize
<1>4. CASE BlockStart(o)
  BY <1>4, StartBlockIs, StartBlockStarts, StartsConnect, OperationStarts DEF BlockStart
<1> QED
  BY <1>1, <1>2, <1>3, <1>4

LEMMA StopsKeepInv ==
  ASSUME Inv, NEW o \in Owners, stop_streaming(o) \/ DropOwner(o)
  PROVE  Inv'
<1> DEFINE k == src[o]["kept"]
<1>1. k \in Source /\ (k.stream_active => k.device_connected) /\ k.made
  BY OrderSays DEF SourcesAgree, stop_streaming, DropOwner
<1>2. CASE stop_streaming(o)
  BY <1>1, <1>2, StoppingCleans, OperationCleans DEF stop_streaming, Slots
<1>3. CASE DropOwner(o)
  BY <1>1, <1>3, DroppingCleans, OperationCleans DEF DropOwner, Slots
<1> QED
  BY <1>2, <1>3

\* A setting is configured, or waits; nothing else changes.
LEMMA SettingStep ==
  ASSUME Inv, NEW o \in Owners, ItemsAre(items'), config' \in [Owners -> Request],
         torn' \in BOOLEAN,
         UNCHANGED <<sdk, dev, held, line, refused, live, src, script, mode>>
  PROVE  Inv'
<1>1. script' = [script EXCEPT ![o] = script[o]]
  BY DEF Inv, Typed
<1>2. Settings'
  BY DEF Inv, Typed, Settings, ItemsAre
<1> QED
  BY <1>1, <1>2, OrderSays, ScriptStep

LEMMA RetuneKeepsInv ==
  ASSUME Inv, NEW o \in Owners, NEW req \in Request, Retune(o, req)
  PROVE  Inv'
<1>1. ItemsAre(items) /\ config \in [Owners -> Request] /\ torn \in BOOLEAN
  BY DEF Inv, Typed, ItemsAre
<1>2. config' \in [Owners -> Request]
  BY <1>1 DEF Retune
<1>3. ItemsAre(items')
  <2>1. CASE ~src[o]["kept"].device
    BY <1>1, <2>1 DEF Retune
  <2>2. CASE src[o]["kept"].device
    BY <1>1, <2>2, ReceiverKeepsItems DEF Retune
  <2> QED
    BY <2>1, <2>2
<1>4. torn' \in BOOLEAN
  <2>1. CASE ~src[o]["kept"].device
    BY <1>1, <2>1 DEF Retune
  <2>2. CASE src[o]["kept"].device
    BY <1>1, <2>2, Zenon DEF Retune
  <2> QED
    BY <2>1, <2>2
<1> QED
  BY <1>2, <1>3, <1>4, SettingStep DEF Retune

LEMMA SettingsKeepInv ==
  ASSUME Inv, NEW o \in Owners,
         \/ set_center_frequency_hz(o) \/ set_sample_rate_hz(o) \/ set_reference_level_dbm(o)
         \/ set_rf_span_hz(o)
  PROVE  Inv'
<1>1. ItemsAre(items) /\ config \in [Owners -> Request] /\ config[o] \in Request /\ torn \in BOOLEAN
  BY DEF Inv, Typed, ItemsAre
<1>2. CASE set_center_frequency_hz(o)
  <2>1. PICK hz \in Centers \cup {0} : Retune(o, [config[o] EXCEPT !.center = hz])
    BY <1>2 DEF set_center_frequency_hz
  <2>2. [config[o] EXCEPT !.center = hz] \in Request
    BY <1>1 DEF Request
  <2> QED
    BY <2>1, <2>2, RetuneKeepsInv
<1>3. CASE set_sample_rate_hz(o)
  <2>1. PICK hz \in Rates : Retune(o, [config[o] EXCEPT !.rate = hz])
    BY <1>3 DEF set_sample_rate_hz
  <2>2. [config[o] EXCEPT !.rate = hz] \in Request
    BY <1>1 DEF Request
  <2> QED
    BY <2>1, <2>2, RetuneKeepsInv
<1>4. CASE set_reference_level_dbm(o)
  BY <1>1, <1>4, RetuneKeepsInv DEF set_reference_level_dbm
<1>5. CASE set_rf_span_hz(o)
  <2>1. PICK hz \in SpanBounds :
          LET wanted == [config EXCEPT ![o].span = hz] IN
          IF ~src[o]["kept"].device
          THEN config' = (IF mode[o] = "iqreceiver" THEN wanted ELSE config)
                 /\ UNCHANGED <<items, torn>>
          ELSE \E n \in 0..1 :
                 LET done == set_rf_span(mode[o], dev, items, hz, n)
                 IN  /\ items' = done.items
                     /\ torn' = torn
                     /\ config' = IF done.result = "ok"
                                  THEN [config EXCEPT ![o].span = done.items["spanfreq"]]
                                  ELSE config
    BY <1>5 DEF set_rf_span_hz
  <2>2. torn' \in BOOLEAN
    BY <1>1, <2>1
  <2>3. ItemsAre(items')
    BY <1>1, <2>1, SpanKeepsItems
  <2>4. \A v \in Nat : [config EXCEPT ![o].span = v] \in [Owners -> Request]
    BY <1>1 DEF Request
  <2>5. config' \in [Owners -> Request]
    <3>1. hz \in Nat
      BY ConfigAssumption
    <3>2. items'["spanfreq"] \in Nat
      BY <2>3 DEF ItemsAre
    <3> QED
      BY <1>1, <2>1, <2>4, <3>1, <3>2
  <2> QED
    BY <1>5, <2>2, <2>3, <2>5, SettingStep DEF set_rf_span_hz
<1> QED
  BY <1>2, <1>3, <1>4, <1>5
-----------------------------------------------------------------------------
(* The vendor calls *)

LEMMA CallingIs ==
  ASSUME Inv, NEW o \in Owners, NEW call, Calling(o, call)
  PROVE  LET c == script[o][1]
         IN  /\ script[o] # <<>> /\ c \in Call /\ c = <<call, Slot(o)>> /\ Slot(o) \in Slots
             /\ call \in {"init", "open_handle", "replace", "install"} => Slot(o) = "fresh"
             /\ call \in {"connect", "start"} => Slot(o) = "kept"
<1>1. script[o] # <<>> /\ script[o][1] \in Call /\ Head(script[o]) = script[o][1]
  BY OrderSays DEF Calling
<1>2. script[o][1][1] = call /\ Slot(o) = script[o][1][2]
  BY <1>1 DEF Calling, Slot
<1> QED
  BY <1>1, <1>2 DEF Call, Opening, Cleanup, Slots

\* Before a call that can give the script up nothing is in "fresh".
LEMMA RiskyIsAlone ==
  ASSUME NEW s, s # <<>>, NEW f, FreshIsSettled(s, f), s[1] \in Risky
  PROVE  f = NoSource
<1>1. s[1] \notin Settling
  BY DEF Risky, Settling
<1> SUFFICES ASSUME f # NoSource PROVE FALSE
  OBVIOUS
<1>2. PICK j \in 1..Len(s) : s[j] \in Settling /\ \A i \in 1..(j - 1) : s[i] \notin Risky
  BY DEF FreshIsSettled
<1>3. j # 1 => 1 \in 1..(j - 1)
  BY <1>2
<1> QED
  BY <1>1, <1>2, <1>3

LEMMA FailingFits ==
  ASSUME Inv, NEW o \in Owners, script[o] # <<>>, script[o][1][2] = "kept" => script[o][1] \in Risky
  PROVE  /\ OnError(o) \in Seq(Call)
         /\ ScriptFits(OnError(o), src[o]["kept"], src[o]["fresh"], held = o, line, refused)
         /\ script[o][1][1] \notin Cleanup \cup {"start"} => GoesOn(OnError(o), src[o]["kept"])
<1> DEFINE k == src[o]["kept"]
           f == src[o]["fresh"]
<1>1. /\ f \in Source /\ (f.stream_active => f.device_connected) /\ ~f.device_connected
      /\ (~f.made => f = NoSource)
  BY OrderSays DEF SourcesAgree
<1>2. /\ Runs(k, held = o, line, refused) /\ script[o][1] \in Call
      /\ Head(script[o]) = script[o][1] /\ FreshIsSettled(script[o], f) /\ script[o] \in Seq(Call)
  BY OrderSays DEF ScriptFits
<1> HIDE DEF k, f
<1>3. script[o][1][2] \in Slots
  BY <1>2 DEF Call, Slots
<1>4. <<>> \in Seq(Call) /\ (k.stream_active \/ ~k.device_connected => GoesOn(<<>>, k))
  BY DEF GoesOn, ConnectsToStart
<1>a. script[o][1][1] \notin Cleanup \cup {"start"} => k.stream_active \/ ~k.device_connected
  BY OrderSays, OpeningRuns DEF ScriptFits, k
<1>5. CASE script[o][1][2] = "fresh"
  <2>1. OnError(o) = Dropping(f, "fresh")
    BY <1>2, <1>5 DEF OnError, f
  <2>2. CASE f.made
    <3>1. /\ Cleans(Dropping(f, "fresh"), "fresh", f)
          /\ Len(Dropping(f, "fresh")) >= 1
          /\ Dropping(f, "fresh")[Len(Dropping(f, "fresh"))] = <<"shutdown", "fresh">>
      BY <1>1, <2>2, DroppingCleans DEF Slots
    <3>2. ScriptFits(Dropping(f, "fresh"), k, f, held = o, line, refused)
      BY <1>1, <1>2, <3>1, FreshCleaningFits
    <3>3. k.stream_active \/ ~k.device_connected => GoesOn(Dropping(f, "fresh"), k)
      BY <3>1, CleansGoOn
    <3> QED
      BY <1>a, <2>1, <3>1, <3>2, <3>3 DEF Cleans, k, f
  <2>3. CASE ~f.made
    <3>1. Dropping(f, "fresh") = <<>> /\ f = NoSource
      BY <1>1, <2>3 DEF Dropping
    <3> QED
      BY <1>2, <1>4, <1>a, <2>1, <3>1, NothingFits DEF k, f
  <2> QED
    BY <2>2, <2>3
<1>6. CASE script[o][1][2] = "kept"
  <2>1. OnError(o) = <<>>
    BY <1>2, <1>6 DEF OnError
  <2>3. f = NoSource
    BY <1>2, <1>6, RiskyIsAlone
  <2> QED
    BY <1>2, <1>4, <1>a, <2>1, <2>3, NothingFits DEF k, f
<1> QED
  BY <1>3, <1>5, <1>6 DEF Slots

\* A call that succeeded and left the sources and the device as they were.
LEMMA OpeningGoesOn ==
  ASSUME Inv, NEW o \in Owners, NEW call \in Opening, Calling(o, call)
  PROVE  /\ Tail(script[o]) \in Seq(Call)
         /\ ScriptFits(Tail(script[o]), src[o]["kept"], src[o]["fresh"], held = o, line, refused)
         /\ GoesOn(Tail(script[o]), src[o]["kept"])
<1>1. /\ script[o] # <<>> /\ script[o] \in Seq(Call) /\ script[o][1] = <<call, Slot(o)>>
      /\ ScriptFits(script[o], src[o]["kept"], src[o]["fresh"], held = o, line, refused)
      /\ Runs(src[o]["kept"], held = o, line, refused) /\ GoesOn(script[o], src[o]["kept"])
  BY CallingIs, OrderSays
<1>2. /\ script[o][1][1] \notin Cleanup /\ script[o][1][1] \notin {"init", "start"}
      /\ script[o][1] \notin Settling /\ script[o][1] # <<"connect", "kept">>
      /\ script[o][1] # <<"close", "kept">>
  BY <1>1 DEF Opening, Cleanup, Settling
<1>3. GoesOn(Tail(script[o]), src[o]["kept"])
  BY <1>1, <1>2, GoesOnPops
<1> QED
  BY <1>1, <1>2, <1>3, OpeningPops

LEMMA OpeningFails ==
  ASSUME Inv, NEW o \in Owners, NEW call \in Opening \cup {"open_handle"}, Calling(o, call)
  PROVE  /\ OnError(o) \in Seq(Call)
         /\ ScriptFits(OnError(o), src[o]["kept"], src[o]["fresh"], held = o, line, refused)
         /\ GoesOn(OnError(o), src[o]["kept"])
<1>1. script[o] # <<>> /\ script[o][1] = <<call, Slot(o)>> /\ script[o][1][2] = Slot(o)
      /\ (call = "open_handle" => Slot(o) = "fresh")
  BY CallingIs
<1>2. /\ script[o][1][2] = "kept" => script[o][1] \in Risky
      /\ script[o][1][1] \notin Cleanup \cup {"start"}
  BY <1>1 DEF Risky, Opening, Cleanup
<1> QED
  BY <1>1, <1>2, FailingFits

LEMMA FindKeepsInv ==
  ASSUME Inv, NEW o \in Owners, FindDevices(o)
  PROVE  Inv'
<1>1. Calling(o, "find") /\ "find" \in Opening
  BY DEF FindDevices, Opening
<1>2. Settings'
  BY SettingsStay DEF FindDevices, vendor
<1>3. CASE Done(o)
  BY <1>1, <1>2, <1>3, OpeningGoesOn, ScriptStep DEF FindDevices, vendor, Done
<1>4. CASE Failed(o)
  BY <1>1, <1>2, <1>4, OpeningFails, ScriptStep DEF FindDevices, vendor, Failed
<1> QED
  BY <1>3, <1>4 DEF FindDevices

LEMMA ConfigureKeepsInv ==
  ASSUME Inv, NEW o \in Owners, CallConfigure(o)
  PROVE  Inv'
<1>1. Calling(o, "configure") /\ "configure" \in Opening
  BY DEF CallConfigure, Opening
<1>2. ItemsAre(items) /\ config[o] \in Request /\ torn \in BOOLEAN
  BY DEF Inv, Typed, ItemsAre
<1>3. PICK n \in Accepted(ConfigureWrites(o)) :
        LET done == Configure(o, n)
        IN  /\ items' = done.items
            /\ torn' = (done.result = "failed" \/ (torn /\ done.result = "refused"))
            /\ IF done.result = "ok" THEN Done(o) ELSE Failed(o)
  BY DEF CallConfigure
<1>4. ItemsAre(items')
  <2>1. CASE o \in Sinks
    <3>1. n \in Accepted(TransmitWrites(dev, config[o]))
      BY <2>1 DEF ConfigureWrites
    <3>2. items' = configure_iq_transmitter(dev, items, config[o], n).items
      BY <1>3, <2>1 DEF Configure
    <3> QED
      BY <1>2, <3>1, <3>2, TransmitterKeepsItems
  <2>2. CASE o \notin Sinks
    <3>1. n \in Accepted(Writes(mode[o], dev, items, config[o]))
      BY <2>2 DEF ConfigureWrites
    <3>2. items' = configure_iq_receiver(mode[o], dev, items, config[o], n).items
      BY <1>3, <2>2 DEF Configure
    <3> QED
      BY <1>2, <3>1, <3>2, ReceiverKeepsItems
  <2> QED
    BY <2>1, <2>2
<1>5. torn' \in BOOLEAN
  BY <1>3, Zenon
<1>6. Settings'
  BY <1>4, <1>5 DEF CallConfigure, Inv, Typed, Settings, ItemsAre
<1>7. Done(o) \/ Failed(o)
  BY <1>3
<1>8. CASE Done(o)
  BY <1>1, <1>6, <1>8, OpeningGoesOn, ScriptStep DEF CallConfigure, Done
<1>9. CASE Failed(o)
  BY <1>1, <1>6, <1>9, OpeningFails, ScriptStep DEF CallConfigure, Failed
<1> QED
  BY <1>7, <1>8, <1>9

LEMMA ReplaceKeepsInv ==
  ASSUME Inv, NEW o \in Owners, ReplaceSource(o)
  PROVE  Inv'
<1> DEFINE k == src[o]["kept"]
           r == Dropping(k, "kept") \o Calls("fresh", <<"install">>) \o Tail(script[o])
<1>1. /\ script[o] # <<>> /\ script[o] \in Seq(Call) /\ script[o][1] = <<"replace", "fresh">>
      /\ Shape(script[o])
  BY CallingIs, OrderSays DEF ReplaceSource, ScriptFits
<1>2. /\ k \in Source /\ (k.stream_active => k.device_connected) /\ (~k.made => k = NoSource)
      /\ Runs(k, held = o, line, refused)
  BY OrderSays DEF SourcesAgree
<1>3. r \in Seq(Call) /\ ScriptFits(r, k, src[o]["fresh"], held = o, line, refused)
  BY <1>1, <1>2, ReplacingFits
<1>a. GoesOn(script[o], k) /\ (k.device_connected => k.stream_active)
  BY <1>1, OrderSays, OpeningRuns DEF Cleanup
<1>b. GoesOn(r, k)
  <2>1. ConnectsToStart(script[o])
    BY <1>a DEF GoesOn
  <2>2. ConnectsToStart(r)
    BY <1>1, <1>2, <2>1, ReplacingFits
  <2> QED
    BY <1>a, <2>2 DEF GoesOn
<1>4. script' = [script EXCEPT ![o] = r]
  BY DEF ReplaceSource
<1>5. Settings'
  BY SettingsStay DEF ReplaceSource, vendor
<1> HIDE DEF r
<1> QED
  BY <1>3, <1>b, <1>4, <1>5, ScriptStep DEF ReplaceSource, vendor
-----------------------------------------------------------------------------
(* The count of live initialisations *)

LEMMA ClientsAreFinite == IsFiniteSet(Clients) /\ Cardinality(Clients) \in Nat
<1>1. IsFiniteSet(Owners) /\ IsFiniteSet(Slots)
  <2>1. IsFiniteSet({}) /\ IsFiniteSet({} \cup {"kept"}) /\ IsFiniteSet(({} \cup {"kept"}) \cup {"fresh"})
    BY FS_EmptySet, FS_AddElement
  <2>2. Slots = ({} \cup {"kept"}) \cup {"fresh"}
    BY DEF Slots
  <2> QED
    BY <2>1, <2>2, OwnersAssumption
<1>2. IsFiniteSet(Owners \X Slots)
  BY <1>1, FS_Product
<1>3. Clients \in SUBSET (Owners \X Slots)
  BY DEF Clients
<1>4. IsFiniteSet(Clients)
  BY <1>2, <1>3, FS_Subset
<1> QED
  BY <1>4, FS_CardinalityType

\* One slot of one owner changes.
LEMMA ClientsChange ==
  ASSUME Inv, NEW o \in Owners, NEW x \in Slots, NEW w \in [Slots -> Source],
         src' = [src EXCEPT ![o] = w],
         \A y \in Slots : y # x => w[y].initialized = src[o][y].initialized
  PROVE  /\ w[x].initialized => Clients' = Clients \cup {<<o, x>>}
         /\ ~w[x].initialized => Clients' = Clients \ {<<o, x>>}
         /\ <<o, x>> \in Clients <=> src[o][x].initialized
<1>1. src \in [Owners -> [Slots -> Source]]
  BY DEF Inv, Typed
<1>2. /\ \A p \in Owners, y \in Slots : p # o \/ y # x => src'[p][y].initialized = src[p][y].initialized
      /\ src'[o][x].initialized = w[x].initialized
  BY <1>1
<1>3. \A i \in Owners \X Slots :
        IF i = <<o, x>> THEN src'[i[1]][i[2]].initialized = w[x].initialized
        ELSE src'[i[1]][i[2]].initialized = src[i[1]][i[2]].initialized
  <2> TAKE i \in Owners \X Slots
  <2>1. i = <<i[1], i[2]>> /\ i[1] \in Owners /\ i[2] \in Slots
    OBVIOUS
  <2>2. CASE i = <<o, x>>
    BY <1>2, <2>2
  <2>3. CASE i # <<o, x>>
    BY <1>2, <2>1, <2>3
  <2> QED
    BY <2>2, <2>3
<1>4. <<o, x>> \in Owners \X Slots
  OBVIOUS
<1>5. <<o, x>> \in Clients <=> src[o][x].initialized
  BY <1>4 DEF Clients
<1>6. w[x].initialized => Clients' = Clients \cup {<<o, x>>}
  BY <1>3, <1>4, ZenonT(30) DEF Clients
<1>7. ~w[x].initialized => Clients' = Clients \ {<<o, x>>}
  BY <1>3, <1>4 DEF Clients
<1> QED
  BY <1>5, <1>6, <1>7

\* The replaced source's place is taken: its client is counted under another name.
LEMMA ClientsMove ==
  ASSUME Inv, NEW o \in Owners, src[o]["kept"] = NoSource, NEW w \in [Slots -> Source],
         src' = [src EXCEPT ![o] = w], w["kept"] = src[o]["fresh"], w["fresh"] = NoSource
  PROVE  Cardinality(Clients') = Cardinality(Clients)
<1> DEFINE f == <<o, "fresh">>  k == <<o, "kept">>  R == Clients \ {f}
<1>1. src \in [Owners -> [Slots -> Source]] /\ "kept" \in Slots /\ "fresh" \in Slots
  BY DEF Inv, Typed, Slots
<1>2. /\ \A p \in Owners, y \in Slots : p # o => src'[p][y] = src[p][y]
      /\ src'[o] = w
  BY <1>1
<1>3. k \notin Clients /\ f # k /\ k \notin R
  BY <1>1, NoSourceIs DEF Clients
<1>4. f \in Clients <=> src[o]["fresh"].initialized
  BY <1>1 DEF Clients
<1>5. f \notin Clients'
  BY <1>2, NoSourceIs DEF Clients
<1>6. k \in Clients' <=> src[o]["fresh"].initialized
  BY <1>1, <1>2 DEF Clients
<1>7. \A i \in Owners \X Slots : i # f /\ i # k => (i \in Clients' <=> i \in Clients)
  <2> TAKE i \in Owners \X Slots
  <2>1. i = <<i[1], i[2]>> /\ i[1] \in Owners /\ i[2] \in Slots
    OBVIOUS
  <2>2. i # f /\ i # k => i[1] # o
    BY <2>1 DEF Slots
  <2> QED
    BY <1>2, <2>1, <2>2 DEF Clients
<1>8. Clients \subseteq Owners \X Slots /\ Clients' \subseteq Owners \X Slots
  BY DEF Clients
<1>9. IsFiniteSet(Clients) /\ Cardinality(Clients) \in Nat
  BY ClientsAreFinite
<1> HIDE DEF f, k
<1>10. CASE src[o]["fresh"].initialized
  <2>1. Clients' = R \cup {k}
    BY <1>3, <1>5, <1>6, <1>7, <1>8, <1>10
  <2>2. f \in Clients
    BY <1>4, <1>10
  <2>3. IsFiniteSet(R) /\ Cardinality(R) = Cardinality(Clients) - 1
    BY <1>9, <2>2, FS_RemoveElement
  <2>4. Cardinality(R \cup {k}) = Cardinality(R) + 1
    BY <1>3, <2>3, FS_AddElement
  <2> QED
    BY <1>9, <2>1, <2>3, <2>4
<1>11. CASE ~src[o]["fresh"].initialized
  <2>1. Clients' = Clients
    BY <1>3, <1>4, <1>5, <1>6, <1>7, <1>8, <1>11
  <2> QED
    BY <2>1
<1> QED
  BY <1>10, <1>11

\* An initialisation is counted once and released once.
LEMMA CountGrows ==
  ASSUME Inv, NEW o \in Owners, NEW x \in Slots, NEW w \in [Slots -> Source],
         src' = [src EXCEPT ![o] = w],
         \A y \in Slots : y # x => w[y].initialized = src[o][y].initialized,
         ~src[o][x].initialized, w[x].initialized
  PROVE  Cardinality(Clients') = Cardinality(Clients) + 1
<1>1. /\ w[x].initialized => Clients' = Clients \cup {<<o, x>>}
      /\ <<o, x>> \in Clients <=> src[o][x].initialized
  BY ClientsChange, Zenon
<1> QED
  BY <1>1, ClientsAreFinite, FS_AddElement

LEMMA CountIsPositive ==
  ASSUME NEW o \in Owners, NEW x \in Slots, src[o][x].initialized
  PROVE  Cardinality(Clients) > 0
<1>1. <<o, x>> \in Clients
  BY DEF Clients
<1>2. Cardinality(Clients) # 0
  BY <1>1, ClientsAreFinite, FS_EmptySet
<1> QED
  BY <1>2, ClientsAreFinite

LEMMA CountFalls ==
  ASSUME Inv, NEW o \in Owners, NEW x \in Slots, NEW w \in [Slots -> Source],
         src' = [src EXCEPT ![o] = w],
         \A y \in Slots : y # x => w[y].initialized = src[o][y].initialized,
         src[o][x].initialized, w[x].initialized = FALSE
  PROVE  Cardinality(Clients') = Cardinality(Clients) - 1
<1> DEFINE c == <<o, x>>
<1>1. Clients' = Clients \ {c}
  BY ClientsChange, Zenon
<1>2. c \in Clients
  BY DEF Clients
<1> HIDE DEF c
<1> QED
  BY <1>1, <1>2, ClientsAreFinite, FS_RemoveElement
-----------------------------------------------------------------------------
(* The calls that change a source *)

LEMMA SetIs ==
  ASSUME Inv, NEW o \in Owners, Slot(o) \in Slots, NEW i \in Source, Set(o, i)
  PROVE  LET w == [src[o] EXCEPT ![Slot(o)] = i]
         IN  /\ w \in [Slots -> Source] /\ src' = [src EXCEPT ![o] = w]
             /\ w[Slot(o)] = i /\ \A x \in Slots : x # Slot(o) => w[x] = src[o][x]
<1>1. src \in [Owners -> [Slots -> Source]] /\ src[o] \in [Slots -> Source]
  BY DEF Inv, Typed
<1> QED
  BY <1>1 DEF Set

\* What a call leaves that makes, opens or starts: the rest of the script, and the order
\* of what it was called for.
LEMMA OpeningGoes ==
  ASSUME Inv, NEW o \in Owners, script[o] # <<>>, script[o][1][1] \notin Cleanup,
         NEW l, NEW g, NEW mine, NEW at, NEW refs,
         script[o][1][1] = "init" => g.initialized,
         g # NoSource =>
           script[o][1] \notin Settling /\ (src[o]["fresh"] # NoSource \/ script[o][1][1] = "init"),
         script[o][1] = <<"connect", "kept">> => l.device_connected,
         script[o][1][1] # "install" /\ src[o]["kept"].made => l.made,
         script[o][1][1] # "install" /\ (src[o]["fresh"].made \/ script[o][1][1] = "init") => g.made,
         Runs(l, mine, at, refs),
         l.device_connected =>
           \/ script[o][1][1] = "connect"
           \/ /\ src[o]["kept"].device_connected
              /\ src[o]["kept"].stream_active \/ script[o][1][1] = "start" => l.stream_active,
         SourcesAgree(l, g, mine), HeldIsAccountedFor(l, g, mine, refs)
  PROVE  /\ Tail(script[o]) \in Seq(Call)
         /\ OwnerIsInOrder(Tail(script[o]), l, g, mine, at, refs)
<1>1. /\ script[o] \in Seq(Call) /\ GoesOn(script[o], src[o]["kept"])
      /\ ScriptFits(script[o], src[o]["kept"], src[o]["fresh"], held = o, line, refused)
  BY OrderSays
<1>2. script[o][1] # <<"close", "kept">>
  BY DEF Cleanup
<1>3. Tail(script[o]) \in Seq(Call) /\ ScriptFits(Tail(script[o]), l, g, mine, at, refs)
  BY <1>1, OpeningPops
<1>4. GoesOn(Tail(script[o]), l)
  BY <1>1, <1>2, GoesOnPops
<1> QED
  BY <1>3, <1>4 DEF OwnerIsInOrder

LEMMA InitKeepsInv ==
  ASSUME Inv, NEW o \in Owners, init_with_path(o)
  PROVE  Inv'
<1> DEFINE k == src[o]["kept"]
           f == src[o]["fresh"]
<1>1. script[o] # <<>> /\ script[o][1] = <<"init", "fresh">> /\ Slot(o) = "fresh" /\ Slot(o) \in Slots
  BY CallingIs DEF init_with_path
<1>2. /\ k \in Source /\ script[o] \in Seq(Call) /\ FreshIsSettled(script[o], f)
      /\ SourcesAgree(k, f, held = o) /\ HeldIsAccountedFor(k, f, held = o, refused)
      /\ Runs(k, held = o, line, refused)
      /\ Shape(script[o]) /\ GoesOn(script[o], k)
  BY OrderSays DEF ScriptFits
<1>3. f = NoSource
  BY <1>1, <1>2 DEF FreshIsSettled
<1>4. k.device_connected => k.stream_active
  BY <1>1, <1>2, OpeningRuns DEF Cleanup
<1>5. Settings' /\ UNCHANGED <<held, line, refused>>
  BY SettingsStay DEF init_with_path
<1>6. \A i \in {NewSource, [NewSource EXCEPT !.initialized = TRUE]} :
        /\ i \in Source /\ i.made /\ ~i.device /\ ~i.device_connected /\ ~i.stream_active /\ ~i.handle
        /\ SourcesAgree(k, i, held = o) /\ HeldIsAccountedFor(k, i, held = o, refused)
  BY <1>2, <1>3 DEF NewSource, NoSource, Source, SourcesAgree, HeldIsAccountedFor
<1>a. /\ sdk \in {"up", "down"} /\ held \in Owners \cup {Nobody}
      /\ line \in {"off", "connected", "started"} /\ refused \subseteq Refusals
      /\ live \in Nat /\ live = Cardinality(Clients) /\ (held = Nobody => line = "off")
      /\ (live > 0 => sdk = "up")
  BY DEF Inv, Typed
<1>7. CASE /\ live' = live + 1 /\ sdk' = "up"
           /\ Done(o) /\ Set(o, [NewSource EXCEPT !.initialized = TRUE])
  <2> DEFINE g == [NewSource EXCEPT !.initialized = TRUE]
             w == [src[o] EXCEPT !["fresh"] = g]
  <2>1. g \in Source /\ g.made /\ g.initialized
    BY <1>6 DEF NewSource, NoSource
  <2>2. /\ w \in [Slots -> Source] /\ src' = [src EXCEPT ![o] = w]
        /\ w["fresh"] = g /\ w["kept"] = k
    BY <1>1, <1>7, <2>1, SetIs DEF Slots
  <2>3. SourcesAgree(k, g, held = o) /\ HeldIsAccountedFor(k, g, held = o, refused)
    BY <1>6
  <2> HIDE DEF w, g
  <2>4. /\ script[o][1][1] = "init" /\ script[o][1][1] \notin Cleanup
        /\ script[o][1] \notin Settling /\ script[o][1] # <<"connect", "kept">>
    BY <1>1 DEF Cleanup, Settling
  <2>5. /\ Tail(script[o]) \in Seq(Call)
        /\ OwnerIsInOrder(Tail(script[o]), k, g, held = o, line, refused)
    BY <1>1, <1>2, <2>1, <2>3, <2>4, OpeningGoes
  <2>6. /\ \A y \in Slots : y # "fresh" => w[y].initialized = src[o][y].initialized
        /\ ~src[o]["fresh"].initialized /\ w["fresh"].initialized /\ "fresh" \in Slots
    BY <1>3, <2>1, <2>2, NoSourceIs DEF Slots
  <2>7. Cardinality(Clients') = Cardinality(Clients) + 1
    BY <2>2, <2>6, CountGrows
  <2>8. live' = Cardinality(Clients') /\ live' \in Nat
    BY <1>7, <1>a, <2>7
  <2> QED
    BY <1>5, <1>7, <1>a, <2>2, <2>5, <2>8, StepKeepsInv DEF Done
<1>8. CASE /\ Set(o, NewSource)
           /\ script' = [script EXCEPT ![o] = Dropping(NewSource, Slot(o))]
           /\ UNCHANGED <<sdk, live>>
  <2> DEFINE g == NewSource
             d == Dropping(g, "fresh")
             w == [src[o] EXCEPT !["fresh"] = g]
  <2>1. g \in Source /\ ~g.initialized
    BY <1>6 DEF NewSource, NoSource
  <2>2. /\ w \in [Slots -> Source] /\ src' = [src EXCEPT ![o] = w]
        /\ w["fresh"] = g /\ w["kept"] = k
    BY <1>1, <1>8, <2>1, SetIs DEF Slots
  <2>3. /\ Cleans(d, "fresh", g) /\ Len(d) >= 1 /\ d[Len(d)] = <<"shutdown", "fresh">>
    BY <1>6, DroppingCleans DEF Slots
  <2>4. /\ SourcesAgree(k, g, held = o) /\ HeldIsAccountedFor(k, g, held = o, refused)
        /\ ~g.device_connected
    BY <1>6
  <2>5. script' = [script EXCEPT ![o] = d]
    BY <1>1, <1>8
  <2> HIDE DEF w, d, g
  <2>6. ScriptFits(d, k, g, held = o, line, refused)
    BY <1>2, <2>3, <2>4, FreshCleaningFits
  <2>7. GoesOn(d, k) /\ d \in Seq(Call)
    BY <1>4, <2>3, CleansGoOn DEF Cleans
  <2>8. OwnerIsInOrder(d, k, g, held = o, line, refused)
    BY <2>4, <2>6, <2>7 DEF OwnerIsInOrder
  <2>a. w["fresh"].initialized = FALSE /\ f.initialized = FALSE
    BY <1>3, <2>1, <2>2, NoSourceIs DEF Source
  <2>9. \A x \in Slots : w[x].initialized = src[o][x].initialized
    BY <2>2, <2>a DEF Slots
  <2>10. Clients' = Clients
    BY <2>2, <2>9, SameClients
  <2> QED
    BY <1>5, <1>8, <1>a, <2>2, <2>5, <2>7, <2>8, <2>10, StepKeepsInv
<1>9. CASE script' = [script EXCEPT ![o] = <<>>] /\ UNCHANGED <<sdk, live, src>>
  <2>1. <<>> \in Seq(Call) /\ GoesOn(<<>>, k)
    BY <1>4 DEF GoesOn, ConnectsToStart
  <2>2. ScriptFits(<<>>, k, f, held = o, line, refused)
    BY <1>2, <1>3, NothingFits
  <2> QED
    BY <1>5, <1>9, <2>1, <2>2, ScriptStep
<1> QED
  BY <1>7, <1>8, <1>9 DEF init_with_path

\* An open of the handle that succeeded needs the SDK that its source brought up.
LEMMA HandleKeepsInv ==
  ASSUME Inv, NEW o \in Owners, open_handle(o)
  PROVE  Inv'
<1> DEFINE k == src[o]["kept"]
           f == src[o]["fresh"]
           g == [f EXCEPT !.handle = TRUE]
           w == [src[o] EXCEPT !["fresh"] = g]
<1>1. /\ script[o] # <<>> /\ script[o][1] = <<"open_handle", "fresh">> /\ Slot(o) = "fresh"
      /\ Slot(o) \in Slots /\ Calling(o, "open_handle")
  BY CallingIs DEF open_handle
<1>2. /\ k \in Source /\ f \in Source /\ script[o] \in Seq(Call) /\ FreshIsSettled(script[o], f)
      /\ SourcesAgree(k, f, held = o) /\ HeldIsAccountedFor(k, f, held = o, refused)
      /\ Runs(k, held = o, line, refused)
      /\ Shape(script[o]) /\ GoesOn(script[o], k)
  BY OrderSays DEF ScriptFits
<1>3. f.initialized /\ f # NoSource /\ f.made
  BY <1>1, <1>2, NoSourceIs DEF FreshIsSettled, SourcesAgree
<1>4. k.device_connected => k.stream_active
  BY <1>1, <1>2, OpeningRuns DEF Cleanup
<1>5. Settings' /\ UNCHANGED <<sdk, held, line, refused, live>>
  BY SettingsStay DEF open_handle, vendor
<1>6. CASE Done(o) /\ Set(o, [Me(o) EXCEPT !.handle = TRUE])
  <2>1. /\ g \in Source /\ g.made /\ g.initialized = f.initialized /\ g.device = f.device
        /\ SourcesAgree(k, g, held = o) /\ HeldIsAccountedFor(k, g, held = o, refused)
    BY <1>2, <1>3 DEF Source, SourcesAgree, HeldIsAccountedFor
  <2>2. /\ w \in [Slots -> Source] /\ src' = [src EXCEPT ![o] = w]
        /\ w["fresh"] = g /\ w["kept"] = k
    BY <1>1, <1>6, <2>1, SetIs DEF Slots, Me
  <2> HIDE DEF w, g
  <2>3. /\ script[o][1][1] = "open_handle" /\ script[o][1][1] \notin Cleanup
        /\ script[o][1] \notin Settling /\ script[o][1] # <<"connect", "kept">>
    BY <1>1 DEF Cleanup, Settling
  <2>4. /\ Tail(script[o]) \in Seq(Call)
        /\ OwnerIsInOrder(Tail(script[o]), k, g, held = o, line, refused)
    BY <1>1, <1>2, <1>3, <2>1, <2>3, OpeningGoes
  <2>5. \A x \in Slots : w[x].initialized = src[o][x].initialized
    BY <2>1, <2>2 DEF Slots
  <2>6. Clients' = Clients
    BY <2>2, <2>5, SameClients
  <2> QED
    BY <1>5, <1>6, <2>2, <2>4, <2>6, StepKeepsInv DEF Done, Inv, Typed
<1>7. CASE Failed(o) /\ UNCHANGED src
  BY <1>1, <1>5, <1>7, OpeningFails, ScriptStep DEF Failed
<1> QED
  BY <1>6, <1>7 DEF open_handle

LEMMA InstallKeepsInv ==
  ASSUME Inv, NEW o \in Owners, InstallSource(o)
  PROVE  Inv'
<1> DEFINE k == src[o]["kept"]
           f == src[o]["fresh"]
           w == [kept |-> f, fresh |-> NoSource]
<1>1. script[o] # <<>> /\ script[o][1] = <<"install", "fresh">>
  BY CallingIs DEF InstallSource
<1>2. /\ k \in Source /\ f \in Source /\ script[o] \in Seq(Call)
      /\ SourcesAgree(k, f, held = o) /\ HeldIsAccountedFor(k, f, held = o, refused)
      /\ Runs(k, held = o, line, refused) /\ KeptIsSettled(script[o], k)
  BY OrderSays DEF ScriptFits
<1>3. k = NoSource
  <2>1. 1 \in 1..Len(script[o])
    BY <1>1, <1>2, TailAt
  <2>2. ~Earlier(script[o], 1, <<"shutdown", "kept">>)
    BY DEF Earlier
  <2> QED
    BY <1>1, <1>2, <2>1, <2>2 DEF KeptIsSettled
<1>4. Settings' /\ UNCHANGED <<sdk, held, line, refused, live>>
  BY SettingsStay DEF InstallSource, vendor
<1>5. /\ w \in [Slots -> Source] /\ w["kept"] = f /\ w["fresh"] = NoSource
  BY <1>2, NoSourceIs DEF Slots
<1>6. src' = [src EXCEPT ![o] = w]
  BY DEF InstallSource
<1>7. /\ SourcesAgree(f, NoSource, held = o) /\ ~f.device_connected
      /\ HeldIsAccountedFor(f, NoSource, held = o, refused)
  BY <1>2, <1>3, NoSourceIs DEF SourcesAgree, HeldIsAccountedFor
<1>8. Runs(f, held = o, line, refused)
  BY <1>2, <1>3, NoSourceIs DEF Runs
<1> HIDE DEF w
<1>9. /\ script[o][1][1] = "install" /\ script[o][1][1] \notin Cleanup
      /\ script[o][1] # <<"connect", "kept">>
  BY <1>1 DEF Cleanup
<1>10. /\ Tail(script[o]) \in Seq(Call)
       /\ OwnerIsInOrder(Tail(script[o]), f, NoSource, held = o, line, refused)
  BY <1>1, <1>7, <1>8, <1>9, OpeningGoes
<1>11. Cardinality(Clients') = Cardinality(Clients)
  BY <1>3, <1>5, <1>6, ClientsMove
<1>12. /\ sdk' \in {"up", "down"} /\ held' \in Owners \cup {Nobody}
       /\ line' \in {"off", "connected", "started"} /\ refused' \subseteq Refusals
       /\ live' \in Nat /\ live' = Cardinality(Clients') /\ (live' > 0 => sdk' = "up")
       /\ (held' = Nobody => line' = "off")
  BY <1>4, <1>11 DEF Inv, Typed
<1>13. OwnerIsInOrder(Tail(script[o]), w["kept"], w["fresh"], held' = o, line', refused')
  BY <1>4, <1>5, <1>10
<1>14. script' = [script EXCEPT ![o] = Tail(script[o])]
  BY DEF InstallSource, Done
<1> QED
  BY <1>4, <1>5, <1>6, <1>10, <1>12, <1>13, <1>14, StepKeepsInv

\* A step that changes the device or a source, and no client.
LEMMA SourceStep ==
  ASSUME Inv, NEW o \in Owners, NEW s \in Seq(Call), NEW w \in [Slots -> Source],
         script' = [script EXCEPT ![o] = s], src' = [src EXCEPT ![o] = w],
         \A x \in Slots : w[x].initialized = src[o][x].initialized,
         UNCHANGED <<sdk, dev, items, live, mode, config, torn>>,
         held' \in Owners \cup {Nobody}, line' \in {"off", "connected", "started"},
         refused' \subseteq Refusals, held' = Nobody => line' = "off",
         \/ held' = held /\ line' = line /\ refused' = refused
         \/ held \in {o, Nobody} /\ held' \in {o, Nobody},
         OwnerIsInOrder(s, w["kept"], w["fresh"], held' = o, line', refused')
  PROVE  Inv'
<1>1. Clients' = Clients
  BY SameClients
<1>2. Settings'
  BY SettingsStay
<1>3. /\ sdk' \in {"up", "down"} /\ live' \in Nat /\ live' = Cardinality(Clients')
      /\ (live' > 0 => sdk' = "up")
  BY <1>1 DEF Inv, Typed
<1> QED
  BY <1>2, <1>3, StepKeepsInv

LEMMA OpenKeepsInv ==
  ASSUME Inv, NEW o \in Owners, open_device(o)
  PROVE  Inv'
<1> DEFINE k == src[o]["kept"]
           f == src[o]["fresh"]
<1>1. /\ script[o] # <<>> /\ script[o][1] = <<"open", Slot(o)>> /\ Slot(o) \in Slots
      /\ Calling(o, "open") /\ "open" \in Opening
  BY CallingIs DEF open_device, Opening
<1>2. /\ k \in Source /\ f \in Source /\ script[o] \in Seq(Call)
      /\ SourcesAgree(k, f, held = o) /\ OpensWhatIsMade(script[o], k, f)
  BY OrderSays DEF ScriptFits
<1>3. UNCHANGED <<sdk, dev, items, line, live, mode, config, torn>>
  BY DEF open_device
<1>4. CASE /\ MayOpen(Me(o)) /\ MayHold /\ held' = o /\ refused' = {}
           /\ Done(o) /\ Set(o, [Me(o) EXCEPT !.device = TRUE])
  <2> DEFINE i == [Me(o) EXCEPT !.device = TRUE]
             w == [src[o] EXCEPT ![Slot(o)] = i]
  <2>1. i \in Source /\ i.initialized = Me(o).initialized
    BY <1>1, <1>2 DEF Me, Source, Slots
  <2>2. /\ w \in [Slots -> Source] /\ src' = [src EXCEPT ![o] = w]
        /\ w[Slot(o)] = i /\ \A x \in Slots : x # Slot(o) => w[x] = src[o][x]
    BY <1>1, <1>4, <2>1, SetIs
  <2>3. /\ script[o][1][1] \notin Cleanup /\ script[o][1][1] \notin {"init", "install"}
        /\ script[o][1] \notin Settling /\ script[o][1] # <<"connect", "kept">>
    BY <1>1 DEF Cleanup, Settling
  <2>4. held = Nobody /\ line' = "off" /\ held # o /\ o # Nobody
    BY <1>3, <1>4, OwnersAssumption DEF MayHold, Inv
  <2>5. /\ ~k.device /\ ~f.device /\ ~k.device_connected /\ ~f.device_connected
        /\ ~k.stream_active /\ ~f.stream_active
    BY <1>2, <2>4 DEF SourcesAgree
  <2>6. 1 \in 1..Len(script[o])
    BY <1>1, <1>2, TailAt
  <2>7. (Slot(o) = "kept" => k.made) /\ (Slot(o) = "fresh" => f.made)
    <3>1. script[o][1][1] = "open" /\ script[o][1][2] = Slot(o) /\ "open" \in Opening
      BY <1>1
    <3> HIDE DEF k, f
    <3>2. /\ Slot(o) = "kept" => k.made
          /\ Slot(o) = "fresh" => f.made \/ script[o][1][1] = "init"
      BY <1>2, <2>6, <3>1 DEF OpensWhatIsMade
    <3> QED
      BY <3>1, <3>2
  <2>8. /\ Tail(script[o]) \in Seq(Call)
        /\ OwnerIsInOrder(Tail(script[o]), w["kept"], w["fresh"], TRUE, "off", {})
    <3> DEFINE l == w["kept"]  g == w["fresh"]
    <3>1. CASE Slot(o) = "kept"
      <4>1. l = [k EXCEPT !.device = TRUE] /\ g = f
        BY <2>2, <3>1 DEF Slots, Me
      <4>2. /\ l.made = k.made /\ l.device_connected = k.device_connected /\ l.device
            /\ SourcesAgree(l, g, TRUE) /\ HeldIsAccountedFor(l, g, TRUE, {})
            /\ Runs(l, TRUE, "off", {})
        BY <1>2, <2>4, <2>5, <2>7, <3>1, <4>1
           DEF Source, SourcesAgree, HeldIsAccountedFor, Runs
      <4> HIDE DEF l, g
      <4> QED
        BY <1>1, <2>3, <2>5, <4>1, <4>2, OpeningGoes DEF l, g
    <3>2. CASE Slot(o) = "fresh"
      <4>1. g = [f EXCEPT !.device = TRUE] /\ l = k
        BY <2>2, <3>2 DEF Slots, Me
      <4>2. /\ g.made /\ f # NoSource
            /\ SourcesAgree(l, g, TRUE) /\ HeldIsAccountedFor(l, g, TRUE, {})
            /\ Runs(l, TRUE, "off", {})
        BY <1>2, <2>4, <2>5, <2>7, <3>2, <4>1, NoSourceIs
           DEF Source, SourcesAgree, HeldIsAccountedFor, Runs
      <4> HIDE DEF l, g
      <4> QED
        BY <1>1, <2>3, <2>5, <4>1, <4>2, OpeningGoes DEF l, g
    <3> QED
      BY <1>1, <3>1, <3>2 DEF Slots
  <2>9. \A x \in Slots : w[x].initialized = src[o][x].initialized
    BY <2>1, <2>2 DEF Me
  <2>10. OwnerIsInOrder(Tail(script[o]), w["kept"], w["fresh"], held' = o, line', refused')
    BY <1>4, <2>4, <2>8
  <2>11. /\ script' = [script EXCEPT ![o] = Tail(script[o])] /\ held' = o /\ refused' = {}
         /\ held \in {o, Nobody}
    BY <1>4, <2>4 DEF Done
  <2> HIDE DEF w
  <2> QED
    BY <1>3, <2>2, <2>4, <2>8, <2>9, <2>10, <2>11, SourceStep
<1>5. CASE Failed(o) /\ UNCHANGED <<held, refused, src>>
  <2>1. Settings'
    BY <1>3, SettingsStay
  <2> QED
    BY <1>1, <1>3, <1>5, <2>1, OpeningFails, ScriptStep DEF Failed
<1> QED
  BY <1>4, <1>5 DEF open_device

\* What is left of a start that failed: what was attempted is stopped.
LEMMA AttemptFails ==
  ASSUME Inv, NEW o \in Owners, script[o] # <<>>, script[o][1] \in Risky, Slot(o) = "kept",
         NEW l \in Source, Set(o, l), script' = [script EXCEPT ![o] = Stopping(l, "kept")],
         l.initialized = src[o]["kept"].initialized, l.device_connected,
         SourcesAgree(l, NoSource, held = o), Runs(l, held = o, line', refused),
         HeldIsAccountedFor(l, NoSource, held = o, refused), held = o,
         line' \in {"off", "connected", "started"},
         UNCHANGED <<sdk, dev, items, held, refused, live, mode, config, torn>>
  PROVE  Inv'
<1> DEFINE f == src[o]["fresh"]
           w == [src[o] EXCEPT !["kept"] = l]
           s == Stopping(l, "kept")
<1>1. /\ w \in [Slots -> Source] /\ src' = [src EXCEPT ![o] = w]
      /\ w["kept"] = l /\ w["fresh"] = f
  BY SetIs DEF Slots
<1>2. f = NoSource
  BY OrderSays, RiskyIsAlone DEF ScriptFits
<1>3. l.stream_active => l.device_connected
  BY DEF SourcesAgree
<1>4. Cleans(s, "kept", l)
  BY <1>3, StoppingCleans DEF Slots
<1>5. \E j \in 1..Len(s) : s[j] = <<"close", "kept">>
  <2>1. \/ s[3] = <<"close", "kept">> /\ Len(s) = 3
        \/ s[2] = <<"close", "kept">> /\ Len(s) = 2
    BY <1>3, StoppingIs DEF Slots
  <2> QED
    BY <2>1
<1> HIDE DEF w, s
<1>6. s \in Seq(Call) /\ GoesOn(s, l)
  BY <1>4, <1>5, CleansGoOn DEF Cleans
<1>7. ScriptFits(s, l, NoSource, held = o, line', refused)
  BY <1>4, KeptCleaningFits
<1>8. OwnerIsInOrder(s, w["kept"], w["fresh"], held' = o, line', refused')
  BY <1>1, <1>2, <1>6, <1>7 DEF OwnerIsInOrder
<1>9. \A x \in Slots : w[x].initialized = src[o][x].initialized
  BY <1>1 DEF Slots
<1>10. /\ held' \in Owners \cup {Nobody}
       /\ refused' \subseteq Refusals /\ (held' = Nobody => line' = "off")
       /\ held \in {o, Nobody} /\ held' \in {o, Nobody}
  BY OwnersAssumption DEF Inv, Typed
<1>12. UNCHANGED <<sdk, dev, items, live, mode, config, torn>>
  OBVIOUS
<1> QED
  BY <1>1, <1>6, <1>8, <1>9, <1>10, <1>12, SourceStep DEF s

\* A connect or a start that was accepted.
LEMMA AttemptSucceeds ==
  ASSUME Inv, NEW o \in Owners, script[o] # <<>>, script[o][1] \in Risky, Slot(o) = "kept",
         NEW l \in Source, Set(o, l), Done(o),
         l.initialized = src[o]["kept"].initialized, l.made,
         \/ script[o][1][1] = "connect" /\ l.device_connected
         \/ script[o][1][1] = "start" /\ src[o]["kept"].device_connected /\ l.stream_active,
         SourcesAgree(l, NoSource, held = o), Runs(l, held = o, line', refused),
         HeldIsAccountedFor(l, NoSource, held = o, refused), held = o,
         line' \in {"off", "connected", "started"},
         UNCHANGED <<sdk, dev, items, held, refused, live, mode, config, torn>>
  PROVE  Inv'
<1> DEFINE f == src[o]["fresh"]
           w == [src[o] EXCEPT !["kept"] = l]
           s == Tail(script[o])
<1>1. /\ w \in [Slots -> Source] /\ src' = [src EXCEPT ![o] = w]
      /\ w["kept"] = l /\ w["fresh"] = f
  BY SetIs DEF Slots
<1>2. f = NoSource /\ ~f.made
  BY OrderSays, RiskyIsAlone, NoSourceIs DEF ScriptFits
<1>3. script[o][1][1] \notin Cleanup /\ script[o][1][1] \notin {"init", "install"}
  BY DEF Risky, Cleanup, Opening
<1>4. script[o][1] = <<"connect", "kept">> => l.device_connected
  OBVIOUS
<1> HIDE DEF w
<1>5. s \in Seq(Call) /\ OwnerIsInOrder(s, l, NoSource, held = o, line', refused)
  BY <1>2, <1>3, <1>4, OpeningGoes
<1>6. OwnerIsInOrder(s, w["kept"], w["fresh"], held' = o, line', refused')
  BY <1>1, <1>2, <1>5
<1>7. \A x \in Slots : w[x].initialized = src[o][x].initialized
  BY <1>1 DEF Slots
<1>8. /\ script' = [script EXCEPT ![o] = s] /\ held' \in Owners \cup {Nobody}
      /\ refused' \subseteq Refusals /\ (held' = Nobody => line' = "off")
      /\ held \in {o, Nobody} /\ held' \in {o, Nobody}
  BY OwnersAssumption DEF Inv, Typed, Done
<1> QED
  BY <1>1, <1>5, <1>6, <1>7, <1>8, SourceStep

\* The flags of what was attempted.
LEMMA MarkedIs ==
  ASSUME NEW k \in Source, NEW call, NEW mine, k.device, mine, SourcesAgree(k, NoSource, mine)
  PROVE  LET l == Marked(k, call)
         IN  /\ l \in Source /\ l.initialized = k.initialized /\ l.made /\ l.device_connected
             /\ l.stream_active <=> (k.stream_active \/ call = "start")
             /\ SourcesAgree(l, NoSource, mine)
             /\ \A refs : HeldIsAccountedFor(l, NoSource, mine, refs)
<1> DEFINE l == Marked(k, call)
<1>a. (k.stream_active \/ call = "start") \in BOOLEAN
  BY Zenon
<1>1. l = [k EXCEPT !.device_connected = TRUE, !.stream_active = k.stream_active \/ call = "start"]
  BY DEF Marked
<1>2. /\ l \in Source /\ l.initialized = k.initialized /\ l.made = k.made /\ l.device_connected
      /\ l.device = k.device /\ l.handle = k.handle
      /\ l.stream_active <=> (k.stream_active \/ call = "start")
  BY <1>a, <1>1 DEF Source
<1> HIDE DEF l
<1>3. k.made
  BY NoSourceIs DEF SourcesAgree
<1>4. SourcesAgree(l, NoSource, mine)
  BY <1>2, <1>3, NoSourceIs DEF SourcesAgree
<1> QED
  BY <1>2, <1>3, <1>4 DEF HeldIsAccountedFor, l

LEMMA ConnectKeepsInv ==
  ASSUME Inv, NEW o \in Owners, connect_device(o)
  PROVE  Inv'
<1> DEFINE k == src[o]["kept"]
           l == Marked(k, "connect")
<1>1. /\ script[o] # <<>> /\ script[o][1] = <<"connect", "kept">> /\ Slot(o) = "kept"
  BY CallingIs DEF connect_device
<1>2. script[o][1] \in Risky /\ script[o][1][1] \notin Cleanup \cup {"start"}
  BY <1>1 DEF Risky, Cleanup
<1>3. /\ k \in Source /\ SourcesAgree(k, NoSource, held = o) /\ Runs(k, held = o, line, refused)
      /\ line \in {"off", "connected", "started"}
  <2>1. src[o]["fresh"] = NoSource
    BY <1>1, <1>2, OrderSays, RiskyIsAlone DEF ScriptFits
  <2> QED
    BY <2>1, OrderSays DEF Inv, Typed
<1>4. UNCHANGED <<sdk, dev, items, held, refused, live, mode, config, torn>>
  BY DEF connect_device
<1>5. CASE k.stream_active \/ ~k.device
  <2>1. script' = [script EXCEPT ![o] = <<>>] /\ UNCHANGED <<line, src>>
    BY <1>1, <1>5 DEF connect_device, Me
  <2>2. OnError(o) = <<>>
    BY <1>1, OrderSays DEF OnError
  <2>3. /\ <<>> \in Seq(Call) /\ GoesOn(<<>>, k)
        /\ ScriptFits(<<>>, k, src[o]["fresh"], held = o, line, refused)
    BY <1>1, <1>2, <2>2, FailingFits
  <2>4. Settings'
    BY <1>4, SettingsStay
  <2> QED
    BY <1>4, <2>1, <2>3, <2>4, ScriptStep
<1>6. CASE ~k.stream_active /\ k.device
  <2>1. held = o
    BY <1>3, <1>6 DEF SourcesAgree
  <2>2. /\ l \in Source /\ l.initialized = k.initialized /\ l.made /\ l.device_connected
        /\ SourcesAgree(l, NoSource, held = o)
        /\ HeldIsAccountedFor(l, NoSource, held = o, refused)
    <3>1. k \in Source /\ k.device /\ SourcesAgree(k, NoSource, held = o)
      BY <1>3, <1>6
    <3> HIDE DEF k
    <3> QED
      BY <2>1, <3>1, MarkedIs
  <2>3. line' \in {line, "connected"}
    BY <1>1, <1>6 DEF connect_device, Me
  <2>4. Runs(l, held = o, line', refused) /\ line' \in {"off", "connected", "started"}
    BY <1>3, <1>6, <2>2, <2>3 DEF Runs
  <2> HIDE DEF l
  <2>5. CASE Done(o) /\ Set(o, l)
    BY <1>1, <1>2, <1>4, <2>1, <2>2, <2>4, <2>5, AttemptSucceeds
  <2>6. CASE Set(o, l) /\ script' = [script EXCEPT ![o] = Stopping(src'[o][Slot(o)], Slot(o))]
    <3>1. src'[o][Slot(o)] = l
      BY <1>1, <2>2, <2>6, SetIs DEF Slots, Inv, Typed
    <3>2. script' = [script EXCEPT ![o] = Stopping(l, "kept")]
      BY <1>1, <2>6, <3>1
    <3> QED
      BY <1>1, <1>2, <1>4, <2>1, <2>2, <2>4, <2>6, <3>2, AttemptFails
  <2> QED
    BY <1>1, <1>6, <2>5, <2>6 DEF connect_device, Me, l, Attempted
<1> QED
  BY <1>3, <1>5, <1>6 DEF Source

LEMMA StartKeepsInv ==
  ASSUME Inv, NEW o \in Owners, start_device(o)
  PROVE  Inv'
<1> DEFINE k == src[o]["kept"]
           l == Marked(k, "start")
<1>1. /\ script[o] # <<>> /\ script[o][1] = <<"start", "kept">> /\ Slot(o) = "kept"
  BY CallingIs DEF start_device
<1>2. script[o][1] \in Risky
  BY <1>1 DEF Risky
<1>3. /\ k \in Source /\ SourcesAgree(k, NoSource, held = o) /\ Runs(k, held = o, line, refused)
      /\ line \in {"off", "connected", "started"}
  <2>1. src[o]["fresh"] = NoSource
    BY <1>1, <1>2, OrderSays, RiskyIsAlone DEF ScriptFits
  <2> QED
    BY <2>1, OrderSays DEF Inv, Typed
<1>4. k.device_connected
  BY <1>1, OrderSays DEF ScriptFits, StopsWhatRuns
<1>5. k.device /\ held = o
  BY <1>3, <1>4 DEF SourcesAgree
<1>6. UNCHANGED <<sdk, dev, items, held, refused, live, mode, config, torn>>
  BY DEF start_device
<1>7. /\ l \in Source /\ l.initialized = k.initialized /\ l.made /\ l.device_connected
      /\ l.stream_active /\ SourcesAgree(l, NoSource, held = o)
      /\ HeldIsAccountedFor(l, NoSource, held = o, refused)
  BY <1>3, <1>5, MarkedIs
<1>8. line' \in {line, "started"}
  BY DEF start_device
<1>9. Runs(l, held = o, line', refused) /\ line' \in {"off", "connected", "started"}
  BY <1>3, <1>7, <1>8 DEF Runs
<1> HIDE DEF l
<1>10. CASE Done(o) /\ Set(o, l)
  BY <1>1, <1>2, <1>4, <1>5, <1>6, <1>7, <1>9, <1>10, AttemptSucceeds
<1>11. CASE Set(o, l) /\ script' = [script EXCEPT ![o] = Stopping(src'[o][Slot(o)], Slot(o))]
  <2>1. src'[o][Slot(o)] = l
    BY <1>1, <1>7, <1>11, SetIs DEF Slots, Inv, Typed
  <2>2. script' = [script EXCEPT ![o] = Stopping(l, "kept")]
    BY <1>1, <1>11, <2>1
  <2> QED
    BY <1>1, <1>2, <1>5, <1>6, <1>7, <1>9, <1>11, <2>2, AttemptFails
<1> QED
  BY <1>1, <1>10, <1>11 DEF start_device, Me, l, Attempted
-----------------------------------------------------------------------------
(* The calls that clean up *)

LEMMA CleanupGoes ==
  ASSUME Inv, NEW o \in Owners, script[o] # <<>>, script[o][1][1] \in Cleanup,
         NEW l, NEW g, NEW mine, NEW at, NEW refs,
         g # NoSource => script[o][1] # <<"shutdown", "fresh">> /\ src[o]["fresh"] # NoSource,
         script[o][1] = <<"shutdown", "kept">> => l = NoSource,
         src[o]["kept"] = NoSource => l = NoSource,
         l.device => src[o]["kept"].device, g.device => src[o]["fresh"].device,
         refused \subseteq refs,
         script[o][1] = <<"close", "kept">> /\ l.device =>
           "close" \in refs /\ ("close" \in refused => "closed_again" \in refs),
         script[o][1] = <<"close", "fresh">> /\ g.device =>
           "close" \in refs /\ ("close" \in refused => "closed_again" \in refs),
         script[o][1] \notin {<<"close", "kept">>, <<"shutdown", "kept">>}
           /\ src[o]["kept"].device_connected => l.device_connected,
         l.device_connected =>
           /\ script[o][1] # <<"close", "kept">> /\ src[o]["kept"].device_connected
           /\ src[o]["kept"].stream_active => l.stream_active,
         Runs(l, mine, at, refs), mine => held = o,
         mine /\ at = "started" =>
           line = "started" /\ (script[o][1] = <<"stop", "kept">> => "stop" \in refs),
         mine /\ at # "off" =>
           /\ line # "off" \/ script[o][1] = <<"stop", "kept">>
           /\ script[o][1] = <<"disconnect", "kept">> => "disconnect" \in refs,
         SourcesAgree(l, g, mine), HeldIsAccountedFor(l, g, mine, refs)
  PROVE  /\ Tail(script[o]) \in Seq(Call)
         /\ OwnerIsInOrder(Tail(script[o]), l, g, mine, at, refs)
<1> DEFINE s == script[o]
           k == src[o]["kept"]
           f == src[o]["fresh"]
           ours == held = o
<1>1. /\ s \in Seq(Call) /\ GoesOn(s, k) /\ ScriptFits(s, k, f, ours, line, refused)
      /\ s # <<>> /\ s[1][1] \in Cleanup
  BY OrderSays
<1>2. s[1][1] # "start"
  BY DEF Cleanup
<1>3. /\ g # NoSource => s[1] # <<"shutdown", "fresh">> /\ f # NoSource
      /\ s[1] = <<"shutdown", "kept">> => l = NoSource
      /\ k = NoSource => l = NoSource
      /\ l.device => k.device
      /\ g.device => f.device
      /\ s[1] = <<"close", "kept">> /\ l.device =>
           "close" \in refs /\ ("close" \in refused => "closed_again" \in refs)
      /\ s[1] = <<"close", "fresh">> /\ g.device =>
           "close" \in refs /\ ("close" \in refused => "closed_again" \in refs)
  OBVIOUS
<1>4. /\ mine => ours
      /\ mine /\ at = "started" =>
           line = "started" /\ (s[1] = <<"stop", "kept">> => "stop" \in refs)
      /\ mine /\ at # "off" =>
           /\ line # "off" \/ s[1] = <<"stop", "kept">>
           /\ s[1] = <<"disconnect", "kept">> => "disconnect" \in refs
  OBVIOUS
<1>5. /\ s[1] \notin {<<"close", "kept">>, <<"shutdown", "kept">>} /\ k.device_connected =>
           l.device_connected
      /\ l.device_connected =>
           s[1] # <<"close", "kept">> /\ k.device_connected /\ (k.stream_active => l.stream_active)
  OBVIOUS
<1> HIDE DEF s, k, f, ours
<1>6. Tail(s) \in Seq(Call) /\ ScriptFits(Tail(s), l, g, mine, at, refs)
  BY <1>1, <1>3, <1>4, <1>5, CleanupPops
<1>7. GoesOn(Tail(s), l)
  BY <1>1, <1>2, <1>5, GoesOnPops
<1> QED
  BY <1>6, <1>7 DEF OwnerIsInOrder, s

LEMMA StopKeepsInv ==
  ASSUME Inv, NEW o \in Owners, stop_device(o) \/ disconnect_device(o)
  PROVE  Inv'
<1> DEFINE k == src[o]["kept"]
           f == src[o]["fresh"]
           name == script[o][1][1]
<1>1. /\ script[o] # <<>> /\ name \in {"stop", "disconnect"} /\ script[o][1] = <<name, Slot(o)>>
      /\ \/ stop_device(o) /\ name = "stop"
         \/ disconnect_device(o) /\ name = "disconnect"
  BY CallingIs DEF stop_device, disconnect_device
<1>2. /\ k \in Source /\ f \in Source /\ script[o] \in Seq(Call)
      /\ SourcesAgree(k, f, held = o) /\ HeldIsAccountedFor(k, f, held = o, refused)
      /\ Runs(k, held = o, line, refused)
  BY OrderSays
<1>3. Slot(o) = "kept" /\ k.device_connected
  <2>1. 1 \in 1..Len(script[o])
    BY <1>1, <1>2, TailAt
  <2>2. script[o][1][2] = "kept" /\ k.device_connected
    BY <1>1, <2>1, OrderSays DEF ScriptFits, StopsWhatRuns
  <2> QED
    BY <1>1, <2>2
<1>4. held = o /\ k.made /\ k # NoSource
  BY <1>2, <1>3, NoSourceIs DEF SourcesAgree
<1>5. script[o][1] = <<name, "kept">>
  BY <1>1, <1>3
<1>6. /\ UNCHANGED <<sdk, dev, items, held, live, src, mode, config, torn>>
      /\ script' = [script EXCEPT ![o] = Tail(script[o])]
  BY <1>1 DEF stop_device, disconnect_device, Done
<1>7. \/ /\ name = "stop"
         /\ \/ line' = "connected" /\ refused' = refused
            \/ line' = line /\ refused' = refused \cup {"stop"}
      \/ /\ name = "disconnect"
         /\ \/ line' = "off" /\ refused' = refused
            \/ line' = line /\ refused' = refused \cup {"disconnect"}
  BY <1>1 DEF stop_device, disconnect_device
<1>8. line \in {"off", "connected", "started"} /\ refused \subseteq Refusals /\ held # Nobody
  BY <1>4, OwnersAssumption DEF Inv, Typed
<1>9. /\ line' \in {"off", "connected", "started"} /\ refused' \subseteq Refusals
      /\ refused \subseteq refused'
  BY <1>7, <1>8 DEF Refusals
<1>10. Runs(k, held = o, line', refused')
  BY <1>2, <1>3, <1>7 DEF Runs
<1>11. /\ line' = "started" =>
            line = "started" /\ (script[o][1] = <<"stop", "kept">> => "stop" \in refused')
       /\ line' # "off" =>
            /\ line # "off" \/ script[o][1] = <<"stop", "kept">>
            /\ script[o][1] = <<"disconnect", "kept">> => "disconnect" \in refused'
  BY <1>5, <1>7
<1>12. HeldIsAccountedFor(k, f, held = o, refused')
  BY <1>2, <1>9 DEF HeldIsAccountedFor
<1>13. /\ script[o][1][1] \in Cleanup /\ script[o][1] # <<"shutdown", "kept">>
       /\ script[o][1] # <<"shutdown", "fresh">> /\ script[o][1] # <<"close", "kept">>
       /\ script[o][1] # <<"close", "fresh">>
  BY <1>1 DEF Cleanup
<1> HIDE DEF name, k, f
<1>14. /\ Tail(script[o]) \in Seq(Call)
       /\ OwnerIsInOrder(Tail(script[o]), k, f, held = o, line', refused')
  BY <1>1, <1>2, <1>9, <1>10, <1>11, <1>12, <1>13, CleanupGoes DEF k, f
<1>15. src' = [src EXCEPT ![o] = src[o]] /\ src[o] \in [Slots -> Source]
  BY <1>6 DEF Inv, Typed
<1> QED
  BY <1>4, <1>6, <1>8, <1>9, <1>14, <1>15, SourceStep DEF k, f

\* What a close or a shutdown finds at the head of a script: all that was to be stopped
\* before was, or was refused.
LEMMA ClosingIs ==
  ASSUME Inv, NEW o \in Owners, NEW call \in {"close", "close_handle", "shutdown"}, Calling(o, call)
  PROVE  LET k == src[o]["kept"]
             f == src[o]["fresh"]
         IN  /\ script[o] # <<>> /\ script[o][1] = <<call, Slot(o)>> /\ Slot(o) \in Slots
             /\ script[o][1][1] = call /\ call \in Cleanup
             /\ k \in Source /\ f \in Source /\ SourcesAgree(k, f, held = o)
             /\ HeldIsAccountedFor(k, f, held = o, refused) /\ Runs(k, held = o, line, refused)
             /\ held = o /\ Slot(o) = "kept" /\ call \in {"close", "shutdown"} =>
                  /\ line = "started" => "stop" \in refused
                  /\ line # "off" => "disconnect" \in refused
             /\ call = "shutdown" /\ src[o][Slot(o)].device => "closed_again" \in refused
<1> DEFINE k == src[o]["kept"]
           f == src[o]["fresh"]
<1>1. /\ script[o] # <<>> /\ script[o][1] = <<call, Slot(o)>> /\ Slot(o) \in Slots
  BY CallingIs
<1>2. script[o][1][1] = call /\ call \in Cleanup
  BY <1>1 DEF Cleanup
<1>3. /\ k \in Source /\ f \in Source /\ script[o] \in Seq(Call) /\ SourcesAgree(k, f, held = o)
      /\ HeldIsAccountedFor(k, f, held = o, refused) /\ Runs(k, held = o, line, refused)
      /\ StopsWhatRuns(script[o], k, f, held = o, line, refused)
      /\ ClosedTwice(script[o], "kept", k.device, refused)
      /\ ClosedTwice(script[o], "fresh", f.device, refused)
  BY OrderSays DEF ScriptFits
<1>4. 1 \in 1..Len(script[o]) /\ \A c : ~Earlier(script[o], 1, c)
  BY <1>1, <1>3, TailAt DEF Earlier
<1>5. held = o /\ Slot(o) = "kept" /\ call \in {"close", "shutdown"} =>
        /\ line = "started" => "stop" \in refused
        /\ line # "off" => "disconnect" \in refused
  BY <1>1, <1>3, <1>4 DEF StopsWhatRuns
<1>6. call = "shutdown" /\ src[o][Slot(o)].device => "closed_again" \in refused
  <2>1. CASE Slot(o) = "kept"
    BY <1>1, <1>3, <1>4, <2>1 DEF ClosedTwice
  <2>2. CASE Slot(o) = "fresh"
    BY <1>1, <1>3, <1>4, <2>2 DEF ClosedTwice
  <2> QED
    BY <1>1, <2>1, <2>2 DEF Slots
<1> QED
  BY <1>1, <1>2, <1>3, <1>5, <1>6

LEMMA CloseHandleKeepsInv ==
  ASSUME Inv, NEW o \in Owners, close_handle(o)
  PROVE  Inv'
<1> DEFINE k == src[o]["kept"]
           f == src[o]["fresh"]
           i == [Me(o) EXCEPT !.handle = FALSE]
           w == [src[o] EXCEPT ![Slot(o)] = i]
<1>1. /\ script[o] # <<>> /\ script[o][1] = <<"close_handle", Slot(o)>> /\ Slot(o) \in Slots
      /\ script[o][1][1] \in Cleanup
      /\ k \in Source /\ f \in Source /\ SourcesAgree(k, f, held = o)
      /\ HeldIsAccountedFor(k, f, held = o, refused) /\ Runs(k, held = o, line, refused)
  BY ClosingIs DEF close_handle
<1>2. /\ i \in Source /\ i.initialized = Me(o).initialized /\ i.device = Me(o).device
      /\ i.made = Me(o).made /\ i.device_connected = Me(o).device_connected
      /\ i.stream_active = Me(o).stream_active /\ ~i.handle /\ (Me(o) = NoSource => i = NoSource)
  <2> DEFINE m == Me(o)
  <2>1. m \in Source
    BY <1>1 DEF Me, Slots
  <2> HIDE DEF m
  <2>2. i = [m EXCEPT !.handle = FALSE]
    BY DEF m
  <2>3. /\ i \in Source /\ i.initialized = m.initialized /\ i.device = m.device
        /\ i.made = m.made /\ i.device_connected = m.device_connected
        /\ i.stream_active = m.stream_active /\ ~i.handle
    BY <2>1, <2>2 DEF Source
  <2>4. m = NoSource => i = NoSource
    <3> SUFFICES ASSUME m = NoSource PROVE i = m
      OBVIOUS
    <3>1. m.handle = FALSE
      BY NoSourceIs DEF Source
    <3> QED
      BY <2>1, <2>2, <3>1 DEF Source
  <2> QED
    BY <2>3, <2>4 DEF m
<1>3. /\ w \in [Slots -> Source] /\ src' = [src EXCEPT ![o] = w]
      /\ w[Slot(o)] = i /\ \A x \in Slots : x # Slot(o) => w[x] = src[o][x]
  BY <1>1, <1>2, SetIs DEF close_handle
<1>4. /\ UNCHANGED <<sdk, dev, items, held, line, refused, live, mode, config, torn>>
      /\ script' = [script EXCEPT ![o] = Tail(script[o])]
  BY DEF close_handle, vendor, Done
<1> HIDE DEF i, w
<1>5. /\ Tail(script[o]) \in Seq(Call)
      /\ OwnerIsInOrder(Tail(script[o]), w["kept"], w["fresh"], held = o, line, refused)
  <2> DEFINE l == w["kept"]  g == w["fresh"]
  <2>1. \/ l = i /\ g = f /\ Me(o) = k
        \/ l = k /\ g = i /\ Me(o) = f
    BY <1>1, <1>3 DEF Slots, Me
  <2> HIDE DEF l, g, k, f
  <2>2. /\ l.device_connected = k.device_connected /\ l.stream_active = k.stream_active
        /\ l.device = k.device /\ g.device = f.device
        /\ (k = NoSource => l = NoSource) /\ (f = NoSource => g = NoSource)
        /\ SourcesAgree(l, g, held = o)
    BY <1>1, <1>2, <2>1 DEF SourcesAgree
  <2>3. HeldIsAccountedFor(l, g, held = o, refused) /\ Runs(l, held = o, line, refused)
    BY <1>1, <2>2 DEF HeldIsAccountedFor, Runs
  <2>4. /\ script[o][1] # <<"shutdown", "kept">> /\ script[o][1] # <<"shutdown", "fresh">>
        /\ script[o][1] # <<"close", "kept">> /\ script[o][1] # <<"close", "fresh">>
        /\ script[o][1] # <<"stop", "kept">> /\ script[o][1] # <<"disconnect", "kept">>
    BY <1>1
  <2> QED
    BY <1>1, <2>2, <2>3, <2>4, CleanupGoes DEF l, g, k, f
<1>6. \A x \in Slots : w[x].initialized = src[o][x].initialized
  BY <1>2, <1>3 DEF Me
<1>7. /\ held \in Owners \cup {Nobody} /\ line \in {"off", "connected", "started"}
      /\ refused \subseteq Refusals /\ (held = Nobody => line = "off")
  BY DEF Inv, Typed
<1> QED
  BY <1>3, <1>4, <1>5, <1>6, <1>7, SourceStep

\* A source without a device has nothing to close.
LEMMA ClosingNothing ==
  ASSUME Inv, NEW o \in Owners, Calling(o, "close"), ~Me(o).device
  PROVE  /\ Tail(script[o]) \in Seq(Call)
         /\ OwnerIsInOrder(Tail(script[o]), src[o]["kept"], src[o]["fresh"], held = o, line, refused)
<1> DEFINE k == src[o]["kept"]
           f == src[o]["fresh"]
<1>1. /\ script[o] # <<>> /\ script[o][1] = <<"close", Slot(o)>> /\ Slot(o) \in Slots
      /\ script[o][1][1] \in Cleanup /\ SourcesAgree(k, f, held = o)
      /\ HeldIsAccountedFor(k, f, held = o, refused) /\ Runs(k, held = o, line, refused)
  BY ClosingIs
<1>2. (Slot(o) = "kept" => ~k.device) /\ (Slot(o) = "fresh" => ~f.device)
  BY DEF Me
<1> HIDE DEF k, f
<1>3. /\ script[o][1] # <<"shutdown", "kept">> /\ script[o][1] # <<"shutdown", "fresh">>
      /\ script[o][1] # <<"stop", "kept">> /\ script[o][1] # <<"disconnect", "kept">>
      /\ script[o][1] = <<"close", "kept">> => ~k.device /\ ~k.device_connected
      /\ script[o][1] = <<"close", "fresh">> => ~f.device
  BY <1>1, <1>2 DEF SourcesAgree
<1> QED
  BY <1>1, <1>3, CleanupGoes DEF k, f

\* A close that was accepted gives the device back; the source no longer has it.
LEMMA ClosingGivesBack ==
  ASSUME Inv, NEW o \in Owners, Calling(o, "close"), Me(o).device,
         NEW i \in Source, i.made = Me(o).made, i.handle = Me(o).handle,
         i.initialized = Me(o).initialized,
         ~i.device, ~i.device_connected, ~i.stream_active,
         NEW w, w[Slot(o)] = i, \A x \in Slots : x # Slot(o) => w[x] = src[o][x]
  PROVE  /\ Tail(script[o]) \in Seq(Call)
         /\ OwnerIsInOrder(Tail(script[o]), w["kept"], w["fresh"], FALSE, "off", refused)
         /\ held = o
<1> DEFINE k == src[o]["kept"]
           f == src[o]["fresh"]
           l == w["kept"]
           g == w["fresh"]
<1>1. /\ script[o] # <<>> /\ script[o][1] = <<"close", Slot(o)>> /\ Slot(o) \in Slots
      /\ script[o][1][1] \in Cleanup /\ SourcesAgree(k, f, held = o)
  BY ClosingIs
<1>2. \/ l = i /\ g = f /\ Me(o) = k /\ Slot(o) = "kept"
      \/ l = k /\ g = i /\ Me(o) = f /\ Slot(o) = "fresh"
  BY <1>1 DEF Slots, Me
<1> HIDE DEF k, f, l, g
<1>3. held = o
  BY <1>1, <1>2 DEF SourcesAgree
<1>4. /\ ~l.device /\ ~g.device /\ ~l.device_connected /\ ~g.device_connected
      /\ (k = NoSource => l = NoSource) /\ (f = NoSource => g = NoSource)
      /\ SourcesAgree(l, g, FALSE)
  BY <1>1, <1>2, NoSourceIs DEF SourcesAgree
<1>5. HeldIsAccountedFor(l, g, FALSE, refused) /\ Runs(l, FALSE, "off", refused)
  BY DEF HeldIsAccountedFor, Runs
<1>6. /\ script[o][1] # <<"shutdown", "kept">> /\ script[o][1] # <<"shutdown", "fresh">>
      /\ script[o][1] # <<"stop", "kept">> /\ script[o][1] # <<"disconnect", "kept">>
  BY <1>1
<1>7. script[o][1] \notin {<<"close", "kept">>, <<"shutdown", "kept">>} => ~k.device_connected
  <2>1. script[o][1] \notin {<<"close", "kept">>, <<"shutdown", "kept">>} => Slot(o) = "fresh"
    BY <1>1 DEF Slots
  <2> QED
    BY <1>1, <1>2, <2>1 DEF SourcesAgree
<1> QED
  BY <1>1, <1>3, <1>4, <1>5, <1>6, <1>7, CleanupGoes DEF k, f, l, g

\* A close that was refused leaves the device with its source, and the refusal on record.
LEMMA ClosingIsRefused ==
  ASSUME Inv, NEW o \in Owners, Calling(o, "close"), Me(o).device,
         NEW i \in Source, i.made = Me(o).made, i.handle = Me(o).handle,
         i.initialized = Me(o).initialized,
         i.device, ~i.device_connected, ~i.stream_active,
         NEW refs, refused \subseteq refs, "close" \in refs,
         "close" \in refused => "closed_again" \in refs,
         NEW w, w[Slot(o)] = i, \A x \in Slots : x # Slot(o) => w[x] = src[o][x]
  PROVE  /\ Tail(script[o]) \in Seq(Call)
         /\ OwnerIsInOrder(Tail(script[o]), w["kept"], w["fresh"], held = o, line, refs)
         /\ held = o
<1> DEFINE k == src[o]["kept"]
           f == src[o]["fresh"]
           l == w["kept"]
           g == w["fresh"]
<1>1. /\ script[o] # <<>> /\ script[o][1] = <<"close", Slot(o)>> /\ Slot(o) \in Slots
      /\ script[o][1][1] \in Cleanup /\ SourcesAgree(k, f, held = o)
      /\ Runs(k, held = o, line, refused)
      /\ held = o /\ Slot(o) = "kept" =>
           (line = "started" => "stop" \in refused) /\ (line # "off" => "disconnect" \in refused)
  BY ClosingIs
<1>2. \/ l = i /\ g = f /\ Me(o) = k /\ Slot(o) = "kept"
      \/ l = k /\ g = i /\ Me(o) = f /\ Slot(o) = "fresh"
  BY <1>1 DEF Slots, Me
<1> HIDE DEF k, f, l, g
<1>3. held = o
  BY <1>1, <1>2 DEF SourcesAgree
<1>4. /\ l.device = k.device /\ g.device = f.device /\ (l.device_connected => l = k)
      /\ (k = NoSource => l = NoSource) /\ (f = NoSource => g = NoSource)
      /\ SourcesAgree(l, g, held = o)
  <2>1. CASE l = i /\ g = f /\ Me(o) = k /\ Slot(o) = "kept"
    BY <1>1, <1>3, <2>1, NoSourceIs DEF SourcesAgree
  <2>2. CASE l = k /\ g = i /\ Me(o) = f /\ Slot(o) = "fresh"
    BY <1>1, <1>3, <2>2, NoSourceIs DEF SourcesAgree
  <2> QED
    BY <1>2, <2>1, <2>2
<1>5. HeldIsAccountedFor(l, g, held = o, refs) /\ Runs(l, held = o, line, refs)
  BY <1>1, <1>2, <1>3 DEF HeldIsAccountedFor, Runs
<1>6. /\ script[o][1] # <<"shutdown", "kept">> /\ script[o][1] # <<"shutdown", "fresh">>
      /\ script[o][1] # <<"stop", "kept">> /\ script[o][1] # <<"disconnect", "kept">>
  BY <1>1
<1>7. /\ script[o][1] \notin {<<"close", "kept">>, <<"shutdown", "kept">>} => l = k
      /\ l.device_connected => script[o][1] # <<"close", "kept">> /\ l = k
  <2>1. /\ script[o][1] \notin {<<"close", "kept">>, <<"shutdown", "kept">>} => Slot(o) = "fresh"
        /\ script[o][1] = <<"close", "kept">> => Slot(o) = "kept"
    BY <1>1 DEF Slots
  <2> QED
    BY <1>2, <2>1
<1> QED
  BY <1>1, <1>3, <1>4, <1>5, <1>6, <1>7, CleanupGoes DEF k, f, l, g

LEMMA CloseKeepsInv ==
  ASSUME Inv, NEW o \in Owners, close_device(o)
  PROVE  Inv'
<1> DEFINE m == Me(o)
<1>1. /\ Calling(o, "close") /\ Slot(o) \in Slots /\ script' = [script EXCEPT ![o] = Tail(script[o])]
      /\ UNCHANGED <<sdk, dev, items, live, mode, config, torn>>
  BY ClosingIs DEF close_device, Done
<1>2. m \in Source /\ src[o] \in [Slots -> Source] /\ o # Nobody
  BY <1>1, OwnersAssumption DEF Me, Inv, Typed
<1>3. /\ line \in {"off", "connected", "started"} /\ refused \subseteq Refusals
      /\ held \in Owners \cup {Nobody} /\ (held = Nobody => line = "off")
  BY DEF Inv, Typed
<1>4. CASE /\ m.device
           /\ held' = Nobody /\ line' = "off" /\ UNCHANGED refused
           /\ Set(o, [Stopped(m) EXCEPT !.device = FALSE])
  <2> DEFINE i == [Stopped(m) EXCEPT !.device = FALSE]
             w == [src[o] EXCEPT ![Slot(o)] = i]
  <2> HIDE DEF m
  <2>1. /\ i \in Source /\ i.made = m.made /\ i.handle = m.handle /\ i.initialized = m.initialized
        /\ ~i.device /\ ~i.device_connected /\ ~i.stream_active
    BY <1>2 DEF Stopped, Source
  <2>2. /\ w \in [Slots -> Source] /\ src' = [src EXCEPT ![o] = w]
        /\ w[Slot(o)] = i /\ \A x \in Slots : x # Slot(o) => w[x] = src[o][x]
    BY <1>1, <1>4, <2>1, SetIs
  <2> HIDE DEF i, w
  <2>3. /\ Tail(script[o]) \in Seq(Call) /\ held = o
        /\ OwnerIsInOrder(Tail(script[o]), w["kept"], w["fresh"], FALSE, "off", refused)
    <3>1. /\ Calling(o, "close") /\ Me(o).device
          /\ i \in Source /\ i.made = Me(o).made /\ i.handle = Me(o).handle
          /\ i.initialized = Me(o).initialized
          /\ ~i.device /\ ~i.device_connected /\ ~i.stream_active
      BY <1>1, <1>4, <2>1 DEF m
    <3>2. w[Slot(o)] = i /\ \A x \in Slots : x # Slot(o) => w[x] = src[o][x]
      BY <2>2
    <3> QED
      BY <3>1, <3>2, ClosingGivesBack, ZenonT(60)
  <2>4. OwnerIsInOrder(Tail(script[o]), w["kept"], w["fresh"], held' = o, line', refused')
    BY <1>2, <1>4, <2>3
  <2>5. \A x \in Slots : w[x].initialized = src[o][x].initialized
    BY <2>1, <2>2 DEF m, Me
  <2>6. /\ held' \in Owners \cup {Nobody} /\ line' \in {"off", "connected", "started"}
        /\ refused' \subseteq Refusals /\ (held' = Nobody => line' = "off")
        /\ held \in {o, Nobody} /\ held' \in {o, Nobody}
    BY <1>3, <1>4, <2>3
  <2> QED
    BY <1>1, <2>2, <2>3, <2>4, <2>5, <2>6, SourceStep
<1>5. CASE /\ m.device
           /\ refused' = refused \cup {IF "close" \in refused THEN "closed_again" ELSE "close"}
           /\ UNCHANGED <<held, line>>
           /\ Set(o, Retained(Stopped(m)))
  <2> DEFINE i == Stopped(m)
             w == [src[o] EXCEPT ![Slot(o)] = i]
  <2> HIDE DEF m
  <2>1. /\ i \in Source /\ i.made = m.made /\ i.handle = m.handle /\ i.initialized = m.initialized
        /\ i.device = m.device /\ ~i.device_connected /\ ~i.stream_active
    BY <1>2 DEF Stopped, Source
  <2>2. /\ w \in [Slots -> Source] /\ src' = [src EXCEPT ![o] = w]
        /\ w[Slot(o)] = i /\ \A x \in Slots : x # Slot(o) => w[x] = src[o][x]
    BY <1>1, <1>5, <2>1, SetIs DEF Retained
  <2> HIDE DEF i, w
  <2>3. /\ refused \subseteq refused' /\ "close" \in refused'
        /\ "close" \in refused => "closed_again" \in refused'
        /\ refused' \subseteq Refusals
    BY <1>3, <1>5 DEF Refusals
  <2>4. /\ Tail(script[o]) \in Seq(Call) /\ held = o
        /\ OwnerIsInOrder(Tail(script[o]), w["kept"], w["fresh"], held = o, line, refused')
    <3>1. /\ Calling(o, "close") /\ Me(o).device
          /\ i \in Source /\ i.made = Me(o).made /\ i.handle = Me(o).handle
          /\ i.initialized = Me(o).initialized
          /\ i.device /\ ~i.device_connected /\ ~i.stream_active
      BY <1>1, <1>5, <2>1 DEF m
    <3>2. w[Slot(o)] = i /\ \A x \in Slots : x # Slot(o) => w[x] = src[o][x]
      BY <2>2
    <3> QED
      BY <2>3, <3>1, <3>2, ClosingIsRefused
  <2>5. OwnerIsInOrder(Tail(script[o]), w["kept"], w["fresh"], held' = o, line', refused')
    BY <1>5, <2>4
  <2>6. \A x \in Slots : w[x].initialized = src[o][x].initialized
    BY <2>1, <2>2 DEF m, Me
  <2>7. /\ held' \in Owners \cup {Nobody} /\ line' \in {"off", "connected", "started"}
        /\ refused' \subseteq Refusals /\ (held' = Nobody => line' = "off")
        /\ held \in {o, Nobody} /\ held' \in {o, Nobody}
    BY <1>3, <1>5, <2>3, <2>4
  <2> QED
    BY <1>1, <2>2, <2>4, <2>5, <2>6, <2>7, SourceStep
<1>6. CASE ~m.device /\ UNCHANGED <<held, line, refused, src>>
  <2>1. /\ Tail(script[o]) \in Seq(Call)
        /\ OwnerIsInOrder(Tail(script[o]), src[o]["kept"], src[o]["fresh"], held = o, line, refused)
    BY <1>1, <1>6, ClosingNothing
  <2>2. Settings'
    BY <1>1, SettingsStay
  <2> QED
    BY <1>1, <1>6, <2>1, <2>2, ScriptStep DEF OwnerIsInOrder
<1> QED
  BY <1>4, <1>5, <1>6 DEF close_device

\* A source that is gone has given its device back, or was refused each time.
LEMMA ForgettingIs ==
  ASSUME Inv, NEW o \in Owners, Calling(o, "shutdown"),
         NEW w, w[Slot(o)] = NoSource, \A x \in Slots : x # Slot(o) => w[x] = src[o][x]
  PROVE  /\ Tail(script[o]) \in Seq(Call)
         /\ OwnerIsInOrder(Tail(script[o]), w["kept"], w["fresh"], held = o, line, refused)
<1> DEFINE k == src[o]["kept"]
           f == src[o]["fresh"]
           l == w["kept"]
           g == w["fresh"]
<1>1. /\ script[o] # <<>> /\ script[o][1] = <<"shutdown", Slot(o)>> /\ Slot(o) \in Slots
      /\ script[o][1][1] \in Cleanup /\ SourcesAgree(k, f, held = o)
      /\ Runs(k, held = o, line, refused) /\ HeldIsAccountedFor(k, f, held = o, refused)
      /\ held = o /\ Slot(o) = "kept" =>
           (line = "started" => "stop" \in refused) /\ (line # "off" => "disconnect" \in refused)
      /\ src[o][Slot(o)].device => "closed_again" \in refused
  BY ClosingIs
<1>2. \/ l = NoSource /\ g = f /\ Slot(o) = "kept"
      \/ l = k /\ g = NoSource /\ Slot(o) = "fresh"
  BY <1>1 DEF Slots
<1>3. /\ Slot(o) = "kept" => (k.device => "closed_again" \in refused)
      /\ Slot(o) = "fresh" => (f.device => "closed_again" \in refused)
  BY <1>1
<1> HIDE DEF k, f, l, g
<1>4. /\ ~NoSource.device /\ ~NoSource.device_connected /\ ~NoSource.stream_active
      /\ ~NoSource.made /\ ~NoSource.handle
  BY NoSourceIs
<1>5. /\ (l.device => k.device) /\ (g.device => f.device) /\ (l.device_connected => l = k)
      /\ (k = NoSource => l = NoSource) /\ SourcesAgree(l, g, held = o)
      /\ HeldIsAccountedFor(l, g, held = o, refused) /\ Runs(l, held = o, line, refused)
  <2>1. CASE l = NoSource /\ g = f /\ Slot(o) = "kept"
    BY <1>1, <1>3, <1>4, <2>1 DEF SourcesAgree, HeldIsAccountedFor, Runs
  <2>2. CASE l = k /\ g = NoSource /\ Slot(o) = "fresh"
    BY <1>1, <1>3, <1>4, <2>2 DEF SourcesAgree, HeldIsAccountedFor
  <2> QED
    BY <1>2, <2>1, <2>2
<1>6. /\ script[o][1] # <<"close", "kept">> /\ script[o][1] # <<"close", "fresh">>
      /\ script[o][1] # <<"stop", "kept">> /\ script[o][1] # <<"disconnect", "kept">>
  BY <1>1
<1>7. /\ script[o][1] \notin {<<"close", "kept">>, <<"shutdown", "kept">>} => l = k
      /\ script[o][1] = <<"shutdown", "kept">> => l = NoSource
      /\ g # NoSource => script[o][1] # <<"shutdown", "fresh">> /\ f # NoSource
  <2>1. /\ script[o][1] \notin {<<"close", "kept">>, <<"shutdown", "kept">>} => Slot(o) = "fresh"
        /\ script[o][1] = <<"shutdown", "kept">> => Slot(o) = "kept"
        /\ script[o][1] = <<"shutdown", "fresh">> => Slot(o) = "fresh"
        /\ Slot(o) = "kept" => script[o][1] # <<"shutdown", "fresh">>
    BY <1>1 DEF Slots
  <2>2. g # NoSource => f # NoSource
    BY <1>2
  <2> QED
    BY <1>2, <2>1, <2>2
<1> QED
  BY <1>1, <1>5, <1>6, <1>7, CleanupGoes DEF k, f, l, g

LEMMA ShutdownKeepsInv ==
  ASSUME Inv, NEW o \in Owners, shutdown(o)
  PROVE  Inv'
<1> DEFINE w == [src[o] EXCEPT ![Slot(o)] = NoSource]
<1>1. /\ Calling(o, "shutdown") /\ Slot(o) \in Slots /\ Set(o, NoSource)
      /\ script' = [script EXCEPT ![o] = Tail(script[o])]
      /\ UNCHANGED <<dev, items, held, line, refused, mode, config, torn>>
  BY ClosingIs DEF shutdown, Done
<1>2. /\ w \in [Slots -> Source] /\ src' = [src EXCEPT ![o] = w]
      /\ w[Slot(o)] = NoSource /\ \A x \in Slots : x # Slot(o) => w[x] = src[o][x]
  BY <1>1, NoSourceIs, SetIs
<1> HIDE DEF w
<1>3. /\ Tail(script[o]) \in Seq(Call)
      /\ OwnerIsInOrder(Tail(script[o]), w["kept"], w["fresh"], held = o, line, refused)
  BY <1>1, <1>2, ForgettingIs
<1>4. OwnerIsInOrder(Tail(script[o]), w["kept"], w["fresh"], held' = o, line', refused')
  BY <1>1, <1>3
<1>5. Settings'
  BY <1>1, SettingsStay
<1>6. /\ line \in {"off", "connected", "started"} /\ refused \subseteq Refusals
      /\ held \in Owners \cup {Nobody} /\ (held = Nobody => line = "off")
      /\ sdk \in {"up", "down"} /\ live \in Nat /\ live = Cardinality(Clients)
      /\ (live > 0 => sdk = "up") /\ src[o] \in [Slots -> Source]
  BY DEF Inv, Typed
<1>7. /\ live' \in Nat /\ live' = Cardinality(Clients') /\ (live' > 0 => sdk' = "up")
      /\ sdk' \in {"up", "down"}
  <2>1. CASE WasInitialized(Me(o))
    <3>1. live' = Released(live) /\ sdk' \in IF LastOut(live') THEN {"up", "down"} ELSE {sdk}
      BY <2>1 DEF shutdown
    <3>2. /\ src[o][Slot(o)].initialized /\ ~w[Slot(o)].initialized
          /\ \A x \in Slots : x # Slot(o) => w[x].initialized = src[o][x].initialized
      BY <1>2, <2>1, NoSourceIs DEF WasInitialized, Me
    <3>3. Cardinality(Clients') = Cardinality(Clients) - 1 /\ Cardinality(Clients) > 0
      <4>1. Cardinality(Clients) > 0
        BY <1>1, <3>2, CountIsPositive
      <4>2. w \in [Slots -> Source] /\ src' = [src EXCEPT ![o] = w]
        BY <1>2
      <4>3. Cardinality(Clients') = Cardinality(Clients) - 1
        <5>1. ASSUME NEW x \in Slots, x = Slot(o)
              PROVE  Cardinality(Clients') = Cardinality(Clients) - 1
          <6>1. /\ src[o][x].initialized /\ w[x].initialized = FALSE
                /\ \A y \in Slots : y # x => w[y].initialized = src[o][y].initialized
            BY <1>2, <3>2, <5>1, NoSourceIs DEF Source
          <6> QED
            BY <4>2, <6>1, CountFalls, Zenon
        <5> QED
          BY <1>1, <5>1
      <4> QED
        BY <4>1, <4>3
    <3>4. live' = live - 1 /\ live > 0
      BY <1>6, <3>1, <3>3 DEF Released
    <3>5. live' \in Nat /\ live' = Cardinality(Clients')
      BY <1>6, <3>3, <3>4
    <3>6. sdk' \in {"up", "down"} /\ (live' # 0 => sdk' = sdk)
      BY <1>6, <3>1 DEF LastOut
    <3> QED
      BY <1>6, <3>4, <3>5, <3>6
  <2>2. CASE ~WasInitialized(Me(o))
    <3>1. UNCHANGED <<sdk, live>>
      BY <2>2 DEF shutdown
    <3>2. src[o][Slot(o)].initialized = FALSE /\ w[Slot(o)].initialized = FALSE
      BY <1>1, <1>2, <1>6, <2>2, NoSourceIs DEF WasInitialized, Me, Source
    <3>3. \A x \in Slots : w[x].initialized = src[o][x].initialized
      BY <1>2, <3>2
    <3>4. Clients' = Clients
      BY <1>2, <3>3, SameClients
    <3> QED
      BY <1>6, <3>1, <3>4
  <2> QED
    BY <2>1, <2>2
<1>8. /\ held' \in Owners \cup {Nobody} /\ line' \in {"off", "connected", "started"}
      /\ refused' \subseteq Refusals /\ (held' = Nobody => line' = "off")
      /\ held' = held /\ line' = line /\ refused' = refused
  BY <1>1, <1>6
<1> QED
  BY <1>1, <1>2, <1>3, <1>4, <1>5, <1>7, <1>8, StepKeepsInv
-----------------------------------------------------------------------------
(* The theorems *)

LEMMA InitMeetsInv ==
  ASSUME Init
  PROVE  Inv
<1>1. src = [o \in Owners |-> [s \in Slots |-> NoSource]] /\ script = [o \in Owners |-> <<>>]
  BY DEF Init
<1>2. src \in [Owners -> [Slots -> Source]] /\ script \in [Owners -> Seq(Call)]
  BY <1>1, NoSourceIs
<1>3. items["spanfreq"] \in Nat /\ DOMAIN items = Items
  BY DEF Init, Items
<1>4. dev \in Device
  BY OwnersAssumption DEF Init
<1>5. mode \in [Owners -> Modes] /\ config \in [Owners -> Request]
  <2>1. PICK setup \in [Owners -> UNION {Setups[o] : o \in Owners}] :
          /\ \A o \in Owners : setup[o] \in Setups[o]
          /\ mode = [o \in Owners |-> setup[o][1]]
          /\ config = [o \in Owners |-> setup[o][2]]
    BY DEF Init
  <2>2. \A o \in Owners : setup[o] \in Modes \X Request
    BY <2>1, OwnersAssumption
  <2>3. \A o \in Owners : setup[o][1] \in Modes /\ setup[o][2] \in Request
    BY <2>2
  <2> QED
    BY <2>1, <2>3
<1>6. Typed
  BY <1>2, <1>3, <1>4, <1>5 DEF Typed, Init, Refusals
<1>7. OwnersInOrder
  <2> SUFFICES ASSUME NEW o \in Owners
               PROVE  OwnerIsInOrder(script[o], src[o]["kept"], src[o]["fresh"], held = o, line, refused)
    BY DEF OwnersInOrder
  <2>1. script[o] = <<>> /\ src[o]["kept"] = NoSource /\ src[o]["fresh"] = NoSource
    BY <1>1 DEF Slots
  <2>2. ~(held = o)
    BY OwnersAssumption DEF Init
  <2>3. ScriptFits(<<>>, NoSource, NoSource, held = o, line, refused)
    BY <2>2, NothingFits DEF Runs
  <2>4. GoesOn(<<>>, NoSource)
    BY NoSourceIs DEF GoesOn, ConnectsToStart
  <2>5. /\ SourcesAgree(NoSource, NoSource, held = o)
        /\ HeldIsAccountedFor(NoSource, NoSource, held = o, refused)
    BY <2>2, NoSourceIs DEF SourcesAgree, HeldIsAccountedFor
  <2> QED
    BY <2>1, <2>3, <2>4, <2>5 DEF OwnerIsInOrder
<1>8. Cardinality(Clients) = 0
  <2>1. Clients = {}
    BY <1>1, NoSourceIs DEF Clients
  <2> QED
    BY <2>1, FS_EmptySet
<1> QED
  BY <1>6, <1>7, <1>8 DEF Inv, Init

LEMMA NextKeepsInv ==
  ASSUME Inv, [Next]_vars
  PROVE  Inv'
<1>1. ASSUME NEW o \in Owners, Operation(o) PROVE Inv'
  BY <1>1, StartsKeepInv, StopsKeepInv, SettingsKeepInv DEF Operation
<1>2. ASSUME NEW o \in Owners, VendorCall(o) PROVE Inv'
  <2>1. CASE init_with_path(o)
    BY <2>1, InitKeepsInv
  <2>2. CASE open_handle(o)
    BY <2>2, HandleKeepsInv
  <2>3. CASE FindDevices(o)
    BY <2>3, FindKeepsInv
  <2>4. CASE open_device(o)
    BY <2>4, OpenKeepsInv
  <2>5. CASE CallConfigure(o)
    BY <2>5, ConfigureKeepsInv
  <2>6. CASE ReplaceSource(o)
    BY <2>6, ReplaceKeepsInv
  <2>7. CASE InstallSource(o)
    BY <2>7, InstallKeepsInv
  <2>8. CASE connect_device(o)
    BY <2>8, ConnectKeepsInv
  <2>9. CASE start_device(o)
    BY <2>9, StartKeepsInv
  <2>10. CASE stop_device(o) \/ disconnect_device(o)
    BY <2>10, StopKeepsInv
  <2>11. CASE close_device(o)
    BY <2>11, CloseKeepsInv
  <2>12. CASE close_handle(o)
    BY <2>12, CloseHandleKeepsInv
  <2>13. CASE shutdown(o)
    BY <2>13, ShutdownKeepsInv
  <2> QED
    BY <1>2, <2>1, <2>2, <2>3, <2>4, <2>5, <2>6, <2>7, <2>8, <2>9, <2>10, <2>11, <2>12, <2>13
       DEF VendorCall
<1>3. CASE UNCHANGED vars
  BY <1>3 DEF vars, vendor, Inv, Typed, OwnersInOrder, Clients
<1> QED
  BY <1>1, <1>2, <1>3 DEF Next

\* Every script an owner is left with, whichever calls failed, fits the sources it holds:
\* what is made is dropped, what is opened is closed as often as it takes to give up, and
\* the counter of NativeSdkClient::init_with_path and shutdown counts the clients.
THEOREM OrderIsKept == Spec => []Inv
<1>1. Init => Inv
  BY InitMeetsInv
<1>2. Inv /\ [Next]_vars => Inv'
  BY NextKeepsInv
<1> QED
  BY <1>1, <1>2, PTL DEF Spec

LEMMA ClientsAreBounded == Cardinality(Clients) <= 2 * Cardinality(Owners)
<1>1. IsFiniteSet(Owners) /\ Cardinality(Owners) \in Nat
  BY OwnersAssumption, FS_CardinalityType
<1>2. IsFiniteSet(Slots) /\ Cardinality(Slots) = 2
  <2> DEFINE one == {} \cup {"kept"}
  <2>1. IsFiniteSet(one) /\ Cardinality(one) = 0 + 1
    BY FS_EmptySet, FS_AddElement
  <2>2. "fresh" \notin one /\ Slots = one \cup {"fresh"}
    BY DEF Slots
  <2> HIDE DEF one
  <2>3. IsFiniteSet(one \cup {"fresh"}) /\ Cardinality(one \cup {"fresh"}) = Cardinality(one) + 1
    BY <2>1, <2>2, FS_AddElement
  <2> QED
    BY <2>1, <2>2, <2>3
<1>3. /\ IsFiniteSet(Owners \X Slots)
      /\ Cardinality(Owners \X Slots) = Cardinality(Owners) * Cardinality(Slots)
  BY <1>1, <1>2, FS_Product
<1>4. Clients \in SUBSET (Owners \X Slots)
  BY DEF Clients
<1>5. Cardinality(Clients) <= Cardinality(Owners \X Slots)
  BY <1>3, <1>4, FS_Subset
<1>6. Cardinality(Owners \X Slots) = 2 * Cardinality(Owners)
  BY <1>1, <1>2, <1>3
<1> QED
  BY <1>5, <1>6

LEMMA InvShares == Inv => SdkIsShared
<1> SUFFICES ASSUME Inv PROVE SdkIsShared
  OBVIOUS
<1>1. \A o \in Owners, s \in Slots :
        src[o][s] \in Source /\ (src[o][s].handle => src[o][s].initialized)
  <2> SUFFICES ASSUME NEW o \in Owners, NEW s \in Slots
               PROVE  src[o][s] \in Source /\ (src[o][s].handle => src[o][s].initialized)
    OBVIOUS
  <2> QED
    BY OrderSays DEF SourcesAgree, Slots
<1>2. IsFiniteSet(Clients) /\ Cardinality(Clients) \in Nat /\ live = Cardinality(Clients)
  BY ClientsAreFinite DEF Inv
<1>3. \A o \in Owners, s \in Slots : src[o][s].handle => sdk = "up"
  <2> SUFFICES ASSUME NEW o \in Owners, NEW s \in Slots, src[o][s].handle PROVE sdk = "up"
    OBVIOUS
  <2>1. <<o, s>> \in Clients
    BY <1>1 DEF Clients
  <2>2. Cardinality(Clients) # 0
    BY <1>2, <2>1, FS_EmptySet
  <2> QED
    BY <1>2, <2>2 DEF Inv
<1>4. live \in 0..2 * Cardinality(Owners)
  <2>1. Cardinality(Owners) \in Nat
    BY OwnersAssumption, FS_CardinalityType
  <2> QED
    BY <1>2, <2>1, ClientsAreBounded
<1>5. TypeOK
  BY <1>1, <1>4 DEF Inv, Typed, TypeOK, Refusals, Source
<1> QED
  BY <1>2, <1>3, <1>5 DEF SdkIsShared, LiveInitsAreTrue, SdkOutlivesHandles

\* The SDK is up as long as a client of the process has a handle of it: init_with_path and
\* shutdown count each client once, whichever of them failed, was dropped half way or was
\* replaced, and only the last one out shuts the SDK down.
THEOREM SdkSharing == Spec => []SdkIsShared
BY OrderIsKept, InvShares, PTL

LEMMA InvGivesBack == Inv => DeviceIsGivenBack
<1> SUFFICES ASSUME Inv, NEW o \in Owners, held = o
             PROVE  /\ Idle(o) /\ ~src[o]["kept"].stream_active =>
                         /\ line # "off" => "disconnect" \in refused
                         /\ line = "started" => "stop" \in refused
                    /\ (\A s \in Slots : ~src[o][s].device) => "closed_again" \in refused
  BY DEF DeviceIsGivenBack, StoppedIsStopped, DeviceIsReleased
<1>1. Idle(o) /\ ~src[o]["kept"].stream_active =>
        /\ line # "off" => "disconnect" \in refused
        /\ line = "started" => "stop" \in refused
  BY OrderSays DEF Idle, Runs
<1>2. (\A s \in Slots : ~src[o][s].device) => "closed_again" \in refused
  BY OrderSays DEF HeldIsAccountedFor, Slots
<1> QED
  BY <1>1, <1>2

\* Stopping, failing to start, replacing and dropping a source leave the device running,
\* connected or held only where the SDK refused to stop, disconnect or twice to close it:
\* stop_streaming attempts each stage whatever the ones before it returned, and a device
\* that does not close is kept for Drop's last attempt.
THEOREM GivingBack == Spec => []DeviceIsGivenBack
BY OrderIsKept, InvGivesBack, PTL
=============================================================================
