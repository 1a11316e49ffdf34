--------------------------- MODULE NativeSpectra ---------------------------
(***************************************************************************)
(* What else native_sdk.rs does with an open device: configure a spectrum  *)
(* sweep, read packets of spectra, and walk the device's health tree for   *)
(* its GPS state (configure_sweepsa_with_reference_level, read_spectra,    *)
(* get_health_and_gps).  Each program does one of the three.  The SDK's    *)
(* calls may fail; its packets may describe frames that are padded, or     *)
(* that cannot be.                                                         *)
(*                                                                         *)
(* A packet's memory is a function of which floats belong to which frame   *)
(* and bin.  The health tree is a sequence of its items in walking order,  *)
(* each with the groups it is in.                                          *)
(***************************************************************************)
EXTENDS Integers, Sequences, SequencesExt, FiniteSets

CONSTANTS
  Sweeps,       \* what a sweep may be asked to be: the items written and a level or none
  Devices,      \* the items there are, and the bounds known of the level
  Shapes,       \* of packets: null, frames, bins, stride
  MAX_VALUES,
  Trees,        \* health trees
  MaxPackets, MaxErrors

VARIABLES
  task,         \* "sweep" | "read" | "health"
  mode,         \* the mode the device is open in
  errors,
  items, before, device, asked, result,  \* of the sweep: the device's items, and those it had
  queue, arrived, met, frames,           \* packets by stream, the last one read, what it gave
  kept,                                  \* could a packet that was read not be consumed?
  tree, at, gps, fix, moved, broken      \* the walk; has the fix changed, or a call failed?

sweep_vars  == <<items, before, device, asked, result>>
read_vars   == <<queue, arrived, met, frames, kept>>
health_vars == <<tree, at, gps, fix, moved, broken>>
vars == <<task, mode, errors, sweep_vars, read_vars, health_vars>>

None == "none"
NoLevel == 0
Modes == {"raw", "iqreceiver", "rtsa", "sweepsa", "other"}
Streams == {0, 2}
Fixes == {"position", "time"}
Blank == [v \in Fixes |-> [valid |-> FALSE, value |-> None]]
NoPacket == [number |-> 0, carries |-> "nothing"]

Init ==
  /\ task \in {"sweep", "read", "health"} /\ mode \in Modes /\ errors = 0
  /\ device \in (IF task = "sweep" THEN Devices ELSE {None})
  /\ items = [i \in {"startfreq", "stopfreq", "rbwfreq", "vbw", "reflevel"} |-> 0]
  /\ before = items /\ asked = None /\ result = None
  /\ queue = [s \in Streams |-> << >>] /\ arrived = 0 /\ met = NoPacket /\ frames = << >> /\ kept = FALSE
  /\ tree \in (IF task = "health" THEN Trees ELSE {<< >>}) /\ at = 0 /\ gps = Blank
  /\ fix \in [Fixes -> (IF task = "health" THEN BOOLEAN ELSE {FALSE})]
  /\ moved = FALSE /\ broken = FALSE

SdkFails == errors < MaxErrors /\ errors' = errors + 1
-----------------------------------------------------------------------------
(* The sweep. *)

\* A level is checked before anything is written.
LevelRefused(sweep) == sweep.level # NoLevel /\ ("reflevel" \notin device.present \/ sweep.level \notin device.bounds)

\* The items written in turn, of those the device has.
SweepWrites(sweep) ==
  SelectSeq(<<"startfreq", "stopfreq", "rbwfreq", "vbw">> \o (IF sweep.level = NoLevel THEN << >> ELSE <<"reflevel">>),
            LAMBDA i : i \in device.present /\ (i = "reflevel" => sweep.level \in device.bounds))

Value(sweep, i) == IF i = "reflevel" THEN sweep.level ELSE sweep.geometry

configure_sweepsa_with_reference_level(sweep, n) ==
  LET writes == SweepWrites(sweep)
      done   == ToSet(SubSeq(writes, 1, n))
  IN  /\ task = "sweep" /\ n \in 0..Len(writes)
      /\ before' = items /\ asked' = sweep
      /\ IF LevelRefused(sweep) THEN result' = "refused" /\ UNCHANGED <<items, errors>>
         ELSE /\ items' = [i \in DOMAIN items |-> IF i \in done THEN Value(sweep, i) ELSE items[i]]
              /\ IF n = Len(writes) THEN result' = "ok" /\ UNCHANGED errors
                 ELSE result' = "failed" /\ SdkFails
      /\ UNCHANGED <<task, mode, device, read_vars, health_vars>>
-----------------------------------------------------------------------------
(* Spectra. *)

carries_spectra == mode \in {"raw", "rtsa", "sweepsa"}
spectra_stream_index == IF mode = "raw" THEN 2 ELSE 0

\* The SDK queues a packet: of spectra, on their stream of the mode, or of IQ.
PacketArrives(s, shape) ==
  /\ task = "read" /\ arrived < MaxPackets
  /\ s = 2 => mode = "raw"
  /\ arrived' = arrived + 1
  /\ queue' = [queue EXCEPT ![s] = Append(@,
       [number |-> arrived + 1, shape |-> shape,
        carries |-> IF mode = "iqreceiver" \/ (mode = "raw" /\ s = 0) THEN "iq" ELSE "spectra"])]
  /\ UNCHANGED <<task, mode, errors, sweep_vars, met, frames, kept, health_vars>>

\* The frame and the bin that a float of a packet's memory is of, or padding.
Float(p, k) ==
  LET stride == IF p.stride = 0 THEN p.bins ELSE p.stride
  IN  IF k % stride < p.bins THEN <<k \div stride, k % stride>> ELSE None

\* What a packet cannot be read for.
Corrupt(p) ==
  \/ p.frames * p.bins > MAX_VALUES
  \/ p.stride < 0 \/ p.stride \in 1..p.bins - 1
  \/ p.stride > p.bins /\ (p.frames - 1) * p.stride + p.bins > 2 * MAX_VALUES

\* Mutant: a packet is one flat copy.
Copied_flat(p) == [n \in 1..p.frames * p.bins |-> Float(p, n - 1)]
\* One copy for frames that abut, else one for each frame.
Copied(p) ==
  IF p.stride \in {0, p.bins} THEN [n \in 1..p.frames * p.bins |-> Float(p, n - 1)]
  ELSE FlattenSeq([f \in 1..p.frames |-> [b \in 1..p.bins |-> Float(p, (f - 1) * p.stride + b - 1)]])

Empty(p) == p.null \/ p.frames <= 0 \/ p.bins = 0

\* The packet at the head is consumed whatever it gave; when that fails, what was appended stays.
read_spectra ==
  LET stream == spectra_stream_index
      packet == Head(queue[stream])
      shape  == packet.shape
  IN  /\ task = "read"
      /\ \/ ~carries_spectra /\ met' = NoPacket /\ frames' = << >> /\ UNCHANGED <<queue, errors, kept>>
         \/ carries_spectra /\ queue[stream] = << >> /\ met' = NoPacket /\ frames' = << >>
              /\ UNCHANGED <<queue, errors, kept>>
         \/ carries_spectra /\ SdkFails /\ met' = NoPacket /\ frames' = << >> /\ UNCHANGED <<queue, kept>>
         \/ /\ carries_spectra /\ queue[stream] # << >>
            /\ met' = packet
            /\ frames' = IF Empty(shape) \/ Corrupt(shape) THEN << >> ELSE Copied(shape)
            /\ \/ queue' = [queue EXCEPT ![stream] = Tail(@)] /\ UNCHANGED <<errors, kept>>
               \/ SdkFails /\ kept' = TRUE /\ UNCHANGED queue
      /\ UNCHANGED <<task, mode, arrived, sweep_vars, health_vars>>
-----------------------------------------------------------------------------
(* Health. *)

\* The device gets a fix, or loses it.
FixChanges(v) ==
  /\ task = "health" /\ ~moved /\ moved' = TRUE
  /\ fix' = [fix EXCEPT ![v] = ~@]
  /\ UNCHANGED <<task, mode, errors, sweep_vars, read_vars, tree, at, gps, broken>>

WalkBegins ==
  /\ task = "health" /\ at = 0
  /\ at' = 1 /\ gps' = Blank /\ moved' = FALSE /\ broken' = FALSE
  /\ UNCHANGED <<task, mode, errors, sweep_vars, read_vars, tree, fix>>

\* A value without a fix is a zero, the place where 0 N meets 0 E.
Reading(v) == IF fix[v] THEN "a fix" ELSE "zero"

Noted(item) ==
  IF item.is = "valid" THEN [gps EXCEPT ![item.of].valid = fix[item.of]]
  ELSE [gps EXCEPT ![item.of].value = Reading(item.of)]

\* As far as an item whose value cannot be read goes.
Unread(item) ==
  IF item.is = "valid" THEN [gps EXCEPT ![item.of].valid = FALSE]
  ELSE [gps EXCEPT ![item.of].value = None]

\* Where the walk goes on after the item at k when a group cannot be walked on: behind one that the
\* item is, or is in; the error of a nested walk is ignored.
Behind(k) ==
  {Cardinality({j \in DOMAIN tree : j <= g \/ g \in tree[j].above}) + 1 : g \in tree[k].above \cup {k}}

walk_health_tree ==
  /\ at \in DOMAIN tree
  /\ LET item == tree[at]
     IN  \/ /\ at' = at + 1
            /\ gps' = IF item.is = "group" THEN gps ELSE Noted(item)
            /\ UNCHANGED <<errors, broken>>
         \/ /\ SdkFails /\ broken' = TRUE
            /\ \/ at' = at + 1 /\ gps' = gps     \* its name cannot be read
               \/ at' = at + 1 /\ item.is # "group" /\ gps' = Unread(item)
               \/ at' \in Behind(at) /\ gps' = IF item.is = "group" THEN gps ELSE Noted(item)
  /\ UNCHANGED <<task, mode, sweep_vars, read_vars, tree, fix, moved>>

\* The walk of the outermost group cannot go on: there is no answer.
WalkFails ==
  /\ at \in DOMAIN tree /\ SdkFails
  /\ at' = 0 /\ gps' = Blank /\ broken' = TRUE
  /\ UNCHANGED <<task, mode, sweep_vars, read_vars, tree, fix, moved>>

Walked == task = "health" /\ at = Len(tree) + 1

\* What get_health_and_gps gives: values count when their flag does.
Answer(v) == IF gps[v].valid THEN gps[v].value ELSE None

get_health_and_gps == Walked /\ at' = 0
  /\ UNCHANGED <<task, mode, errors, sweep_vars, read_vars, tree, gps, fix, moved, broken>>

Next ==
  \/ \E sweep \in Sweeps, n \in 0..5 : configure_sweepsa_with_reference_level(sweep, n)
  \/ \E s \in Streams, shape \in Shapes : PacketArrives(s, shape)
  \/ read_spectra
  \/ \E v \in Fixes : FixChanges(v)
  \/ WalkBegins \/ walk_health_tree \/ WalkFails \/ get_health_and_gps

Spec == Init /\ [][Next]_vars
-----------------------------------------------------------------------------
(* Properties *)

\* A sweep that is refused for its level has changed nothing, and one that was accepted is as it
\* was asked for wherever the device has the item, the level included.
SweepIsAllOrSaid ==
  /\ result = "refused" => items = before
  /\ result = "ok" =>
       /\ \A i \in device.present \ {"reflevel"} : items[i] = asked.geometry
       /\ asked.level # NoLevel => items["reflevel"] = asked.level

\* A read gives the frames of one packet of spectra, each whole and without padding, and a packet
\* that gives none does not stand in the way of the next: the queue holds only later ones, unless
\* the SDK would not consume it.
FramesAreWhole ==
  /\ met.carries # "iq"
  /\ met.number # 0 =>
       /\ frames \in {<< >>, [n \in 1..met.shape.frames * met.shape.bins |->
                                <<(n - 1) \div met.shape.bins, (n - 1) % met.shape.bins>>]}
       /\ ~kept => \A s \in Streams : \A i \in DOMAIN queue[s] :
                     s = spectra_stream_index => queue[s][i].number > met.number

\* A position or a time is given only of a fix, whatever the order of the tree and whatever of it
\* could not be read; and where all of it was read, a fix is given.
AFixIsAFix ==
  Walked /\ ~moved => \A v \in Fixes :
    /\ Answer(v) # "zero"
    /\ ~broken /\ fix[v] /\ (\E k \in DOMAIN tree : tree[k].is = "value" /\ tree[k].of = v)
                 /\ (\E k \in DOMAIN tree : tree[k].is = "valid" /\ tree[k].of = v)
         => Answer(v) = "a fix"
=============================================================================
