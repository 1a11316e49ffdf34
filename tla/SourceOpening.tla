--------------------------- MODULE SourceOpening ---------------------------
(***************************************************************************)
(* From an installed SDK to an open device: detection.rs finds the         *)
(* library, native_sdk.rs loads it, lists the devices of a family at a     *)
(* time and opens one; which one, unified_source.rs and the blocks of      *)
(* sdk_source.rs and sdk_sink.rs decide.  Devices are plugged, unplugged   *)
(* and claimed by other programs meanwhile, and a SpectranSource that was  *)
(* stopped opens its device again.                                         *)
(*                                                                         *)
(* The installation and the vendor library are external: a rescan renews   *)
(* the vendor's list, and what it says of a device is of the moment.       *)
(***************************************************************************)
EXTENDS Integers, Sequences, SequencesExt, FiniteSets

LOCAL INSTANCE Functions

CONSTANTS
  Installs,     \* installations: where AARONIA_SDK_PATH points, where the library is
  Pool,         \* the devices there are: their family by serial
  Requests,     \* what a program asks to open
  MaxRetries, MaxChanges, MaxOpenings

VARIABLES
  install,
  bus,          \* serials in the order they were plugged in
  ready, active,\* of those: usable; claimed by some program
  listed,       \* what the vendor found at its last rescan
  request,
  pc,
  families,     \* still to be listed
  retries,
  found,        \* of the first of families, so far
  populated,    \* of those before, where there were any
  chosen,       \* {} or the device to open, as it was listed
  open,         \* {} or the device this program has open
  outcome,
  openings, changes,
  \* for the properties
  asked,        \* the request as the program made it, and the serial it first got
  steady        \* the serials on the bus since this opening began

bus_vars == <<bus, ready, active, steady>>
list_vars == <<listed, families, retries, found, populated>>
vars == <<install, bus_vars, request, pc, list_vars, chosen, open, outcome, openings, changes, asked>>

Serials == DOMAIN Pool
DEVICE_FAMILIES == <<"spectranv6", "spectranv6eco">>
None == "none"
Refusals == {"no sdk", "sdk error", "no family", "not found", "not ready", "busy"}

-----------------------------------------------------------------------------
(* The installation.  AARONIA_SDK_PATH is unset, leads nowhere, or leads to the root or to its sdk. *)

get_sdk_path(i) ==
  CASE i.env \in {"root", "sdk"}                      -> i.env
    [] i.env \notin {"root", "sdk"} /\ i.standard     -> "root"
    [] i.env \notin {"root", "sdk"} /\ ~i.standard    -> None

LibraryRoots(path) == {path} \cup IF path = "sdk" THEN {"root"} ELSE {}

\* In each root, beside its sdk and in it.
get_sdk_library_path(i) ==
  LET roots == LibraryRoots(get_sdk_path(i))
  IN  \/ i.library = "root" /\ "root" \in roots
      \/ i.library = "sdk" /\ roots \cap {"root", "sdk"} # {}

-----------------------------------------------------------------------------
(* Names of families and modes. *)

names_a_device_family(family) == family # ""

raw_mode_for_family(family) == IF family = "spectranv6eco" THEN "iqreceiver" ELSE "raw"

\* The blocks: a device type that names a mode, or the family's own or the transmitter's.
split_device_type(r) ==
  IF r.mode # None THEN r.mode
  ELSE IF r.by = "sink" THEN "iqtransmitter" ELSE raw_mode_for_family(r.family)

OpenMode(r, family) ==
  CASE r.by = "source"            -> IF r.mode = None THEN raw_mode_for_family(family) ELSE r.mode
    [] r.by \in {"block", "sink"} -> split_device_type(r)
    [] r.by = "detected"          -> IF r.mode = "raw" THEN raw_mode_for_family(family) ELSE r.mode

-----------------------------------------------------------------------------

Init ==
  /\ install \in Installs
  /\ bus \in {s \in SeqOf(Serials, Cardinality(Serials)) : IsInjective(s)}
  /\ ready = [s \in Serials |-> TRUE] /\ active = [s \in Serials |-> FALSE]
  /\ listed = << >> /\ request \in Requests /\ pc = "load"
  /\ families = << >> /\ retries = 0 /\ found = << >> /\ populated = << >>
  /\ chosen = {} /\ open = {} /\ outcome = None
  /\ openings = 1 /\ changes = 0
  /\ asked = request /\ steady = ToSet(bus)

Ends(why) == pc' = "done" /\ outcome' = why /\ UNCHANGED <<chosen, open, request>>
Goes(where) == pc' = where /\ UNCHANGED <<chosen, open, request, outcome>>
Environment == <<install, bus_vars, openings, changes, asked>>

\* NativeSdkClient::new.  One entry point the library lacks is enough to refuse it.
Load ==
  /\ pc = "load"
  /\ \/ ~get_sdk_library_path(install) /\ Ends("no sdk")
     \/ get_sdk_library_path(install) /\ (Ends("sdk error") \/ Goes("initialize"))
  /\ UNCHANGED <<Environment, list_vars>>

FamiliesOf(r) == IF r.family = None THEN DEVICE_FAMILIES ELSE <<r.family>>

\* init_with_path and open_handle.
Initialize ==
  /\ pc = "initialize"
  /\ \/ Ends("sdk error") /\ UNCHANGED <<listed, families, found>>
     \/ /\ Goes(IF request.by = "detected" THEN "detect" ELSE "rescan")
        /\ families' = FamiliesOf(request) /\ found' = << >> /\ listed' = bus
  /\ populated' = << >> /\ retries' = 0
  /\ UNCHANGED Environment

\* find_devices, up to its enumeration.  RETRY is asked again a bounded number of times.
Rescan ==
  /\ pc = "rescan"
  /\ \/ ~names_a_device_family(Head(families)) /\ Ends("no family") /\ UNCHANGED <<listed, retries>>
     \/ /\ names_a_device_family(Head(families))
        /\ \/ Goes("list") /\ listed' = bus /\ retries' = 0
           \/ retries < MaxRetries /\ Goes("rescan") /\ retries' = retries + 1 /\ UNCHANGED listed
           \/ Ends("sdk error") /\ UNCHANGED <<listed, retries>>
  /\ UNCHANGED <<Environment, families, found, populated>>

OfFamily(f) == SelectSeq(listed, LAMBDA s : Pool[s] = f)
\* What EnumDevice says of a device: of one that is gone, that it is not ready.
Info(s) == [serial |-> s, family |-> Pool[s], ready |-> ready[s] /\ s \in ToSet(bus), active |-> active[s]]

\* An enumeration that ends goes on with the next family, or to what all of them gave.
enum_device ==
  /\ pc = "list"
  /\ LET all == OfFamily(Head(families))
     IN  \/ Ends("sdk error") /\ UNCHANGED <<families, found, populated>>
         \/ /\ Len(found) < Len(all)
            /\ found' = Append(found, Info(all[Len(found) + 1]))
            /\ Goes("list") /\ UNCHANGED <<families, populated>>
         \/ /\ Len(found) = Len(all)
            /\ populated' = IF found = << >> THEN populated ELSE Append(populated, found)
            /\ families' = Tail(families) /\ found' = << >>
            /\ Goes(IF Len(families) = 1 THEN "select" ELSE "rescan")
  /\ UNCHANGED <<Environment, listed, retries>>

\* The first family that answers with a device; one that fails counts as empty.  Nothing is rescanned.
detect_device_family ==
  /\ pc = "detect"
  /\ LET first == OfFamily(Head(families))
     IN  \/ /\ first # << >>
            /\ populated' = << <<[Info(first[1]) EXCEPT !.serial = request.serial]>> >>
            /\ Goes("select") /\ UNCHANGED families
         \/ /\ families' = Tail(families) /\ UNCHANGED populated
            /\ Goes(IF Len(families) = 1 THEN "select" ELSE "detect")
  /\ UNCHANGED <<Environment, listed, retries, found>>

Matching(devices, r) ==
  SelectSeq(devices, LAMBDA d : r.by # "source" \/ r.serial = None \/ d.serial = r.serial)

\* Of every family, before one is chosen.
Candidates(r) == Matching(FlattenSeq(populated), r)

\* A block opens its device also when another program has claimed it.
Refusal(d, r) ==
  CASE r.by # "detected" /\ ~d.ready               -> "not ready"
    [] r.by = "source" /\ d.ready /\ d.active      -> "busy"
    [] OTHER                                       -> None

Select ==
  /\ pc = "select"
  /\ \/ Candidates(request) = << >> /\ Ends("not found")
     \/ /\ Candidates(request) # << >>
        /\ LET d == Candidates(request)[1]
           IN  IF Refusal(d, request) # None THEN Ends(Refusal(d, request))
               ELSE /\ chosen' = {d} /\ pc' = "open"
                    /\ UNCHANGED <<open, request, outcome>>
  /\ UNCHANGED <<Environment, list_vars>>

\* Mutant: the choice is forgotten.
Pinned_not(r, d) == r

\* What the SpectranSource asks for from then on.
Pinned(r, d) ==
  IF r.by = "source" THEN [r EXCEPT !.serial = d.serial, !.family = d.family, !.mode = OpenMode(r, d.family)]
  ELSE r

\* The vendor opens a device that is there and free.  What was opened and cannot be
\* configured is closed again with the client (NativeLifecycle).
open_device ==
  /\ pc = "open"
  /\ \E d \in chosen :
       \/ /\ d.serial \in ToSet(bus) /\ Pool[d.serial] = d.family /\ ~active[d.serial]
          /\ open' = {[serial |-> d.serial, family |-> d.family, mode |-> OpenMode(request, d.family)]}
          /\ active' = [active EXCEPT ![d.serial] = TRUE]
          /\ request' = Pinned(request, d)
          /\ asked' = [asked EXCEPT !.serial = IF @ = None THEN d.serial ELSE @]
          /\ pc' = "done" /\ outcome' = "open" /\ UNCHANGED chosen
       \/ Ends("sdk error") /\ UNCHANGED <<active, asked>>
  /\ UNCHANGED <<install, bus, ready, steady, openings, changes, list_vars>>

\* A SpectranSource is stopped, or has failed to start again, and is started: a new client for it.
Restart ==
  /\ pc = "done" /\ request.by = "source" /\ openings < MaxOpenings
  /\ outcome = "open" \/ openings > 1
  /\ active' = [s \in Serials |-> active[s] /\ \A d \in open : d.serial # s]
  /\ open' = {} /\ chosen' = {} /\ outcome' = None /\ pc' = "load" /\ listed' = << >>
  /\ openings' = openings + 1 /\ steady' = ToSet(bus)
  /\ UNCHANGED <<install, bus, ready, request, families, retries, found, populated, changes, asked>>

\* Someone plugs a device in or pulls it, another program claims it or lets go, or it becomes ready.
BusChanges ==
  /\ changes < MaxChanges /\ changes' = changes + 1
  /\ \E s \in Serials :
       \/ s \notin ToSet(bus) /\ bus' = Append(bus, s) /\ UNCHANGED <<ready, active, steady>>
       \/ /\ s \in ToSet(bus) /\ open = {}
          /\ bus' = SelectSeq(bus, LAMBDA t : t # s) /\ steady' = steady \ {s}
          /\ active' = [active EXCEPT ![s] = FALSE] /\ UNCHANGED ready
       \/ /\ s \in ToSet(bus) /\ open = {}
          /\ active' = [active EXCEPT ![s] = ~@] /\ UNCHANGED <<bus, ready, steady>>
       \/ ready' = [ready EXCEPT ![s] = ~@] /\ UNCHANGED <<bus, active, steady>>
  /\ UNCHANGED <<install, request, pc, list_vars, chosen, open, outcome, openings, asked>>

Next ==
  \/ Load \/ Initialize \/ Rescan \/ enum_device \/ detect_device_family \/ Select
  \/ open_device \/ Restart \/ BusChanges

Spec == Init /\ [][Next]_vars

-----------------------------------------------------------------------------

TypeOK ==
  /\ ToSet(bus) \cup ToSet(listed) \subseteq Serials /\ IsInjective(bus)
  /\ pc \in {"load", "initialize", "rescan", "list", "detect", "select", "open", "done"}
  /\ retries \in 0..MaxRetries
  /\ outcome \in Refusals \cup {None, "open"}
  /\ (outcome = None) = (pc # "done") /\ (open # {} => outcome = "open")

Meets(s, r) == (r.serial # None => s = r.serial) /\ (r.family # None => Pool[s] = r.family)

\* What is open is the device the program named, or that its family has; and a source that
\* opened whichever came first opens that one again after a stop, whatever was plugged in meanwhile.
OpenedIsTheOneAsked == \A d \in open : Meets(d.serial, asked) /\ d.family = Pool[d.serial]

\* "Not found" is true: no device that was attached all the time is what was asked for, in
\* whichever family it lists; and the SDK is found wherever an installation of either layout has it.
NothingThereIsMissed ==
  /\ outcome = "not found" /\ asked.by # "detected" => \A s \in steady : ~Meets(s, asked)
  /\ outcome = "no sdk" /\ install.library # None => install.env \in {"unset", "gone"} /\ ~install.standard
=============================================================================
