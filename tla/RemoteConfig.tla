----------------------------- MODULE RemoteConfig -----------------------------
(***************************************************************************)
(* HttpEndpointsClient's writes over /remoteconfig (http_endpoints.rs):    *)
(* apply_capture_config, set_clock_source and set_gps_mode, which write    *)
(* and read back, verify_config_changes and the licence probe over it,     *)
(* which change the device and put it back; and its reads of the health.   *)
(* A call is a sequence of requests between which another client may write *)
(* or load a mission, and of which each may fail.  Calls do not share any  *)
(* state, so the model is of one.                                          *)
(*                                                                         *)
(* The server is external: it answers 200 to a write it ignores, because   *)
(* the block is not in the mission, the label is not one it offers or it   *)
(* takes no remote configuration.                                          *)
(***************************************************************************)
EXTENDS ConfigTree, TLC

CONSTANTS
  Calls,             \* what the client is asked for, and of which tree
  Missions,          \* the trees another client may load
  Others,            \* what it may write: group, field, value
  MaxFaults, MaxOthers

VARIABLES
  tree,              \* the device's configuration
  licensed,          \* does the server apply remote writes?
  pc,                \* the request that is next, or "done"
  op,                \* what the call is asked for
  block,             \* discovered: {} or one
  original, readback,\* verify_config_changes: {} or one value
  read_error,        \* why there is no readback
  outcome,           \* of its two writes: "untried" | "ok" | "failed"
  result,
  faults, others,
  \* for the properties
  start,             \* the tree when it began
  met,               \* the failures it met
  meddled,           \* has another client changed anything since?
  tested             \* has the server applied the test value?

verify_vars == <<original, readback, read_error, outcome>>
call_vars == <<op, start>>
vars == <<tree, licensed, pc, block, result, verify_vars, call_vars, faults, met, others,
          meddled, tested>>

LabelFields == {"sclksource", "gpsmode"}
CaptureFields == {"centerfreq0", "decimation0", "reflevel0"}
Failures == {"unauthorized", "forbidden", "other"}
Writes == {"change", "restore"}
SafeDelta == 1

NoResult == [tag |-> "none"]
Error(why) == [tag |-> "error", why |-> why]

(***************************************************************************)
(* The server.                                                             *)
(***************************************************************************)
Target(t, b, group, field) ==
  First({i \in NamedIn(t, DOMAIN t, field) :
           t[t[i].up].name = group /\ \E j \in Enclosing(t, i) : t[j].name = b})

\* A labelled field takes a label it offers, by its place in the list.
Accepted(item, value) ==
  IF item.name \notin LabelFields THEN {value}
  ELSE {k - 1 : k \in First({j \in DOMAIN item.labels \ item.refused : item.labels[j] = value})}

Written(t, b, group, want) ==
  [i \in DOMAIN t |->
     IF t[i].name \in DOMAIN want /\ i \in Target(t, b, group, t[i].name)
     THEN [t[i] EXCEPT !.val = IF Accepted(t[i], want[t[i].name]) = {} THEN @
                               ELSE CHOOSE v \in Accepted(t[i], want[t[i].name]) : TRUE]
     ELSE t[i]]

\* A request fails, with a status or without an answer.
Fails(why) == faults < MaxFaults /\ faults' = faults + 1 /\ met' = met \cup {why}
Answered == UNCHANGED <<faults, met>>
Answers == Failures \cup {"ok"}
Get(answer) == IF answer = "ok" THEN Answered ELSE Fails(answer)

\* A write is answered whether or not it is applied, fails before it is applied, or
\* is applied and its answer lost.
simple_remote_config(group, want, answer) ==
  LET applied == IF licensed THEN Written(tree, CHOOSE b \in block : TRUE, group, want) ELSE tree
  IN  \/ answer = "ok" /\ tree' = applied /\ Answered
      \/ answer # "ok" /\ tree' = tree /\ Fails(answer)
      \/ answer = "other" /\ tree' = applied /\ Fails(answer)

FirstRequest(kind) ==
  CASE kind \in {"capture", "label"} -> "discover"
    [] kind = "verify"               -> "original"
    [] kind \in {"probe", "detect"}  -> "license"
    [] OTHER                         -> kind

Returns(r) == pc' = "done" /\ result' = r
Goes(to) == pc' = to /\ UNCHANGED result

(***************************************************************************)
(* find_block_name_with_field, then the write, then the read-back.         *)
(***************************************************************************)
find_block_name_with_field ==
  /\ pc = "discover"
  /\ \E answer \in Answers :
       /\ Get(answer)
       /\ LET found == find_block_name_carrying_field(tree, "centerfreq0")
          IN  IF answer # "ok" \/ found = {}
              THEN Returns(Error("other")) /\ UNCHANGED block
              ELSE /\ block' = found
                   /\ Goes(IF DOMAIN op.want = {} THEN "confirm" ELSE "put")
  /\ UNCHANGED <<tree, licensed, verify_vars, call_vars, others, meddled, tested>>

PutRequested ==
  /\ pc = "put"
  /\ \E answer \in Answers :
       /\ simple_remote_config(IF op.kind = "label" THEN "device" ELSE "main", op.want, answer)
       /\ IF answer = "ok" THEN Goes("confirm") ELSE Returns(Error(answer))
  /\ UNCHANGED <<licensed, block, verify_vars, call_vars, others, meddled, tested>>

read_capture_config(t, b) ==
  [f \in CaptureFields |-> UNION {read_config_leaf_value(t, g, f) : g \in find_group_items(t, b)}]

apply_capture_config ==
  /\ pc = "confirm" /\ op.kind = "capture"
  /\ \E answer \in Answers :
       /\ Get(answer)
       /\ LET b == CHOOSE n \in block : TRUE
          IN  Returns(IF answer # "ok" \/ find_group_items(tree, b) = {} THEN Error("other")
                      ELSE [tag |-> "applied", values |-> read_capture_config(tree, b)])
  /\ UNCHANGED <<tree, licensed, block, verify_vars, call_vars, others, meddled, tested>>

\* What set_clock_source and set_gps_mode make of the label the device reports.
\* Mutant: the write having been accepted is enough.
Confirmation_accepted(reported, wanted) ==
  IF reported = {} THEN [tag |-> "unconfirmed"] ELSE [tag |-> "confirmed"]
Confirmation(reported, wanted) ==
  IF reported = {} THEN [tag |-> "unconfirmed"]
  ELSE IF reported = {wanted} THEN [tag |-> "confirmed"]
  ELSE Error("mismatch")

\* The capabilities' other half, /healthstatus, does not matter here.
Confirm(f) ==
  /\ pc = "confirm" /\ op.kind = "label" /\ f \in DOMAIN op.want
  /\ \E answer \in Answers :
       /\ Get(answer)
       /\ LET caps == from_trees(IF answer = "ok" THEN {tree} ELSE {}, {})
          IN  Returns(Confirmation(caps.selected[f], op.want[f]))
  /\ UNCHANGED <<tree, licensed, block, verify_vars, call_vars, others, meddled, tested>>
set_clock_source == Confirm("sclksource")
set_gps_mode == Confirm("gpsmode")

(***************************************************************************)
(* The licence.  A read proves nothing; the probe then tries a write.      *)
(***************************************************************************)
Status(s) == [tag |-> "status", status |-> s]

detect_remote_config_license(answer) ==
  CASE answer = "unauthorized" -> "AuthenticationRequired"
    [] answer = "forbidden"    -> "NotLicensed"
    [] OTHER                   -> "Unknown"

ReadLicense ==
  /\ pc = "license"
  /\ \E answer \in Answers :
       /\ Get(answer)
       /\ IF op.kind = "detect" THEN Returns(Status(detect_remote_config_license(answer)))
          ELSE IF answer = "ok" THEN Goes("original")
          ELSE Returns(Status(IF answer = "unauthorized" THEN "AuthenticationRequired"
                              ELSE "Unknown"))
  /\ UNCHANGED <<tree, licensed, block, verify_vars, call_vars, others, meddled, tested>>

\* What the probe makes of what verify_config_changes returned.
probe_remote_config_write_license(r) ==
  CASE r.tag = "verified"     -> IF r.applied THEN "Active" ELSE "NotLicensed"
    [] r = Error("unauthorized") -> "AuthenticationRequired"
    [] OTHER                  -> "NotLicensed"

(***************************************************************************)
(* verify_config_changes: read, change, read back, restore.  The restore   *)
(* is tried whatever came of the change and of the read-back.              *)
(***************************************************************************)
Verified(r) == Returns(IF op.kind = "probe" THEN Status(probe_remote_config_write_license(r)) ELSE r)

\* A slash-separated path names the leaf to read, and is refused as one to write.
Supported == ~op.path

ReadOriginal ==
  /\ pc = "original"
  /\ \E answer \in Answers :
       LET value == extract_parameter_value(tree, op.field)
       IN  /\ Get(answer)
           /\ IF answer # "ok" \/ value = {}
              THEN /\ Verified(Error(IF answer = "ok" THEN "other" ELSE answer))
                   /\ UNCHANGED <<original, outcome>>
              ELSE /\ original' = value
                   /\ IF Supported THEN Goes("find_change") /\ UNCHANGED outcome
                      ELSE Goes("readback") /\ outcome' = [outcome EXCEPT !["change"] = "failed"]
  /\ UNCHANGED <<tree, licensed, block, readback, read_error, call_vars, others, meddled, tested>>

\* What the call returns of a read-back and its two writes.
verification(value, why, done) ==
  IF value = {} THEN Error(why)
  ELSE [tag |-> "verified", applied |-> value = {v + SafeDelta : v \in original},
        error |-> IF done["change"] = "failed" THEN "change"
                  ELSE IF done["restore"] = "failed" THEN "restore" ELSE "none"]

\* apply_parameter_change ended.
After(w, how) ==
  /\ outcome' = [outcome EXCEPT ![w] = how]
  /\ IF w = "change" THEN Goes("readback")
     ELSE Verified(verification(readback, read_error, outcome'))

FindFor(w) ==
  /\ pc = "find_" \o w
  /\ \E answer \in Answers :
       /\ Get(answer)
       /\ LET found == find_block_name_carrying_field(tree, op.field)
          IN  IF answer # "ok" \/ found = {}
              THEN After(w, "failed") /\ UNCHANGED block
              ELSE block' = found /\ Goes("put_" \o w) /\ UNCHANGED outcome
  /\ UNCHANGED <<tree, licensed, original, readback, read_error, call_vars, others, meddled, tested>>

ValueFor(w) == (CHOOSE v \in original : TRUE) + (IF w = "change" THEN SafeDelta ELSE 0)

PutFor(w) ==
  /\ pc = "put_" \o w
  /\ \E answer \in Answers :
       /\ simple_remote_config("main", op.field :> ValueFor(w), answer)
       /\ After(w, IF answer = "ok" THEN "ok" ELSE "failed")
  /\ tested' = (tested \/ (w = "change" /\ tree' # tree))
  /\ UNCHANGED <<licensed, block, original, readback, read_error, call_vars, others, meddled>>

apply_parameter_change == \E w \in Writes : FindFor(w) \/ PutFor(w)

\* Mutant: a read-back that fails ends the call.
AfterReadback_ends(value, why) ==
  IF value = {} THEN Verified(Error(why)) /\ UNCHANGED outcome
  ELSE Goes("find_restore") /\ UNCHANGED outcome
AfterReadback(value, why) ==
  IF Supported THEN Goes("find_restore") /\ UNCHANGED outcome
  ELSE /\ outcome' = [outcome EXCEPT !["restore"] = "failed"]
       /\ Verified(verification(value, why, outcome'))

ReadBack ==
  /\ pc = "readback"
  /\ \E answer \in Answers :
       LET value == IF answer = "ok" THEN extract_parameter_value(tree, op.field) ELSE {}
           why   == IF value # {} THEN "none" ELSE IF answer = "ok" THEN "other" ELSE answer
       IN  Get(answer) /\ readback' = value /\ read_error' = why /\ AfterReadback(value, why)
  /\ UNCHANGED <<tree, licensed, block, original, call_vars, others, meddled, tested>>

verify_config_changes == ReadOriginal \/ apply_parameter_change \/ ReadBack

(***************************************************************************)
(* get_device_health and get_device_sensors, of one answer, and the        *)
(* capabilities.                                                           *)
(***************************************************************************)
get_health_status ==
  /\ pc = "health"
  /\ \E answer \in Answers :
       /\ Get(answer)
       /\ Returns(IF answer # "ok" THEN Error(answer)
                  ELSE [tag |-> "health", blocks |-> health_summaries(tree), seen |-> sensors(tree)])
  /\ UNCHANGED <<tree, licensed, block, verify_vars, call_vars, others, meddled, tested>>

\* Two reads in flight together; neither failing is an error.
get_device_capabilities ==
  /\ pc = "capabilities"
  /\ \E config, health \in Answers :
       LET failed == {w \in {<<"config", config>>, <<"health", health>>} : w[2] # "ok"}
       IN  /\ faults + Cardinality(failed) <= MaxFaults
           /\ faults' = faults + Cardinality(failed) /\ met' = met \cup {w[2] : w \in failed}
           /\ Returns([tag |-> "capabilities", asked |-> config,
                       caps |-> from_trees(IF config = "ok" THEN {tree} ELSE {},
                                           IF health = "ok" THEN {op.health} ELSE {})])
  /\ UNCHANGED <<tree, licensed, block, verify_vars, call_vars, others, meddled, tested>>

(***************************************************************************)
(* Another client writes a field, or loads a mission.                      *)
(***************************************************************************)
AnotherClient ==
  /\ pc # "done" /\ others < MaxOthers /\ others' = others + 1 /\ meddled' = TRUE
  /\ \/ \E o \in Others, b \in Blocks : tree' = Written(tree, b, o.group, o.want)
     \/ tree' \in Missions
  /\ tree' # tree
  /\ UNCHANGED <<licensed, pc, block, result, verify_vars, call_vars, faults, met, tested>>

Init ==
  /\ \E c \in Calls : op = c.op /\ tree = c.tree
  /\ start = tree /\ pc = FirstRequest(op.kind) /\ licensed \in BOOLEAN
  /\ block = {} /\ result = NoResult
  /\ original = {} /\ readback = {} /\ read_error = "none"
  /\ outcome = [w \in Writes |-> "untried"]
  /\ faults = 0 /\ others = 0
  /\ met = {} /\ meddled = FALSE /\ tested = FALSE

Next ==
  \/ find_block_name_with_field \/ PutRequested \/ apply_capture_config
  \/ set_clock_source \/ set_gps_mode
  \/ ReadLicense
  \/ verify_config_changes
  \/ get_health_status \/ get_device_capabilities
  \/ AnotherClient

Spec == Init /\ [][Next]_vars

(***************************************************************************)
(* Properties.                                                             *)
(***************************************************************************)
Finished == pc = "done"

\* Types, and the bounds on what the environment does.
TypeOK ==
  /\ licensed \in BOOLEAN /\ meddled \in BOOLEAN /\ tested \in BOOLEAN
  /\ pc \in {"done", "health", "capabilities", "discover", "put", "confirm", "license", "original", "readback"}
           \cup {p \o w : p \in {"find_", "put_"}, w \in Writes}
  /\ Cardinality(block) <= 1 /\ Cardinality(original) <= 1 /\ Cardinality(readback) <= 1
  /\ \A w \in Writes : outcome[w] \in {"untried", "ok", "failed"}
  /\ read_error \in Failures \cup {"none"} /\ met \subseteq Failures
  /\ faults \in 0..MaxFaults /\ others \in 0..MaxOthers
  /\ DOMAIN tree = DOMAIN start \/ meddled

\* verify_config_changes puts the device back whatever fails on the way: no other
\* client having written, a device that is left changed is one whose restore was
\* tried and failed, and a result without an error says nothing is left changed
\* ("automatically restores the original value"; the comment on step 4).
ProbeLeavesNoTrace ==
  Finished /\ op.kind \in {"verify", "probe"} /\ ~meddled /\ tree # start =>
    /\ outcome["restore"] = "failed" /\ met # {}
    /\ result.tag = "verified" => result.error # "none"

\* The licence probe says Active only of a server it made take a value, NotLicensed
\* of one that takes them only if a request failed, and that authentication is
\* required only after an answer that said so.
VerdictIsEarned ==
  Finished /\ op.kind = "probe" /\ ~meddled /\ result.tag = "status" =>
    /\ result.status = "Active" => tested
    /\ result.status = "NotLicensed" /\ extract_parameter_value(start, op.field) # {} =>
         ~licensed \/ met # {}
    /\ result.status = "AuthenticationRequired" => "unauthorized" \in met

\* The capabilities report the mission's first field of a name: is it that block's?
ReportedOf(b, f) == Enum(tree, f) \subseteq Target(tree, b, "device", f)

\* What a setter tells its caller is the device's: a confirmed label is selected in
\* the block the write named, one reported as not taken is not, unless the mission
\* has another block's field of that name first; and the values an applied capture
\* comes back with are that block's, those asked for as asked unless the server
\* ignores writes.
SettersTellTheDevice ==
  Finished /\ ~meddled /\ block # {} =>
    LET b == CHOOSE n \in block : TRUE
        At(group, f) == Target(tree, b, group, f)
    IN  CASE op.kind = "label" ->
               \A f \in DOMAIN op.want : ReportedOf(b, f) => \A i \in At("device", f) :
                 /\ result.tag = "confirmed" => Selected(tree, i) = {op.want[f]}
                 /\ result = Error("mismatch") => Selected(tree, i) # {op.want[f]}
          [] op.kind = "capture" /\ result.tag = "applied" ->
               \A f \in CaptureFields : \A i \in At("main", f) :
                 /\ result.values[f] = {tree[i].val}
                 /\ tree[i].val = IF licensed /\ f \in DOMAIN op.want THEN op.want[f]
                                  ELSE start[i].val
          [] OTHER -> TRUE

\* What the capabilities offer as a label, the setter can have: the positions of
\* the options, of the refused ones and of the selection are those of one list, if
\* it is the list of the block that is written.
OffersAreAccepted ==
  op.kind = "label" => \A f \in LabelFields : LET caps == from_trees({tree}, {}) IN
    \A l \in caps.offered[f], b \in find_block_name_carrying_field(tree, "centerfreq0") :
      ReportedOf(b, f) => from_trees({Written(tree, b, "device", f :> l)}, {}).selected[f] = {l}

\* The block a write is addressed to, the one its read-back is read from and the
\* first field of that name in the mission belong together, though one search keeps
\* to blocks and the other to names: where every block has a name of its own, what a
\* capture reads back is the field that was discovered.
DiscoveryFindsTheField ==
  Finished /\ ~meddled /\ op.kind = "capture" =>
    LET Enclosed == {i \in NamedIn(tree, Items(tree), "centerfreq0") : Enclosing(tree, i) # {}}
        Unique   == \A i, j \in Items(tree) :
                      tree[i].name \in Blocks /\ tree[i].name = tree[j].name => i = j
    IN  /\ block # {} => Enclosed # {}
        /\ result.tag = "applied" /\ Unique =>
             result.values["centerfreq0"] = {tree[i].val : i \in First(Enclosed)}

\* A device's capabilities are those of the receiver that writes go to, not of the
\* block the mission lists first, and what one of the two reads says does not hang on
\* the other.
CapabilitiesAreTheReceivers ==
  result.tag = "capabilities" /\ ~meddled =>
    LET receiver == find_block_name_carrying_field(tree, "centerfreq0")
        health   == from_trees({}, {op.health})
    IN  \/ result.caps.model = health.model /\ result.caps.native_iq_rate_hz = health.native_iq_rate_hz
        \/ met # {} /\ result.caps.native_iq_rate_hz = {} /\
             IF result.asked = "ok" /\ receiver # {}
             THEN /\ result.caps.model = receiver
                  /\ result.caps.center_frequency_hz =
                       UNION {tree[i].span : i \in UNION {Target(tree, b, "main", "centerfreq0") : b \in receiver}}
             ELSE result.asked = "ok" \/ result.caps.model = {}

\* The sensors are those of one block, the first the health summaries are about,
\* and the two readings of its loss counters agree ("could ... pair one block's
\* status with another block's temperatures").  A block is cleared only of what it
\* reported.
SensorsAreOfOneBlock ==
  result.tag = "health" /\ ~meddled =>
    LET owners == DOMAIN result.blocks
        Reported(rates) == {c \in Counters : rates[c] # {}}
    IN  /\ owners = {} => result.seen.temp = {} /\ Reported(result.seen.rates) = {}
        /\ owners # {} => /\ result.blocks[Min(owners)].rates = result.seen.rates
                          /\ \A i \in result.seen.temp : tree[tree[i].up].up = Min(owners)
        /\ \A g \in owners :
             LET rates == result.blocks[g].rates IN
             losing_nothing(rates) = {TRUE} =>
               Reported(rates) # {} /\ \A c \in Reported(rates) : rates[c] = {0}
===============================================================================
