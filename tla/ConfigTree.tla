------------------------------ MODULE ConfigTree ------------------------------
(***************************************************************************)
(* What http_endpoints.rs looks up in the trees an RTSA server answers     *)
(* with: /remoteconfig, where every block of the mission has its fields,   *)
(* and /healthstatus.                                                      *)
(*                                                                         *)
(* A tree is the sequence of its items in pre-order, the root first.  An   *)
(* item has its name, its kind, the positions of the groups it is in and   *)
(* of the innermost of them, its value and, for a number, the bounds it    *)
(* declares ({} or one pair), for an enum its labels and the positions it  *)
(* refuses.  An absent answer is the empty set, one that is there a set of *)
(* one.                                                                    *)
(***************************************************************************)
EXTENDS Integers, Sequences, FiniteSets, FiniteSetsExt

CONSTANT Blocks      \* names that start with "Block_"

Numeric == {"float", "number", "integer"}
NoLabel == ""

First(S) == IF S = {} THEN {} ELSE {Min(S)}

Below(t, g) == {i \in DOMAIN t : g \in t[i].above}
Groups(t, S) == {i \in S : t[i].kind = "group"}
Leaves(t, S) == {i \in S : t[i].kind # "group"}
NamedIn(t, S, want) == {i \in S : t[i].name = want}
Items(t) == DOMAIN t \ {1}

(***************************************************************************)
(* Discovery of the block a write must name, on the untyped document: its  *)
(* items, without the root.                                                *)
(***************************************************************************)
Enclosing(t, i) == {j \in t[i].above : t[j].name \in Blocks}

\* The nearest block around the first item of that name that is in a block.
find_block_name_carrying_field(t, field) ==
  {t[Max(Enclosing(t, i))].name :
     i \in First({j \in NamedIn(t, Items(t), field) : Enclosing(t, j) # {}})}

\* A search that stops at the first item of a name in a list of items, whether or
\* not that item has what is asked for: those it gets to.
Reached(t, S, want) ==
  {i \in NamedIn(t, S, want) :
     ~\E j \in NamedIn(t, S, want) :
        j < i /\ \E k \in {i} \cup t[i].above : t[j].up = t[k].up}

find_group_items(t, name) == First(Groups(t, Reached(t, Items(t), name)))

read_config_leaf_value(t, g, field) ==
  {t[i].val : i \in First({j \in Reached(t, Below(t, g), field) :
                             t[j].kind \in Numeric \cup {"enum"}})}

(***************************************************************************)
(* The typed tree.                                                         *)
(***************************************************************************)
extract_parameter_value(t, target) ==
  {t[i].val : i \in First({j \in NamedIn(t, DOMAIN t, target) : t[j].kind \in {"float", "number"}})}

\* The block of the mission that owns a leaf of that name, or the whole tree.
device_block(t, marker) ==
  LET carriers == {b \in Groups(t, DOMAIN t) :
                     t[b].up = 1 /\ NamedIn(t, Leaves(t, Below(t, b)), marker) # {}}
  IN  IF carriers = {} THEN 1 ELSE Min(carriers)

find_group(t, b, want) == First(NamedIn(t, Groups(t, {b} \cup Below(t, b)), want))

Child(t, g, want, kinds) == First({i \in DOMAIN t : t[i].up = g /\ t[i].name = want /\ t[i].kind \in kinds})
number_named(t, g, want) == {t[i].val : i \in Child(t, g, want, Numeric)}
string_named(t, g, want) == {t[i].val : i \in Child(t, g, want, {"string"})}

\* The bounds of the first numeric item that declares usable ones.
range_of(t, want) ==
  UNION {t[i].span : i \in First({j \in NamedIn(t, DOMAIN t, want) :
           t[j].kind \in {"float", "number"} /\ \E s \in t[j].span : s[1] < s[2]})}

(***************************************************************************)
(* The options of the first enum of that name, without blanks and refused  *)
(* ones, and the one its value selects, counted with them.                 *)
(***************************************************************************)
Enum(t, want) == First({i \in NamedIn(t, DOMAIN t, want) : t[i].kind = "enum"})
Selected(t, i) ==
  IF t[i].val + 1 \in DOMAIN t[i].labels THEN {t[i].labels[t[i].val + 1]} \ {NoLabel} ELSE {}
Offered(t, i) == {t[i].labels[k] : k \in DOMAIN t[i].labels \ t[i].refused} \ {NoLabel}
enum_options(t, want) ==
  [options  |-> UNION {Offered(t, i) : i \in Enum(t, want)},
   selected |-> UNION {Selected(t, i) : i \in Enum(t, want)}]

(***************************************************************************)
(* What the device says about itself; either tree may be missing.          *)
(***************************************************************************)
from_trees(config, health) ==
  LET Info(t, marker) == find_group(t, device_block(t, marker), "info")
      Text(t, marker, key) == UNION {string_named(t, g, key) : g \in Info(t, marker)}
      devname == UNION {Text(h, "devstate", "devname") : h \in health}
      title   == UNION {Text(c, "centerfreq0", "title") : c \in config}
      Options(field) == {enum_options(c, field) : c \in config}
  IN  [model               |-> IF devname # {} THEN devname ELSE title,
       center_frequency_hz |-> UNION {range_of(c, "centerfreq0") : c \in config},
       reference_level_dbm |-> UNION {range_of(c, "reflevel0") : c \in config},
       decimation_steps    |-> {Cardinality(o.options) : o \in Options("decimation0")} \ {0},
       offered  |-> [f \in {"sclksource", "gpsmode"} |-> UNION {o.options : o \in Options(f)}],
       selected |-> [f \in {"sclksource", "gpsmode"} |-> UNION {o.selected : o \in Options(f)}],
       native_iq_rate_hz   |->
         UNION {UNION {number_named(h, s, "iqsamples") :
                         s \in find_group(h, device_block(h, "devstate"), "status")} : h \in health}]

(***************************************************************************)
(* Health: the loss counters of each block that has a status group, and    *)
(* the sensors of the first.                                               *)
(***************************************************************************)
Counters == {"errors", "usboverflows", "dsboverflows"}
LossThreshold == 1     \* events a second: a rate is below it or not

StatusOf(t, g) == Child(t, g, "status", {"group"})
Summary(t, g) ==
  [block |-> t[g].name,
   rates |-> [c \in Counters |-> UNION {number_named(t, s, c) : s \in StatusOf(t, g)}]]
WithStatus(t) == {g \in Groups(t, DOMAIN t) : StatusOf(t, g) # {}}

\* By the block's position, in tree order.
health_summaries(t) == [g \in WithStatus(t) |-> Summary(t, g)]

losing_nothing(rates) ==
  IF \A c \in Counters : rates[c] = {}
  THEN {}
  ELSE {\A c \in Counters : \A r \in rates[c] : r < LossThreshold}

sensors(t) ==
  LET block == First(WithStatus(t))
      Pick(want, key) == UNION {UNION {number_named(t, g, key) : g \in Child(t, b, want, {"group"})}
                                : b \in block}
  IN  [temp |-> Pick("health", "fpgatemp"), rates |-> [c \in Counters |-> Pick("status", c)]]
===============================================================================
