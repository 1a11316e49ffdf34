---------------------------- MODULE MCRemoteConfig ----------------------------
(***************************************************************************)
(* Missions: one receiver in a scene behind the HTTP server's block; two   *)
(* receivers; one whose block is in another; one behind a block that has a *)
(* clock source of its own; none.                                          *)
(***************************************************************************)
EXTENDS Integers, Sequences, FiniteSets, FiniteSetsExt, TLC

Item(name, kind, above, val) ==
  [name |-> name, kind |-> kind, up |-> IF above = {} THEN 0 ELSE Max(above), above |-> above,
   val |-> val, span |-> {}, labels |-> <<>>, refused |-> {}]
Group(name, above) == Item(name, "group", above, 0)
Bounded(name, above, val, lo, hi) == [Item(name, "float", above, val) EXCEPT !.span = {<<lo, hi>>}]
Enumerated(name, above, val, labels, refused) ==
  [Item(name, "enum", above, val) EXCEPT !.labels = labels, !.refused = refused]

\* A receiver's items, its block at position n in the groups around.
Receiver(name, n, around) ==
  LET in == around \cup {n}  config == in \cup {n + 3}
      main == config \cup {n + 4}  device == config \cup {n + 8}
  IN  << Group(name, around), Group("info", in), Item("title", "string", in \cup {n + 1}, name),
         Group("config", in), Group("main", config), Bounded("centerfreq0", main, 5, 1, 9),
         Enumerated("decimation0", main, 0, <<"Full", "1 / 2">>, {}),
         Bounded("reflevel0", main, 0, 0, 0), Group("device", config),
         Enumerated("sclksource", device, 0, <<"Osc", "", "GPS", "10MHz">>, {3}),
         Enumerated("gpsmode", device, 0, <<"Off", "Time">>, {}) >>
Server == << Group("root", {}), Group("Block_Http", {1}), Group("info", {1, 2}),
             Item("title", "string", {1, 2, 3}, "HTTP Server") >>

MCMissions ==
  { Server,
    Server \o << Group("scene", {1}) >> \o Receiver("Block_Eco", 6, {1, 5}),
    Server \o Receiver("Block_Eco", 5, {1}) \o Receiver("Block_IQDemodulator_0", 16, {1}),
    Server \o << Group("Block_IQDemodulator_0", {1}), Group("config", {1, 5}) >>
           \o Receiver("Block_Eco", 7, {1, 5, 6}),
    Server \o << Group("Block_Player", {1}), Group("config", {1, 5}), Group("device", {1, 5, 6}),
                 Enumerated("sclksource", {1, 5, 6, 7}, 0, <<"Osc", "GPS">>, {}) >>
           \o Receiver("Block_Eco", 9, {1}) }
Health == << Group("root", {}), Group("Block_Http", {1}), Group("info", {1, 2}),
             Item("devname", "string", {1, 2, 3}, "HTTP Server"),
             Group("Block_Eco", {1}), Group("info", {1, 5}),
             Item("devname", "string", {1, 5, 6}, "V6 ECO"), Group("status", {1, 5}),
             Item("devstate", "string", {1, 5, 8}, "Running"), Item("iqsamples", "float", {1, 5, 8}, 61) >>

(***************************************************************************)
(* Every tree of four items: blocks, two of them of one name, another group  *)
(* and a field; status groups, a block, health, a counter, a sensor.        *)
(***************************************************************************)
GroupNames == {"Block_Eco", "Block_Http", "config", "status", "health"}
\* An item is in the item before it or in a group that one is in.
Shapes(n) ==
  {u \in [1..n -> 0..n - 1] :
     /\ u[1] = 0
     /\ \A i \in 2..n : /\ u[i] \in 1..i - 1
                        /\ \A j \in u[i] + 1..i - 1 : u[j] >= u[i]}
Nestings(n) ==
  {[i \in 1..n |-> LET above[j \in 1..n] == IF u[j] = 0 THEN {} ELSE {u[j]} \cup above[u[j]]
                   IN  above[i]] : u \in Shapes(n)}
Labelled(above, label) ==
  [i \in DOMAIN above |->
     IF i = 1 THEN Group("root", {})
     ELSE IF label[i] \in GroupNames THEN Group(label[i], above[i])
     ELSE Item(label[i], "float", above[i], IF label[i] = "errors" /\ i % 2 = 0 THEN 0 ELSE i)]
Sized(n, names, among) ==
  {Labelled(p[1], p[2]) :
     p \in {q \in Nestings(n) \X [2..n -> names] :
              /\ \E i \in 2..n : q[2][i] = among
              /\ \A i \in 3..n : q[1][i] = {1} \/ q[2][Max(q[1][i])] \in GroupNames}}
ConfigTrees == Sized(5, {"Block_Eco", "Block_Http", "config", "centerfreq0"}, "centerfreq0")
HealthTrees == Sized(5, {"Block_Eco", "status", "health", "errors", "fpgatemp"}, "status")

MCBlocks == {"Block_Http", "Block_Eco", "Block_IQDemodulator_0", "Block_Player"}

Nothing == [f \in {} |-> 0]
Requests ==
  {[kind |-> "capture", want |-> w] :
     w \in {Nothing, "centerfreq0" :> 7, ("decimation0" :> 1) @@ ("reflevel0" :> 3)}}
  \cup {[kind |-> "label", want |-> w] :
     w \in {"sclksource" :> "10MHz", "sclksource" :> "GPS", "gpsmode" :> "Time"}}
  \cup {[kind |-> k, field |-> "reflevel0", path |-> FALSE] : k \in {"verify", "probe"}}
  \cup {[kind |-> "verify", field |-> "reflevel0", path |-> TRUE], [kind |-> "detect"],
        [kind |-> "capabilities", health |-> Health]}
MCCalls ==
  [op : Requests, tree : MCMissions]
  \cup [op : {[kind |-> "capture", want |-> Nothing]}, tree : ConfigTrees]
  \cup [op : {[kind |-> "health"]}, tree : HealthTrees]
MCOthers == {[group |-> "main", want |-> "reflevel0" :> 5],
             [group |-> "device", want |-> "sclksource" :> "Osc"]}
===============================================================================
