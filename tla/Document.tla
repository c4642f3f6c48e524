-------------------------------- MODULE Document --------------------------------
(***************************************************************************)
(* What the daemon makes of a loaded catalog: the entities of the Home     *)
(* Assistant document (NewEntities), the items of the web UI, the topics   *)
(* both name, and the way of a command from its topic back to a register   *)
(* (the command router's routes, onSet, onEVCCSet, dispatchWrite).         *)
(*                                                                         *)
(* A topic is a sequence of levels, below the instance name and, for       *)
(* items, with the inverter's serial: "" stands for it.                    *)
(***************************************************************************)
EXTENDS CatalogLoad

CONSTANTS
    Split,       \* the texts with a "/", with the levels they are split into
    VirtualSet   \* the synthetic switches: records [key, group, target]

batteryModeWriteKey == "evcc/battery/batterymode"

\* A text with a "/" has two levels at least.  The synthetic switches are told
\* apart by their keys; what they are called has no "/".
ASSUME DocumentAssumption ==
    /\ \A t \in DOMAIN Split : Split[t] \in Seq(STRING) /\ Len(Split[t]) >= 2
    /\ batteryModeWriteKey \in DOMAIN Split
    /\ \A v \in VirtualSet : {v.key, v.group} \cap DOMAIN Split = {}
    /\ \A v, w \in VirtualSet : v.key = w.key => v = w

Levels(t) == IF t \in DOMAIN Split THEN Split[t] ELSE <<t>>

VirtualByKey(k) == {v \in VirtualSet : v.key = k}

\* outputKey: the MQTT key, or the name of a register without one.
outputKey(r) == IF r.mqtt # "" THEN r.mqtt ELSE r.name

-----------------------------------------------------------------------------
(* Topics *)

Item(group, key) == <<"">> \o Levels(group) \o Levels(key)

StateTopic(group, key) == <<"status">> \o Item(group, key)

CommandTopic(group, key) == <<"set">> \o Item(group, key)

CommandFilter == <<"set", "+", "+", "+">>

EVCCCommandFilter == <<"set", "+", "evcc", "+", "+">>

Matches(filter, topic) ==
    /\ Len(filter) = Len(topic)
    /\ \A i \in DOMAIN filter : filter[i] \in {"+", topic[i]}

-----------------------------------------------------------------------------
(* The document *)

HasHassHints(r) == r.component # "" \/ r.hints

\* The entities of a register: its control and a read-only view of it.  A
\* hass_component_type this builder does not know yields none.
Platforms(r) ==
    CASE r.component \in {"", "sensor"}  -> {"sensor"}
      [] r.component = "binary_sensor"   -> {"binary_sensor"}
      [] r.component = "number"          -> {"number", "sensor"}
      [] r.component = "select"          -> {"select", "sensor"}
      [] r.component = "switch"          -> {"switch", "binary_sensor"}
      [] OTHER                           -> {}

\* NewEntities; `of' is the register's place in the catalog, 0 for a synthetic
\* switch.
NewEntities ==
    (UNION {{[platform |-> p, key |-> all[i].mqtt, group |-> all[i].group, of |-> i] :
                p \in Platforms(all[i])} :
            i \in {j \in DOMAIN all : all[j].group # "" /\ HasHassHints(all[j])}})
    \cup {[platform |-> "switch", key |-> v.key, group |-> v.group, of |-> 0] : v \in VirtualSet}

\* The builders of controls bind RoleCommand.
Commanded(e) == e.platform \in {"number", "select", "switch"}

\* The library refuses a bundle with two components under one key.
Renders ==
    \A e, f \in NewEntities : e.platform = f.platform /\ e.key = f.key => e = f

\* buildBundle: what cannot be rendered is never published.
Components == IF Renders THEN NewEntities ELSE {}

\* adapter.Items: the writable registers and the synthetic switches.
Items ==
    {[key |-> outputKey(all[i]), of |-> i] : i \in {j \in DOMAIN all : all[j].writable}}
    \cup {[key |-> v.key, of |-> 0] : v \in VirtualSet}

-----------------------------------------------------------------------------
(* Polls *)

\* spawnPolls and secondaryGroups
PolledGroups ==
    {"now_base", "now_grid", "now_inverter", "now_backup", "now_battery", "now_pv",
     "day", "total", "config", "static"}

\* MUTANT: the name of a register is what its value is filed under.
OutputKeyName(r) == r.name

\* publishGroupOnce: the key a value of the group's cycle is published under.
PollKey(r) == outputKey(r)

\* PseudoRegisters: the keys a cycle of the group computes values for.
PseudoRegisters(group) ==
    CASE group = "now_base" -> {"consumption", "api_date"}
      [] group = "day"   -> {"consumption_day", "autarky_rate_day", "own_consumption_day"}
      [] group = "total" -> {"consumption_total", "autarky_rate_total", "own_consumption_total"}
      [] OTHER -> {}

\* A cycle has a value for the register: one it read, not replaced by one it
\* computed under the same key, or one it computed for a register without an
\* address.
Valued(r) ==
    /\ r.group \in PolledGroups
    /\ Modbus(r) <=> PollKey(r) \notin PseudoRegisters(r.group)

\* The registers whose values cycles publish to a topic; a synthetic switch's
\* state is derived from its target where that has one in the switch's group.
PublishedTo(topic) ==
    {r \in Elements(all) :
        /\ Valued(r)
        /\ \/ StateTopic(r.group, PollKey(r)) = topic
           \/ \E v \in VirtualSet :
                /\ StateTopic(v.group, v.key) = topic
                /\ r.group = v.group /\ r.mqtt = v.target}

-----------------------------------------------------------------------------
(* Commands *)

\* WriteRegisterByMQTT: the register it writes, if it writes one.
WritesRegister(key) == {r \in FindByMQTT(key) : r.writable /\ Modbus(r)}

modeKey == "mode"

\* MUTANT: the catalog is asked first.
DispatchCatalogFirst(key) ==
    IF FindByMQTT(key) # {} \/ VirtualByKey(key) # {} THEN WritesRegister(key)
    ELSE IF key = batteryModeWriteKey THEN WritesRegister(modeKey)
    ELSE {}

\* dispatchWrite: the registers a write request for the key may write.
DispatchWrite(key) ==
    IF VirtualByKey(key) # {}
    THEN UNION {WritesRegister(v.target) : v \in VirtualByKey(key)}
    ELSE IF key = batteryModeWriteKey THEN WritesRegister(modeKey)
    ELSE WritesRegister(key)

\* onSet and onEVCCSet: what each route the topic matches puts on the queue,
\* as the set of its keys.
Routed(topic) ==
    (IF Matches(CommandFilter, topic) THEN {topic[4]} ELSE {})
    \cup (IF Matches(EVCCCommandFilter, topic) /\ topic[4] = "battery" /\ topic[5] = "batterymode"
          THEN {batteryModeWriteKey} ELSE {})

RoutesOf(topic) == {f \in {CommandFilter, EVCCCommandFilter} : Matches(f, topic)}

-----------------------------------------------------------------------------
(* Properties *)

\* The loader keeps a key or group with a "/" and warns of it; a register named
\* like a synthetic switch is hidden behind it, one without an MQTT key has no
\* command topic, and its name may be another's key.  Nothing is promised there.
Plain(group, key) ==
    /\ key # "" /\ VirtualByKey(key) = {}
    /\ {group, key} \cap DOMAIN Split = {}
    /\ \A r \in Elements(all) : r.mqtt = "" => r.name # key

Target(of, key) ==
    IF of > 0 THEN {all[of]} ELSE UNION {FindByMQTT(v.target) : v \in VirtualByKey(key)}

\* A control drives what it shows.  Each control in the document sends its
\* command to a topic that exactly one route takes, and what the routed command
\* writes is the register whose polled value the control's state topic carries;
\* the same item of the web UI writes the same register; one that is not
\* writable refuses.  And evcc's battery mode reaches its own route only.
ControlsWhatItShows ==
    file = <<>> =>
        /\ \A e \in Components :
            Commanded(e) /\ (e.of = 0 \/ Plain(e.group, e.key)) =>
                LET topic == CommandTopic(e.group, e.key)
                    written == UNION {DispatchWrite(k) : k \in Routed(topic)}
                IN /\ RoutesOf(topic) = {CommandFilter}
                   /\ written = {r \in Target(e.of, e.key) : r.writable /\ Modbus(r)}
                   /\ \A i \in Items : i.of = e.of /\ i.key = e.key =>
                        DispatchWrite(i.key) = written
                   /\ written \cap PublishedTo(StateTopic(e.group, e.key)) =
                        {r \in written : Valued(r) /\ r.group = e.group}
        /\ RoutesOf(<<"set", "", "evcc", "battery", "batterymode">>) = {EVCCCommandFilter}

\* No entity of the document shows another register's value, and none is dead
\* for lack of a common topic: what is read from the inverter in a polled group,
\* under a key that is not a computed one, reaches the topic its entity reads,
\* and so does what is computed for a register without an address.  The others
\* stay dead - a register nobody reads and nobody computes, the catalog does not
\* keep them out - and their topic carries nothing.  A document is withheld only
\* for a register that is named like a synthetic switch or for two without an
\* MQTT key.
ShownWhereItIsPolled ==
    file = <<>> =>
        /\ \A e \in Components : e.of > 0 /\ Plain(e.group, e.key) =>
            LET r == all[e.of]
                shown == PublishedTo(StateTopic(e.group, e.key))
            IN /\ shown \subseteq {r}
               /\ e.group \in PolledGroups
                  /\ (Modbus(r) <=> e.key \notin PseudoRegisters(e.group)) => r \in shown
        /\ ~Renders => \E e \in NewEntities : e.of > 0 /\ ~Plain(e.group, e.key)
=============================================================================
