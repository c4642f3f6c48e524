----------------------------- MODULE Availability -----------------------------
(***************************************************************************)
(* The two retained topics that say whether the bridge and the inverter    *)
(* are there: `<name>/connected' (0 bridge gone, 1 bridge up, 2 inverter   *)
(* reachable too) and the device's `online' item.                          *)
(*                                                                         *)
(* Several goroutines report what they see of the Modbus link              *)
(* (updateUpstream, after every group read and around every reconnect);    *)
(* the MQTT connect hook (PublishOnline) replaces the runtime and          *)
(* announces everything again; the broker itself publishes the will, 0,    *)
(* when a connection breaks; a clean shutdown publishes 0 before it        *)
(* disconnects (PublishOffline).                                           *)
(*                                                                         *)
(* External, modelled from their use: publisher.Runtime starts at level 1, *)
(* SetConnected publishes transitions only, AnnounceOnline publishes the   *)
(* level it is at, a closed runtime publishes nothing; StatePublisher      *)
(* keeps accepted values only.                                             *)
(***************************************************************************)
EXTENDS Naturals

CONSTANTS
    Observer,     \* goroutines that call updateUpstream
    MaxFlips,     \* bound: changes of the Modbus link
    MaxConnects,  \* bound: reconnects to the broker
    MaxFaults     \* bound: publishes refused although the link is up

ASSUME ConstAssumption ==
    /\ Observer # {}
    /\ {MaxFlips, MaxConnects, MaxFaults} \subseteq Nat

VARIABLES
    modbus,      \* Modbus.IsConnected
    upstreamUp,  \* Coordinator.upstreamUp
    serial,      \* the STATIC read has stored the serial
    opc, saw,    \* updateUpstream: control state, and the value it read
    hook,        \* control state of PublishOnline
    hookSaw,     \* the link as PublishOnline read it
    hookLevel,   \* the branch announceConnected took
    level,       \* level of the current runtime
    cache,       \* `online' as StatePublisher last had it accepted
    link,        \* broker link: "up", "dead" (lost, not noticed), "down", "closed"
    connected,   \* retained `<name>/connected'
    online,      \* retained `online' item
    daemon,      \* "running", "stopping", "offline", "stopped"
    late,        \* history: PublishOnline was running after PublishOffline
    flips, connects, faults  \* history: counts for the bounds

upstream  == <<modbus, upstreamUp, serial, flips>>
observers == <<opc, saw>>
hookVars  == <<hook, hookSaw, hookLevel>>
retained  == <<connected, online>>
session   == <<link, connects>>
vars == <<upstream, observers, hookVars, level, cache, session, retained,
          daemon, late, faults>>

TypeOK ==
    /\ {modbus, upstreamUp, serial, hookSaw, late} \subseteq BOOLEAN
    /\ opc \in [Observer -> {"idle", "store", "set", "online"}]
    /\ saw \in [Observer -> BOOLEAN]
    /\ hook \in {"idle", "swap", "load", "store", "choose", "announce", "online",
                 "republish"}
    /\ hookLevel \in {"1", "2"}
    /\ level \in {"1", "2"}
    /\ cache \in {"none", "true", "false"}
    /\ link \in {"up", "dead", "down", "closed"}
    /\ connected \in {"none", "0", "1", "2"}
    /\ online \in {"none", "true", "false"}
    /\ daemon \in {"running", "stopping", "offline", "stopped"}
    /\ flips \in 0..MaxFlips
    /\ connects \in 0..MaxConnects
    /\ faults \in 0..MaxFaults

\* The first connect has announced level 1; Run has not reached the inverter.
Init ==
    /\ modbus = FALSE
    /\ upstreamUp = FALSE
    /\ serial = FALSE
    /\ opc = [p \in Observer |-> "idle"]
    /\ saw = [p \in Observer |-> FALSE]
    /\ hook = "idle"
    /\ hookSaw = FALSE
    /\ hookLevel = "1"
    /\ level = "1"
    /\ cache = "none"
    /\ link = "up"
    /\ connected = "1"
    /\ online = "none"
    /\ daemon = "running"
    /\ late = FALSE
    /\ flips = 0
    /\ connects = 0
    /\ faults = 0

-----------------------------------------------------------------------------
(* Publishing *)

\* The two reports of the inverter's reachability.
Level(up) == IF up THEN "2" ELSE "1"
Item(up)  == IF up THEN "true" ELSE "false"

Refused ==
    \/ link \in {"down", "closed"} /\ UNCHANGED faults
    \/ link \in {"up", "dead"} /\ faults < MaxFaults /\ faults' = faults + 1

\* Accepted at QoS 0: lost on a link that is dead.
Accepted == link \in {"up", "dead"} /\ UNCHANGED faults

OnBroker(new, old) == IF link = "up" THEN new ELSE old

\* Runtime.SetConnected: transitions only.
SetConnected(v) ==
    \/ level = v /\ UNCHANGED <<level, connected, faults>>
    \/ level # v /\ Accepted /\ level' = v /\ connected' = OnBroker(v, connected)
    \/ level # v /\ Refused /\ UNCHANGED <<level, connected>>

\* Runtime.AnnounceOnline
AnnounceOnline ==
    /\ UNCHANGED level
    /\ \/ Accepted /\ connected' = OnBroker(level, connected)
       \/ Refused /\ UNCHANGED connected

\* publishDeviceOnline, deduplicated by the state plane.
PublishDeviceOnline(up) ==
    IF serial /\ cache # Item(up)
    THEN \/ /\ Accepted
            /\ cache' = Item(up)
            /\ online' = OnBroker(Item(up), online)
         \/ Refused /\ UNCHANGED <<cache, online>>
    ELSE UNCHANGED <<cache, online, faults>>

-----------------------------------------------------------------------------
(* updateUpstream *)

\* Before the serial is known only Run itself observes.
Observe(p) ==
    /\ daemon = "running" /\ opc[p] = "idle"
    /\ serial \/ \A q \in Observer : opc[q] = "idle"
    /\ saw' = [saw EXCEPT ![p] = modbus]
    /\ opc' = [opc EXCEPT ![p] = "store"]
    /\ UNCHANGED <<upstream, hookVars, level, cache, session, retained, daemon,
                   late, faults>>

\* MUTANT: nothing is published unless the stored value changes.
ObserveStoreOnChange(p) ==
    /\ opc[p] = "store"
    /\ upstreamUp' = saw[p]
    /\ opc' = [opc EXCEPT ![p] = IF saw[p] = upstreamUp THEN "idle" ELSE "set"]
    /\ UNCHANGED <<modbus, serial, flips, saw, hookVars, level, cache, session,
                   retained, daemon, late, faults>>

ObserveStore(p) ==
    /\ opc[p] = "store"
    /\ upstreamUp' = saw[p]
    /\ opc' = [opc EXCEPT ![p] = "set"]
    /\ UNCHANGED <<modbus, serial, flips, saw, hookVars, level, cache, session,
                   retained, daemon, late, faults>>

ObserveSet(p) ==
    /\ opc[p] = "set"
    /\ SetConnected(Level(saw[p]))
    /\ opc' = [opc EXCEPT ![p] = "online"]
    /\ UNCHANGED <<upstream, saw, hookVars, cache, session, online, daemon, late>>

ObserveOnline(p) ==
    /\ opc[p] = "online"
    /\ PublishDeviceOnline(saw[p])
    /\ opc' = [opc EXCEPT ![p] = "idle"]
    /\ UNCHANGED <<upstream, saw, hookVars, level, session, connected, daemon, late>>

-----------------------------------------------------------------------------
(* PublishOnline *)

\* resetHAPlane: a fresh runtime.
HookSwap ==
    /\ hook = "swap"
    /\ level' = "1"
    /\ hook' = "load"
    /\ UNCHANGED <<upstream, observers, hookSaw, hookLevel, cache, session,
                   retained, daemon, late, faults>>

HookLoad ==
    /\ hook = "load"
    /\ hookSaw' = modbus
    /\ hook' = "store"
    /\ UNCHANGED <<upstream, observers, hookLevel, level, cache, session, retained,
                   daemon, late, faults>>

HookStore ==
    /\ hook = "store"
    /\ upstreamUp' = hookSaw
    /\ hook' = "choose"
    /\ UNCHANGED <<modbus, serial, flips, observers, hookSaw, hookLevel, level,
                   cache, session, retained, daemon, late, faults>>

\* announceConnected branches on upstreamUp ...
HookChoose ==
    /\ hook = "choose"
    /\ hookLevel' = Level(upstreamUp)
    /\ hook' = "announce"
    /\ UNCHANGED <<upstream, observers, hookSaw, level, cache, session, retained,
                   daemon, late, faults>>

\* MUTANT: the bridge is always announced first, at the level of the new
\* runtime; the next observation publishes the inverter's level.
HookAnnounceBridge ==
    /\ hook = "announce"
    /\ AnnounceOnline
    /\ hook' = "online"
    /\ UNCHANGED <<upstream, observers, hookSaw, hookLevel, cache, session, online,
                   daemon, late>>

\* ... and publishes exactly one message.
HookAnnounce ==
    /\ hook = "announce"
    /\ IF hookLevel = "2" THEN SetConnected("2") ELSE AnnounceOnline
    /\ hook' = "online"
    /\ UNCHANGED <<upstream, observers, hookSaw, hookLevel, cache, session, online,
                   daemon, late>>

HookOnline ==
    /\ hook = "online"
    /\ PublishDeviceOnline(hookSaw)
    /\ hook' = "republish"
    /\ UNCHANGED <<upstream, observers, hookSaw, hookLevel, level, session,
                   connected, daemon, late>>

\* StatePlane.Republish replays what was accepted.
HookRepublish ==
    /\ hook = "republish"
    /\ \/ Accepted /\ online' = OnBroker(cache, online)
       \/ Refused /\ UNCHANGED online
    /\ hook' = "idle"
    /\ UNCHANGED <<upstream, observers, hookSaw, hookLevel, level, cache, session,
                   connected, daemon, late>>

-----------------------------------------------------------------------------
(* Shutdown *)

\* The context ends; Run returns once the pollers have.
Cancel ==
    /\ daemon = "running"
    /\ daemon' = "stopping"
    /\ UNCHANGED <<upstream, observers, hookVars, level, cache, session, retained,
                   late, faults>>

\* Runtime.AnnounceOffline, accepted.
AnnounceOffline == connected' = OnBroker("0", connected)

\* MUTANT: the clean shutdown leaves it to the will.
PublishOfflineNever ==
    /\ daemon = "stopping" /\ \A p \in Observer : opc[p] = "idle"
    /\ daemon' = "offline"
    /\ late' = (hook # "idle")
    /\ UNCHANGED <<upstream, observers, hookVars, level, cache, session, retained,
                   faults>>

PublishOffline ==
    /\ daemon = "stopping" /\ \A p \in Observer : opc[p] = "idle"
    /\ \/ Accepted /\ AnnounceOffline
       \/ Refused /\ UNCHANGED connected
    /\ daemon' = "offline"
    /\ late' = (hook # "idle")
    /\ UNCHANGED <<upstream, observers, hookVars, level, cache, session, online>>

\* Lifecycle.Stop: a clean DISCONNECT suppresses the will; on a dead link the
\* broker never sees it.
Stop ==
    /\ daemon = "offline"
    /\ daemon' = "stopped"
    /\ link' = "closed"
    /\ connected' = IF link = "dead" THEN "0" ELSE connected
    /\ UNCHANGED <<upstream, observers, hookVars, level, cache, connects, online,
                   late, faults>>

-----------------------------------------------------------------------------
(* Surroundings *)

\* The Modbus transport poisons the connection, or the watchdog restores it.
ModbusFlips ==
    /\ flips < MaxFlips
    /\ flips' = flips + 1
    /\ modbus' = ~modbus
    /\ UNCHANGED <<upstreamUp, serial, observers, hookVars, level, cache, session,
                   retained, daemon, late, faults>>

\* waitForStatic; Run itself is not inside updateUpstream then.
SerialLearned ==
    /\ ~serial /\ modbus /\ daemon = "running"
    /\ \A p \in Observer : opc[p] = "idle"
    /\ serial' = TRUE
    /\ UNCHANGED <<modbus, upstreamUp, flips, observers, hookVars, level, cache,
                   session, retained, daemon, late, faults>>

LinkDies ==
    /\ link = "up"
    /\ link' = "dead"
    /\ UNCHANGED <<upstream, observers, hookVars, level, cache, connects, retained,
                   daemon, late, faults>>

\* The broken connection is noticed on both sides: the will is published.
LinkDrops ==
    /\ link \in {"up", "dead"}
    /\ link' = "down"
    /\ connected' = "0"
    /\ UNCHANGED <<upstream, observers, hookVars, level, cache, connects, online,
                   daemon, late, faults>>

\* The lifecycle reconnects; the broker may have lost its retained messages.
Reconnect ==
    /\ link = "down" /\ hook = "idle" /\ connects < MaxConnects
    /\ connects' = connects + 1
    /\ link' = "up"
    /\ \/ UNCHANGED retained
       \/ connected' = "none" /\ online' = "none"
    /\ hook' = "swap"
    /\ late' = (daemon = "offline")
    /\ UNCHANGED <<upstream, observers, hookSaw, hookLevel, level, cache, daemon,
                   faults>>

-----------------------------------------------------------------------------
ObserverStep(p) == Observe(p) \/ ObserveStore(p) \/ ObserveSet(p) \/ ObserveOnline(p)

HookStep ==
    \/ HookSwap \/ HookLoad \/ HookStore \/ HookChoose
    \/ HookAnnounce \/ HookOnline \/ HookRepublish

Next ==
    \/ \E p \in Observer : ObserverStep(p)
    \/ HookStep
    \/ Cancel \/ PublishOffline \/ Stop
    \/ ModbusFlips \/ SerialLearned
    \/ LinkDies \/ LinkDrops \/ Reconnect

\* Polls recur, and the hook runs to its end.
Fairness ==
    /\ \A p \in Observer : WF_vars(ObserverStep(p))
    /\ WF_vars(HookStep)

Spec == Init /\ [][Next]_vars /\ Fairness

-----------------------------------------------------------------------------
(* Properties *)

\* Both topics end up telling the truth, and go on telling it, whatever order
\* the observers, the hook and the outages came in, provided no live link
\* refused a publish: a fresh runtime is at level 1, so an announcement of 1
\* that is refused is repeated by nobody.
Truthful ==
    \A up \in BOOLEAN :
        <>[](daemon = "running" /\ serial /\ link = "up" /\ modbus = up
                /\ faults = 0)
            => <>[](connected = Level(up) /\ online = Item(up))

\* Nobody holds an observation of an unreachable inverter.
AllSawUp ==
    /\ modbus /\ upstreamUp
    /\ \A p \in Observer : opc[p] # "idle" => saw[p]
    /\ hook \notin {"idle", "swap", "load"} => hookSaw
    /\ hook = "announce" => hookLevel = "2"

\* No flicker: while the inverter is reachable and known to be, nothing,
\* reconnects included, publishes a 1 that a 2 then overwrites.
NoFlicker == [][AllSawUp /\ connected # "1" => connected' # "1"]_vars

\* A daemon that stopped cleanly is shown as gone, unless a reconnect was
\* announcing it at that moment or the last publish was refused.
OfflineUnlessReconnecting ==
    daemon = "stopped" /\ ~late /\ faults = 0 => connected \in {"0", "none"}
=============================================================================
