------------------------------- MODULE PollCycle -------------------------------
(***************************************************************************)
(* One polled register and the synthetic switch derived from it, on their  *)
(* way from the inverter to the broker and the web UI, and back.           *)
(*                                                                         *)
(* charge_limit (or discharge_limit) is polled with the config group by    *)
(* one goroutine (publishGroupOnce).  The switch has no register of its    *)
(* own: it is on while the limit is not zero, `off' writes 0, and `on'     *)
(* writes the last non-zero limit a poll has seen, or the configured value *)
(* before the first one.  Commands reach the inverter one at a time        *)
(* (module WriteQueue says why).                                           *)
(*                                                                         *)
(* Values are published on change: StatePublisher (external) keeps what    *)
(* the link last accepted, writes nothing for an equal value, and replays  *)
(* what it keeps when the broker comes back.                               *)
(***************************************************************************)
EXTENDS Naturals

CONSTANTS
    MaxLimit,     \* limits are 0..MaxLimit; 0 stands for "off"
    OnValue,      \* the configured value of the switch
    MaxCommands,  \* bound: commands given and outside changes together
    MaxConnects,  \* bound: reconnects to the broker
    MaxFaults,    \* bound: reads, writes and publishes that fail, restarts
    None

ASSUME ConstAssumption ==
    /\ MaxLimit \in Nat \ {0}
    /\ OnValue \in 1..MaxLimit
    /\ {MaxCommands, MaxConnects, MaxFaults} \subseteq Nat
    /\ None \notin 0..MaxLimit /\ None \notin {"true", "false"}

Key   == {"limit", "active"}
Limit == 0..MaxLimit

\* The switch's two commands, and a limit for the register itself.
Command == {"on", "off", "set"}

VARIABLES
    limit,       \* the register on the inverter
    lastActive,  \* Coordinator.lastActive, 0 when absent
    wpc, cmd,    \* dispatchWrite: control state, and the command
    target,      \* the value to write
    ppc,         \* control state of publishGroupOnce
    got,         \* the limit as this cycle read it
    todo,        \* keys this cycle has still to publish
    cache,       \* StatePublisher: what the link last accepted
    retained,    \* the broker's retained values
    shown,       \* the web UI's store
    replay,      \* keys StatePublisher.Republish has still to send
    link,        \* broker link: "up", "dead" (lost, not noticed), "down"
    setting,     \* history: the newest non-zero limit the inverter had
    learned,     \* history: a poll has seen it, and no `on' chose before that
    gaveUp,      \* history: a replay was refused on a live link
    commands, connects, faults  \* history: counts for the bounds

inverter == <<limit, setting>>
worker   == <<wpc, cmd, target>>
poller   == <<ppc, got, todo>>
memory   == <<lastActive, learned>>
plane    == <<cache, retained>>
session  == <<replay, link, connects, gaveUp>>
vars == <<inverter, worker, poller, memory, plane, session, shown, commands,
          faults>>

TypeOK ==
    /\ limit \in Limit /\ setting \in Limit
    /\ lastActive \in Limit
    /\ wpc \in {"idle", "dispatch", "write"}
    /\ cmd \in Command \cup {"none"}
    /\ target \in Limit
    /\ ppc \in {"idle", "apply", "store", "publish"}
    /\ got \in Limit
    /\ todo \subseteq Key /\ replay \subseteq Key
    /\ {cache["limit"], retained["limit"], shown["limit"]} \subseteq Limit \cup {None}
    /\ {cache["active"], retained["active"], shown["active"]}
            \subseteq {"true", "false", None}
    /\ link \in {"up", "dead", "down"}
    /\ learned \in BOOLEAN /\ gaveUp \in BOOLEAN
    /\ commands \in 0..MaxCommands
    /\ connects \in 0..MaxConnects
    /\ faults \in 0..MaxFaults

Nothing == [k \in Key |-> None]

\* A fresh daemon on a connected broker; the limit is whatever it is.
Init ==
    /\ limit \in Limit
    /\ setting = limit
    /\ lastActive = 0
    /\ learned = FALSE
    /\ wpc = "idle" /\ cmd = "none" /\ target = 0
    /\ ppc = "idle" /\ got = 0 /\ todo = {}
    /\ cache = Nothing /\ retained = Nothing /\ shown = Nothing
    /\ replay = {} /\ link = "up" /\ connects = 0 /\ gaveUp = FALSE
    /\ commands = 0 /\ faults = 0

Fail == faults < MaxFaults /\ faults' = faults + 1

-----------------------------------------------------------------------------
(* dispatchWrite *)

\* The worker takes a command; a plain one brings the value v.
DispatchWrite(c, v) ==
    /\ wpc = "idle" /\ commands < MaxCommands
    /\ commands' = commands + 1
    /\ cmd' = c
    /\ target' = v
    /\ wpc' = "dispatch"
    /\ UNCHANGED <<inverter, poller, memory, plane, session, shown, faults>>

ActiveTargetValue == IF lastActive > 0 THEN lastActive ELSE OnValue

\* handleVirtualWrite chooses the value.
HandleVirtualWrite ==
    /\ wpc = "dispatch"
    /\ target' = CASE cmd = "on" -> ActiveTargetValue
                   [] cmd = "off" -> 0
                   [] cmd = "set" -> target
    /\ wpc' = "write"
    /\ UNCHANGED <<inverter, cmd, poller, memory, plane, session, shown, commands,
                   faults>>

\* The register takes v.  A non-zero limit is a new setting, whoever wrote it.
WireWrite(v) ==
    /\ limit' = v
    /\ setting' = IF v > 0 THEN v ELSE setting
    /\ learned' = (learned /\ setting' = setting)

Done == wpc' = "idle" /\ cmd' = "none" /\ target' = 0

\* WriteRegisterByMQTT; a failed one may have been executed, and is tried
\* again from the start or given up.
WriteRegister ==
    /\ wpc = "write"
    /\ \/ WireWrite(target) /\ Done /\ UNCHANGED faults
       \/ /\ Fail
          /\ WireWrite(target) \/ UNCHANGED <<inverter, learned>>
          /\ \/ wpc' = "dispatch" /\ UNCHANGED <<cmd, target>>
             \/ Done
    /\ UNCHANGED <<poller, lastActive, plane, session, shown, commands>>

\* The panel or the vendor's app sets the limit, between any two steps.
OutsideChange(v) ==
    /\ v # limit /\ commands < MaxCommands
    /\ commands' = commands + 1
    /\ WireWrite(v)
    /\ UNCHANGED <<worker, poller, lastActive, plane, session, shown, faults>>

-----------------------------------------------------------------------------
(* publishGroupOnce *)

\* ReadGroup.  A cycle whose window failed has nothing to say of the limit.
ReadGroup ==
    /\ ppc = "idle"
    /\ \/ got' = limit /\ ppc' = "apply" /\ UNCHANGED faults
       \/ Fail /\ UNCHANGED <<got, ppc>>
    /\ UNCHANGED <<inverter, worker, todo, memory, plane, session, shown, commands>>

\* MUTANT: zero is remembered like any other value.
ApplyVirtualSwitchesAny ==
    /\ ppc = "apply"
    /\ lastActive' = got
    /\ learned' = (learned \/ (got = setting /\ ~(cmd = "on" /\ wpc = "write")))
    /\ ppc' = "store"
    /\ UNCHANGED <<inverter, worker, got, todo, plane, session, shown, commands,
                   faults>>

\* applyVirtualSwitches remembers a non-zero limit.  An `on' under way has
\* chosen its value already.
ApplyVirtualSwitches ==
    /\ ppc = "apply"
    /\ lastActive' = IF got > 0 THEN got ELSE lastActive
    /\ learned' = (learned \/ (got > 0 /\ got = setting
                                /\ ~(cmd = "on" /\ wpc = "write")))
    /\ ppc' = "store"
    /\ UNCHANGED <<inverter, worker, got, todo, plane, session, shown, commands,
                   faults>>

\* The value of each key that follows from this cycle's read.
Processed(k) == IF k = "limit" THEN got ELSE IF got > 0 THEN "true" ELSE "false"

StoreUpdateGroup ==
    /\ ppc = "store"
    /\ shown' = [k \in Key |-> Processed(k)]
    /\ todo' = Key
    /\ ppc' = "publish"
    /\ UNCHANGED <<inverter, worker, got, memory, plane, session, commands, faults>>

OnBroker(k, v) == IF link = "up" THEN [retained EXCEPT ![k] = v] ELSE retained

\* MUTANT: the gate remembers what it tried, not what was accepted.
PublishStatusOptimistic(k, v) ==
    \/ cache[k] = v /\ UNCHANGED <<plane, faults>>
    \/ /\ cache[k] # v
       /\ cache' = [cache EXCEPT ![k] = v]
       /\ \/ link # "down" /\ retained' = OnBroker(k, v) /\ UNCHANGED faults
          \/ link = "down" /\ UNCHANGED <<retained, faults>>
          \/ link # "down" /\ Fail /\ UNCHANGED retained

\* StatePublisher.PublishStatus: on change only, and remembered only when the
\* link accepted it.  A dead link accepts, and loses, what it is given.
PublishStatus(k, v) ==
    \/ cache[k] = v /\ UNCHANGED <<plane, faults>>
    \/ /\ cache[k] # v /\ link # "down"
       /\ cache' = [cache EXCEPT ![k] = v]
       /\ retained' = OnBroker(k, v)
       /\ UNCHANGED faults
    \/ cache[k] # v /\ link = "down" /\ UNCHANGED <<plane, faults>>
    \/ cache[k] # v /\ link # "down" /\ Fail /\ UNCHANGED plane

\* The values of one cycle are published in any order; an error is logged.
Publish(k) ==
    /\ ppc = "publish" /\ k \in todo
    /\ PublishStatus(k, Processed(k))
    /\ todo' = todo \ {k}
    /\ IF todo = {k} THEN ppc' = "idle" /\ got' = 0 ELSE UNCHANGED <<ppc, got>>
    /\ UNCHANGED <<inverter, worker, memory, session, shown, commands>>

-----------------------------------------------------------------------------
(* The broker, and the connect hook's replay *)

LinkDies ==
    /\ link = "up"
    /\ link' = "dead"
    /\ UNCHANGED <<inverter, worker, poller, memory, plane, replay, connects, gaveUp,
                   shown, commands, faults>>

LinkDrops ==
    /\ link # "down"
    /\ link' = "down"
    /\ UNCHANGED <<inverter, worker, poller, memory, plane, replay, connects, gaveUp,
                   shown, commands, faults>>

Replayed == {k \in Key : cache[k] # None}

\* A new connection, to a broker that may have lost its retained store;
\* PublishOnline ends in StatePublisher.Republish.
Reconnect ==
    /\ link = "down" /\ replay = {} /\ connects < MaxConnects
    /\ connects' = connects + 1
    /\ link' = "up"
    /\ retained' \in {retained, Nothing}
    /\ replay' = Replayed
    /\ UNCHANGED <<inverter, worker, poller, memory, cache, gaveUp, shown, commands,
                   faults>>

\* The cached object of one key, as it is when its turn comes.
Republish(k) ==
    /\ k \in replay
    /\ replay' = replay \ {k}
    /\ \/ link # "down" /\ retained' = OnBroker(k, cache[k]) /\ UNCHANGED <<faults, gaveUp>>
       \/ link = "down" /\ UNCHANGED <<retained, faults, gaveUp>>
       \/ link # "down" /\ Fail /\ gaveUp' = TRUE /\ UNCHANGED retained
    /\ UNCHANGED <<inverter, worker, poller, memory, cache, link, connects, shown,
                   commands>>

\* The daemon stops, or dies, and starts again: what it knew is gone.
Restart ==
    /\ Fail
    /\ lastActive' = 0 /\ learned' = FALSE
    /\ wpc' = "idle" /\ cmd' = "none" /\ target' = 0
    /\ ppc' = "idle" /\ got' = 0 /\ todo' = {}
    /\ cache' = Nothing /\ shown' = Nothing /\ replay' = {}
    /\ link' = "up" /\ gaveUp' = FALSE
    /\ UNCHANGED <<inverter, retained, connects, commands>>

-----------------------------------------------------------------------------
PollStep ==
    \/ ReadGroup \/ ApplyVirtualSwitches \/ StoreUpdateGroup
    \/ \E k \in Key : Publish(k)

WriteStep == HandleVirtualWrite \/ WriteRegister

ReplayStep == \E k \in Key : Republish(k)

Next ==
    \/ PollStep
    \/ WriteStep
    \/ \E v \in 1..MaxLimit : DispatchWrite("set", v)
    \/ \E c \in {"on", "off"} : DispatchWrite(c, 0)
    \/ \E v \in Limit : OutsideChange(v)
    \/ ReplayStep
    \/ LinkDies \/ LinkDrops \/ Reconnect \/ Restart

\* Polls recur, the connect hook runs to its end, and so does a write.
Fairness ==
    /\ WF_vars(PollStep)
    /\ WF_vars(ReplayStep)
    /\ WF_vars(WriteStep)

Spec == Init /\ [][Next]_vars /\ Fairness

-----------------------------------------------------------------------------
(* Properties *)

\* The switch gives the limit back that it took: whatever it was switched,
\* how often, which writes failed or lost their answer, and what was set
\* elsewhere between, the write of an `on' never changes the newest limit to
\* another one - once a poll has seen that.
Restores ==
    [][learned /\ cmd = "on" /\ WriteRegister => setting' = setting]_vars

Truth(k, v) == IF k = "limit" THEN v ELSE IF v > 0 THEN "true" ELSE "false"

\* Published on change is published in the end: once the limit settles and
\* the broker stays, its retained values and the web UI end on the truth and
\* stay there, whatever was refused, lost, replayed or forgotten before.
Mirrors ==
    \A v \in Limit :
        <>[](limit = v /\ link = "up" /\ ~gaveUp)
            => <>[](\A k \in Key : retained[k] = Truth(k, v) /\ shown[k] = Truth(k, v))
=============================================================================
