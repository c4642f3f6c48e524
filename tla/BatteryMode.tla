------------------------------ MODULE BatteryMode ------------------------------
(***************************************************************************)
(* The evcc battery mode: onEVCCSet admits a commanded mode, the write     *)
(* worker applies it (applyBatteryMode), evccWatchdog falls back to normal *)
(* when hold or charge is not re-sent in time.                             *)
(*                                                                         *)
(* hold and charge have an inverter operation mode of their own; normal    *)
(* restores the mode the inverter was in before it left normal.  The write *)
(* queue is the one of module WriteQueue, seen from its battery-mode       *)
(* entries: a FIFO whose oldest entry other traffic may push out.  Time is *)
(* left out except for `aged': more than EVCC_BATTERYMODE_TIMEOUT has      *)
(* passed since the last command.                                          *)
(*                                                                         *)
(* The mode in force is published as a retained topic, once at start-up    *)
(* and once after every change, through the publish-on-change cache and    *)
(* the reconnect replay that module PollCycle describes.                   *)
(***************************************************************************)
EXTENDS Naturals, Sequences

CONSTANTS
    OwnModes,      \* operation modes an operator may choose
    QueueCap,      \* capacity of writeQueue
    WriteRetries,  \* writeRetries
    MaxFaults,     \* bound: failed requests, refused publishes, evictions,
                   \* restarts and lost connections together
    TimeoutOn,     \* EVCC_BATTERYMODE_TIMEOUT > 0
    AnswersLost,   \* a write may be executed although its answer is lost
    None

Mode == {"normal", "hold", "charge"}

\* Mode.Code: the operation mode hold and charge run the inverter in.
Code == [hold |-> "economic", charge |-> "ups"]

OpMode == OwnModes \cup {Code[m] : m \in DOMAIN Code}

ASSUME ConstAssumption ==
    /\ OwnModes # {}
    /\ QueueCap \in Nat \ {0}
    /\ WriteRetries \in Nat \ {0}
    /\ MaxFaults \in Nat
    /\ TimeoutOn \in BOOLEAN
    /\ AnswersLost \in BOOLEAN
    /\ None \notin OpMode \cup Mode

VARIABLES
    mode,      \* evccState.mode, "unset" for ""
    saved,     \* evccState.saved, None while hasSaved is false
    aged,      \* now - evccState.lastCommand > timeout
    queue,     \* battery-mode entries of writeQueue
    admitted,  \* mode onEVCCSet is about to queue, None otherwise
    fallback,  \* evccWatchdog is about to queue normal
    wpc,       \* control state of applyBatteryMode on the write worker, or of
               \* Run about to publish the mode it starts with: "report"
    target,    \* argument of applyBatteryMode
    code,      \* the operation mode it read, None before
    tries,     \* attempt of dispatchWriteRetrying
    link,      \* broker link: "up", "dead" (lost, not noticed), "down"
    cached,    \* StatePublisher: what the link last accepted of the topic
    replay,    \* StatePublisher.Republish has still to send it
    shown,     \* what the broker retains of it
    refused,   \* history: the newest mode was refused
    gaveUp,    \* history: a replay was refused, and nothing sent since
    op,        \* register 50000 of the inverter
    own,       \* history: the operation mode the battery profile owes back
    stranded,  \* history: a restart forgot that debt
    faults     \* history: faults so far

stateVars  == <<mode, saved>>
workerVars == <<wpc, target, code, tries>>
topicVars  == <<link, replay, gaveUp, cached, shown, refused>>
opVars     == <<op, own, stranded>>
vars == <<stateVars, aged, queue, admitted, fallback, workerVars, topicVars,
          opVars, faults>>

\* evccState.current
Current == IF mode = "unset" THEN "normal" ELSE mode

TypeOK ==
    /\ mode \in Mode \cup {"unset"}
    /\ saved \in OpMode \cup {None}
    /\ aged \in BOOLEAN
    /\ queue \in Seq(Mode) /\ Len(queue) <= QueueCap
    /\ admitted \in Mode \cup {None}
    /\ fallback \in BOOLEAN
    /\ wpc \in {"idle", "read", "write", "commit", "report"}
    /\ target \in Mode
    /\ code \in OpMode \cup {None}
    /\ wpc \in {"write", "commit"} => code \in OpMode
    /\ tries \in 1..WriteRetries
    /\ link \in {"up", "dead", "down"}
    /\ cached \in Mode \cup {None} /\ shown \in Mode \cup {None}
    /\ replay \in BOOLEAN /\ (replay => cached # None)
    /\ refused \in BOOLEAN /\ gaveUp \in BOOLEAN
    /\ op \in OpMode /\ own \in OpMode /\ stranded \in BOOLEAN
    /\ faults \in 0..MaxFaults

\* A new process on a connected broker, which may still retain the mode an
\* earlier process published.
Init ==
    /\ mode = "unset" /\ saved = None
    /\ op \in OwnModes
    /\ own = op /\ stranded = FALSE
    /\ aged = TRUE
    /\ queue = <<>>
    /\ admitted = None /\ fallback = FALSE
    /\ wpc = "report" /\ target = "normal" /\ code = None /\ tries = 1
    /\ link = "up" /\ replay = FALSE /\ gaveUp = FALSE
    /\ cached = None /\ shown \in Mode \cup {None} /\ refused = FALSE
    /\ faults = 0

Fault == faults < MaxFaults /\ faults' = faults + 1

-----------------------------------------------------------------------------
(* evcc and the command route *)

\* MUTANT: "unchanged" is judged by the published mode, not by the mode in
\* force.
OnEVCCSetByTopic(m) ==
    /\ admitted = None /\ link = "up"
    /\ aged' = FALSE
    /\ admitted' = IF m = cached THEN None ELSE m
    /\ UNCHANGED <<stateVars, queue, fallback, workerVars, opVars, topicVars,
                   faults>>

\* onEVCCSet up to its unlock: refreshes the timeout; a mode equal to the one
\* in force goes no further.  The router calls it one command at a time; none
\* arrives while the connection is lost.
OnEVCCSet(m) ==
    /\ admitted = None /\ link = "up"
    /\ aged' = FALSE
    /\ admitted' = IF m = Current THEN None ELSE m
    /\ UNCHANGED <<stateVars, queue, fallback, workerVars, opVars, topicVars,
                   faults>>

\* MUTANT: one entry too many is let in.
EnqueueOffByOne(m) ==
    queue' = Append(IF Len(queue) <= QueueCap THEN queue ELSE Tail(queue), m)

\* enqueueWrite with room made by dropping the oldest entry.
Enqueue(m) ==
    queue' = Append(IF Len(queue) < QueueCap THEN queue ELSE Tail(queue), m)

\* The rest of onEVCCSet.
QueueAdmitted ==
    /\ admitted # None
    /\ Enqueue(admitted)
    /\ admitted' = None
    /\ UNCHANGED <<stateVars, aged, fallback, workerVars, opVars, topicVars,
                   faults>>

\* EVCC_BATTERYMODE_TIMEOUT passes without a command.
Age ==
    /\ ~aged
    /\ aged' = TRUE
    /\ UNCHANGED <<stateVars, queue, admitted, fallback, workerVars, opVars,
                   topicVars, faults>>

-----------------------------------------------------------------------------
(* evccWatchdog *)

\* MUTANT: only hold is watched.
WatchdogExpiresHoldOnly ==
    /\ TimeoutOn /\ aged /\ ~fallback
    /\ mode = "hold"
    /\ aged' = FALSE
    /\ fallback' = TRUE
    /\ UNCHANGED <<stateVars, queue, admitted, workerVars, opVars, topicVars,
                   faults>>

\* A tick under the mutex: hold or charge has expired; the clock restarts.
WatchdogExpires ==
    /\ TimeoutOn /\ aged /\ ~fallback
    /\ mode \in {"hold", "charge"}
    /\ aged' = FALSE
    /\ fallback' = TRUE
    /\ UNCHANGED <<stateVars, queue, admitted, workerVars, opVars, topicVars,
                   faults>>

\* The fallback is queued after the unlock.
WatchdogQueues ==
    /\ fallback
    /\ Enqueue("normal")
    /\ fallback' = FALSE
    /\ UNCHANGED <<stateVars, aged, admitted, workerVars, opVars, topicVars,
                   faults>>

-----------------------------------------------------------------------------
(* applyBatteryMode, under dispatchWriteRetrying *)

WorkerTake ==
    /\ wpc = "idle" /\ queue # <<>>
    /\ target' = Head(queue)
    /\ queue' = Tail(queue)
    /\ wpc' = "read"
    /\ UNCHANGED <<stateVars, aged, admitted, fallback, code, tries, opVars,
                   topicVars, faults>>

\* The request is served; its locals are gone.
Done == wpc' = "idle" /\ target' = "normal" /\ code' = None /\ tries' = 1

\* A transport failure: start over after the delay, or give the command up.
RetryOrGiveUp ==
    IF tries < WriteRetries
    THEN wpc' = "read" /\ tries' = tries + 1 /\ code' = None /\ UNCHANGED target
    ELSE Done

\* Nothing to do for the mode in force; otherwise readMode.
ApplyRead ==
    /\ wpc = "read"
    /\ IF target = Current
       THEN Done
       ELSE wpc' = "write" /\ code' = op /\ UNCHANGED <<target, tries>>
    /\ UNCHANGED <<stateVars, aged, queue, admitted, fallback, opVars, topicVars,
                   faults>>

ApplyReadFails ==
    /\ wpc = "read" /\ target # Current
    /\ Fault
    /\ RetryOrGiveUp
    /\ UNCHANGED <<stateVars, aged, queue, admitted, fallback, opVars, topicVars>>

\* MUTANT: every change saves, not only the one that leaves normal.
ToRestoreAlwaysSaves == code

\* The mode to restore after this change: the one just read when the battery
\* leaves normal, the remembered one otherwise.
ToRestore == IF Current = "normal" THEN code ELSE saved

\* The operation mode to write.
Want ==
    IF target # "normal" THEN Code[target]
    ELSE IF ToRestore # None THEN ToRestore
    ELSE code

ApplyWrite ==
    /\ wpc = "write"
    /\ op' = IF Want # code THEN Want ELSE op
    /\ wpc' = "commit"
    /\ UNCHANGED <<stateVars, aged, queue, admitted, fallback, target, code, tries,
                   own, stranded, topicVars, faults>>

ApplyWriteFails ==
    /\ wpc = "write" /\ Want # code
    /\ Fault
    /\ \/ UNCHANGED op
       \/ AnswersLost /\ op' = Want
    /\ RetryOrGiveUp
    /\ UNCHANGED <<stateVars, aged, queue, admitted, fallback, own, stranded,
                   topicVars>>

\* The write is done: the new mode is in force.
ApplyCommit ==
    /\ wpc = "commit"
    /\ mode' = target
    /\ saved' = IF target # "normal" THEN ToRestore ELSE None
    /\ wpc' = "report" /\ target' = "normal" /\ code' = None /\ tries' = 1
    /\ UNCHANGED <<aged, queue, admitted, fallback, opVars, topicVars, faults>>

-----------------------------------------------------------------------------
(* The topic of the mode in force, and the broker *)

\* publishBatteryMode: on change only, and remembered only when the link
\* accepts it.  A dead link accepts, and loses, what it is given.
Report ==
    /\ wpc = "report"
    /\ \/ cached = Current /\ UNCHANGED <<cached, shown, gaveUp>>
       \/ /\ cached # Current /\ link # "down"
          /\ cached' = Current
          /\ IF link = "up" THEN shown' = Current /\ gaveUp' = FALSE
                            ELSE UNCHANGED <<shown, gaveUp>>
    /\ refused' = FALSE
    /\ Done
    /\ UNCHANGED <<stateVars, aged, queue, admitted, fallback, link, replay, opVars,
                   faults>>

\* The link refuses it: logged, and nobody tries again.
ReportRefused ==
    /\ wpc = "report" /\ cached # Current
    /\ IF link = "down" THEN UNCHANGED faults ELSE Fault
    /\ refused' = TRUE
    /\ Done
    /\ UNCHANGED <<stateVars, aged, queue, admitted, fallback, link, replay, gaveUp,
                   cached, shown, opVars>>

LinkFails ==
    /\ link = "up"
    /\ Fault
    /\ link' \in {"dead", "down"}
    /\ UNCHANGED <<stateVars, aged, queue, admitted, fallback, workerVars, replay,
                   gaveUp, cached, shown, refused, opVars>>

LinkDrops ==
    /\ link = "dead"
    /\ link' = "down"
    /\ UNCHANGED <<stateVars, aged, queue, admitted, fallback, workerVars, replay,
                   gaveUp, cached, shown, refused, opVars, faults>>

\* A new connection, to a broker that may have lost its retained store;
\* PublishOnline ends in StatePublisher.Republish.
Reconnect ==
    /\ link = "down" /\ ~replay
    /\ link' = "up"
    /\ shown' \in {shown, None}
    /\ replay' = (cached # None)
    /\ gaveUp' = FALSE
    /\ UNCHANGED <<stateVars, aged, queue, admitted, fallback, workerVars, cached,
                   refused, opVars, faults>>

\* The replay sends the accepted mode as it is when its turn comes, unless
\* the link refuses it.
Republish ==
    /\ replay
    /\ replay' = FALSE
    /\ \/ link # "down" /\ UNCHANGED gaveUp
          /\ shown' = IF link = "up" THEN cached ELSE shown
       \/ gaveUp' = (link = "up") /\ UNCHANGED shown
    /\ UNCHANGED <<stateVars, aged, queue, admitted, fallback, workerVars, link,
                   cached, refused, opVars, faults>>

-----------------------------------------------------------------------------
(* Surroundings *)

\* A write of the `mode' register itself, through the same worker.  In normal
\* it is the operator's new setting.
OperatorSets(m) ==
    /\ wpc = "idle"
    /\ op' = m
    /\ IF Current = "normal" THEN own' = m /\ stranded' = FALSE
                             ELSE UNCHANGED <<own, stranded>>
    /\ UNCHANGED <<stateVars, aged, queue, admitted, fallback, workerVars, topicVars,
                   faults>>

\* A burst of other commands drops the oldest entry.
Evict ==
    /\ queue # <<>>
    /\ Fault
    /\ queue' = Tail(queue)
    /\ UNCHANGED <<stateVars, aged, admitted, fallback, workerVars, opVars, topicVars>>

\* What a restart leaves of the process: nothing.  The inverter stays in the
\* operation mode it is in; when that is not the operator's, nobody knows any
\* more what is owed.
Forgotten ==
    /\ mode' = "unset" /\ saved' = None
    /\ aged' = TRUE
    /\ queue' = <<>> /\ admitted' = None /\ fallback' = FALSE
    /\ target' = "normal" /\ code' = None /\ tries' = 1
    /\ link' = "up" /\ replay' = FALSE /\ gaveUp' = FALSE
    /\ cached' = None /\ refused' = FALSE
    /\ stranded' = (op # own)
    /\ UNCHANGED <<op, own, shown>>

\* MUTANT: a new process waits for its first change before it publishes.
RestartSilent == Fault /\ Forgotten /\ wpc' = "idle"

\* The process restarts, connects, and publishes the mode it believes in
\* before it serves the first write.
Restart == Fault /\ Forgotten /\ wpc' = "report"

-----------------------------------------------------------------------------
Apply ==
    \/ WorkerTake \/ ApplyRead \/ ApplyReadFails
    \/ ApplyWrite \/ ApplyWriteFails \/ ApplyCommit
    \/ Report \/ ReportRefused

Next ==
    \/ \E m \in Mode : OnEVCCSet(m)
    \/ QueueAdmitted
    \/ Age
    \/ WatchdogExpires
    \/ WatchdogQueues
    \/ Apply
    \/ LinkFails \/ LinkDrops \/ Reconnect \/ Republish
    \/ \E m \in OwnModes : OperatorSets(m)
    \/ Evict
    \/ Restart

\* The goroutines run.  The worker is not kept busy by other commands for ever.
Fairness ==
    /\ WF_vars(QueueAdmitted)
    /\ WF_vars(WatchdogQueues)
    /\ WF_vars(WatchdogExpires)
    /\ WF_vars(Apply)

Spec == Init /\ [][Next]_vars /\ Fairness

-----------------------------------------------------------------------------
(* Properties *)

\* While the battery is held or charged, the profile remembers the operator's
\* setting as the mode to restore - unless a restart in hold or charge had
\* lost it before.
SavesOwn == Current # "normal" => saved = own \/ (stranded /\ saved # None)

\* The operator's setting survives hold and charge: whatever sequence of
\* commands, retries, evictions and timeouts went before, the inverter is on
\* it whenever the battery is normal, and the profile remembers it otherwise.
\* Only a restart in hold or charge loses it, until the operator sets a mode.
RestoresOwn ==
    /\ SavesOwn
    /\ Current = "normal" /\ wpc # "commit" => op = own \/ stranded

\* What evcc and a dashboard read on the broker is the mode in force, across
\* changes, lost connections, brokers that forget and restarts: once the
\* replay of a new connection is through, also when a report was lost on a
\* dead link.  Excepted are a mode the worker is about to publish, and one
\* whose report or replay was refused.
Reported ==
    link = "up" /\ ~replay /\ wpc # "report" /\ ~refused /\ ~gaveUp => shown = Current

\* evcc sends nothing any more, and time passes.
Silent ==
    /\ <>[][\A m \in Mode : ~OnEVCCSet(m)]_vars
    /\ WF_vars(Age)

\* evcc re-sends one mode for ever over a standing connection, well within
\* the timeout (which is twice evcc's own re-send timeout).
Steady(m) ==
    /\ WF_vars(OnEVCCSet(m))
    /\ <>[][~Age /\ \A k \in Mode \ {m} : ~OnEVCCSet(k)]_vars
    /\ <>[](link = "up")

\* An evcc that stopped does not leave the battery locked: once it is silent
\* the battery ends in normal and the inverter on the operator's mode, and
\* both stay so - unless the process restarted in hold or charge: the new one
\* believes in normal and leaves the inverter where it is.
Released == Silent => <>[](Current = "normal" /\ (op = own \/ stranded))

\* An evcc that keeps re-sending one mode gets that mode, for good, whatever
\* was queued, failed or evicted before.
Converges == \A m \in Mode : Steady(m) => <>[](Current = m)
=============================================================================
