------------------------------ MODULE WriteQueue ------------------------------
(***************************************************************************)
(* The command path of the coordinator: every write of an inverter         *)
(* register goes through one bounded channel, Coordinator.writeQueue, that *)
(* one goroutine, writeWorker, drains.                                     *)
(*                                                                         *)
(* Producers are the command router's single worker (onSet and onEVCCSet), *)
(* the evcc watchdog, and one HTTP handler goroutine per web write.  A     *)
(* full channel makes room by dropping its oldest entry.  A web write also *)
(* waits for the outcome of its command; when no worker is draining the    *)
(* channel it talks to the inverter itself, without queueing.              *)
(*                                                                         *)
(* A command is an identity: what it writes, and where, is left out.  All  *)
(* commands address one register, so `register' is the command whose value *)
(* the inverter holds.                                                     *)
(***************************************************************************)
EXTENDS Naturals, Sequences, FiniteSets

CONSTANTS
    MqttCmd,      \* `set' publishes, delivered one at a time by the router
    WatchdogCmd,  \* fallbacks the evcc watchdog queues, one at a time
    WebCmd,       \* web writes, each on a goroutine of its own
    Rejected,     \* commands the reader refuses: unknown, read-only, unparsable
    QueueCap,     \* capacity of writeQueue (32)
    MaxAttempts,  \* enqueueWrite's maxAttempts (8)
    WriteRetries, \* writeRetries (3)
    None

Cmd == MqttCmd \cup WatchdogCmd \cup WebCmd

ASSUME ConstAssumption ==
    /\ MqttCmd \cap WatchdogCmd = {}
    /\ (MqttCmd \cup WatchdogCmd) \cap WebCmd = {}
    /\ Rejected \subseteq Cmd
    /\ QueueCap \in Nat \ {0}
    /\ MaxAttempts \in Nat \ {0}
    /\ WriteRetries \in Nat \ {0}
    /\ None \notin Cmd

\* What replyTo passes on, and what a call returns besides.
Outcome == {"ok", "rejected", "failed", "ctx", "superseded"}
Result  == Outcome \cup {"full", "dropped", "queued", "none"}

VARIABLES
    phase,       \* progress of Coordinator.Run
    commandsUp,  \* the router's `set' subscription is live
    topicKnown,  \* topicBase holds the serial
    cancelled,   \* runCtx is done
    workerUp,    \* writeWorkerUp
    wpc,         \* control state of writeWorker
    cur,         \* the request writeWorker holds
    tries,       \* attempt of dispatchWriteRetrying
    queue,       \* writeQueue
    pc,          \* control state of each command's producer
    attempt,     \* enqueueWrite's loop counter
    outcomes,    \* history: the results replyTo was called with, per command
    result,      \* what the producer's call returned
    register,    \* the command whose value the inverter holds
    written,     \* history: commands that reached the inverter
    accepted,    \* history: commands that entered the channel
    ahead,       \* history: commands accepted and unsettled when this was issued
    lastSet      \* history: the newest command the router let through

runVars      == <<phase, commandsUp, topicKnown, cancelled>>
workerVars   == <<workerUp, wpc, cur, tries>>
producerVars == <<pc, attempt, result>>
inverterVars == <<register, written>>
issueVars    == <<ahead, lastSet>>
vars == <<runVars, workerVars, queue, producerVars, outcomes, inverterVars,
          accepted, issueVars>>

Range(s) == {s[i] : i \in DOMAIN s}

\* Commands the write path has accepted and not yet settled.
Pending == Range(queue) \cup ({cur} \ {None})

InFlight(c) == pc[c] \in {"send", "drain", "wait", "inline"}

Superseded(c) == "superseded" \in Range(outcomes[c])

TypeOK ==
    /\ phase \in {"boot", "subscribed", "static", "running", "stopped"}
    /\ commandsUp \in BOOLEAN
    /\ topicKnown \in BOOLEAN
    /\ cancelled \in BOOLEAN
    /\ workerUp \in BOOLEAN
    /\ wpc \in {"unborn", "spawned", "idle", "dispatch", "backoff", "gone"}
    /\ cur \in Cmd \cup {None}
    /\ tries \in 0..WriteRetries
    /\ queue \in Seq(Cmd)
    /\ pc \in [Cmd -> {"idle", "send", "drain", "wait", "inline", "done"}]
    /\ attempt \in [Cmd -> 0..MaxAttempts]
    /\ outcomes \in [Cmd -> Seq(Outcome)]
    /\ result \in [Cmd -> Result]
    /\ register \in Cmd \cup {None}
    /\ written \subseteq Cmd
    /\ accepted \subseteq Cmd
    /\ ahead \in [Cmd -> SUBSET Cmd]
    /\ lastSet \in MqttCmd \cup {None}

Init ==
    /\ phase = "boot"
    /\ commandsUp = FALSE
    /\ topicKnown = FALSE
    /\ cancelled = FALSE
    /\ workerUp = FALSE
    /\ wpc = "unborn"
    /\ cur = None
    /\ tries = 0
    /\ queue = <<>>
    /\ pc = [c \in Cmd |-> "idle"]
    /\ attempt = [c \in Cmd |-> 0]
    /\ outcomes = [c \in Cmd |-> <<>>]
    /\ result = [c \in Cmd |-> "none"]
    /\ register = None
    /\ written = {}
    /\ accepted = {}
    /\ ahead = [c \in Cmd |-> {}]
    /\ lastSet = None

-----------------------------------------------------------------------------
(* Coordinator.Run *)

\* connectModbus and installInboundHandler have succeeded.
InstallInboundHandler ==
    /\ phase = "boot" /\ ~cancelled
    /\ phase' = "subscribed"
    /\ commandsUp' = TRUE
    /\ UNCHANGED <<topicKnown, cancelled, workerVars, queue, producerVars,
                   outcomes, inverterVars, accepted, issueVars>>

\* tryInitFromStatic stores the serial; from here on onSet lets commands in.
WaitForStatic ==
    /\ phase = "subscribed"
    /\ phase' = "static"
    /\ topicKnown' = TRUE
    /\ UNCHANGED <<commandsUp, cancelled, workerVars, queue, producerVars,
                   outcomes, inverterVars, accepted, issueVars>>

\* The errgroup starts writeWorker; the goroutine has not run yet.
Spawn ==
    /\ phase = "static"
    /\ phase' = "running"
    /\ wpc' = "spawned"
    /\ UNCHANGED <<commandsUp, topicKnown, cancelled, workerUp, cur, tries,
                   queue, producerVars, outcomes, inverterVars, accepted,
                   issueVars>>

\* Run returns before the errgroup: a cancelled start-up step, or a failed
\* checkCommandDisjoint.  It does not pass stopCommands.
RunAborts ==
    /\ \/ phase \in {"boot", "subscribed"} /\ cancelled
       \/ phase = "static"
    /\ phase' = "stopped"
    /\ cancelled' = TRUE
    /\ UNCHANGED <<commandsUp, topicKnown, workerVars, queue, producerVars,
                   outcomes, inverterVars, accepted, issueVars>>

\* SIGTERM, the maintenance restart, or a failing web server.
Cancel ==
    /\ ~cancelled
    /\ cancelled' = TRUE
    /\ UNCHANGED <<phase, commandsUp, topicKnown, workerVars, queue,
                   producerVars, outcomes, inverterVars, accepted, issueVars>>

\* g.Wait has returned, then stopCommands.
StopCommands ==
    /\ phase = "running" /\ wpc = "gone"
    /\ \A c \in WatchdogCmd : ~InFlight(c)
    /\ phase' = "stopped"
    /\ commandsUp' = FALSE
    /\ UNCHANGED <<topicKnown, cancelled, workerVars, queue, producerVars,
                   outcomes, inverterVars, accepted, issueVars>>

-----------------------------------------------------------------------------
(* The inverter, behind dispatchWrite *)

\* One dispatchWrite of c ends with err and leaves `reg' on the inverter.  A
\* failed round trip may still have been executed: the answer was lost.
Dispatch(c, err, reg, ctxDone) ==
    \/ c \in Rejected /\ err = "rejected" /\ reg = register
    \/ c \notin Rejected /\ err = "ok" /\ reg = c
    \/ c \notin Rejected /\ err = "failed" /\ reg \in {register, c}
    \/ c \notin Rejected /\ ctxDone /\ err = "ctx" /\ reg \in {register, c}

WireEffect(c, reg) ==
    /\ register' = reg
    /\ written' = IF reg = c THEN written \cup {c} ELSE written

-----------------------------------------------------------------------------
(* writeWorker *)

WorkerStart ==
    /\ wpc = "spawned"
    /\ wpc' = "idle"
    /\ workerUp' = TRUE
    /\ UNCHANGED <<runVars, cur, tries, queue, producerVars, outcomes,
                   inverterVars, accepted, issueVars>>

WorkerTake ==
    /\ wpc = "idle" /\ queue # <<>>
    /\ cur' = Head(queue)
    /\ queue' = Tail(queue)
    /\ tries' = 1
    /\ wpc' = "dispatch"
    /\ UNCHANGED <<runVars, workerUp, producerVars, outcomes, inverterVars,
                   accepted, issueVars>>

\* MUTANT: the retry loop forgets the error of its last attempt.
SettleForgetsError(err) ==
    /\ outcomes' = [outcomes EXCEPT
                      ![cur] = Append(@, IF err = "failed" THEN "ok" ELSE err)]
    /\ cur' = None
    /\ tries' = 0
    /\ wpc' = "idle"

\* The worker is done with cur: replyTo, then back to the select.
Settle(err) ==
    /\ outcomes' = [outcomes EXCEPT ![cur] = Append(@, err)]
    /\ cur' = None
    /\ tries' = 0
    /\ wpc' = "idle"

\* MUTANT: a command that failed lets the next one in the channel go first.
WorkerDispatchYields ==
    /\ wpc = "dispatch"
    /\ \E err \in Outcome, reg \in {register, cur} :
        /\ Dispatch(cur, err, reg, cancelled)
        /\ WireEffect(cur, reg)
        /\ IF err = "failed" /\ tries < WriteRetries
           THEN /\ wpc' = "backoff"
                /\ IF queue = <<>>
                   THEN UNCHANGED <<cur, queue>>
                   ELSE cur' = Head(queue) /\ queue' = Append(Tail(queue), cur)
                /\ UNCHANGED <<tries, outcomes>>
           ELSE Settle(err) /\ UNCHANGED queue
    /\ UNCHANGED <<runVars, workerUp, producerVars, accepted, issueVars>>

\* One iteration of dispatchWriteRetrying.
WorkerDispatch ==
    /\ wpc = "dispatch"
    /\ \E err \in Outcome, reg \in {register, cur} :
        /\ Dispatch(cur, err, reg, cancelled)
        /\ WireEffect(cur, reg)
        /\ IF err = "failed" /\ tries < WriteRetries
           THEN wpc' = "backoff" /\ UNCHANGED <<cur, tries, outcomes>>
           ELSE Settle(err)
    /\ UNCHANGED <<runVars, workerUp, queue, producerVars, accepted, issueVars>>

\* writeRetryDelay has passed.
WorkerRetry ==
    /\ wpc = "backoff"
    /\ tries' = tries + 1
    /\ wpc' = "dispatch"
    /\ UNCHANGED <<runVars, workerUp, cur, queue, producerVars, outcomes,
                   inverterVars, accepted, issueVars>>

\* The context ended while the worker backed off.
WorkerRetryCancelled ==
    /\ wpc = "backoff" /\ cancelled
    /\ Settle("ctx")
    /\ UNCHANGED <<runVars, workerUp, queue, producerVars, inverterVars,
                   accepted, issueVars>>

\* The select picks ctx.Done, whatever the channel still holds.
WorkerExit ==
    /\ wpc = "idle" /\ cancelled
    /\ wpc' = "gone"
    /\ workerUp' = FALSE
    /\ UNCHANGED <<runVars, cur, tries, queue, producerVars, outcomes,
                   inverterVars, accepted, issueVars>>

-----------------------------------------------------------------------------
(* Producers *)

Begin(c, where) ==
    /\ pc' = [pc EXCEPT ![c] = where]
    /\ ahead' = [ahead EXCEPT ![c] = Pending]

Return(c, res) ==
    /\ pc' = [pc EXCEPT ![c] = "done"]
    /\ result' = [result EXCEPT ![c] = res]

\* The router hands one publish to onSet.  Before the STATIC read, for a
\* foreign serial, and for a payload it cannot read, onSet returns early.
OnSetDropped(c) ==
    /\ commandsUp /\ pc[c] = "idle"
    /\ \A d \in MqttCmd : ~InFlight(d)
    /\ Return(c, "dropped")
    /\ UNCHANGED <<runVars, workerVars, queue, attempt, outcomes, inverterVars,
                   accepted, issueVars>>

OnSet(c) ==
    /\ commandsUp /\ topicKnown /\ pc[c] = "idle"
    /\ \A d \in MqttCmd : ~InFlight(d)
    /\ Begin(c, "send")
    /\ attempt' = [attempt EXCEPT ![c] = 1]
    /\ lastSet' = c
    /\ UNCHANGED <<runVars, workerVars, queue, result, outcomes, inverterVars,
                   accepted>>

\* evccWatchdog found the battery mode expired.
EvccFallback(c) ==
    /\ phase = "running" /\ pc[c] = "idle"
    /\ \A d \in WatchdogCmd : ~InFlight(d)
    /\ Begin(c, "send")
    /\ attempt' = [attempt EXCEPT ![c] = 1]
    /\ UNCHANGED <<runVars, workerVars, queue, result, outcomes, inverterVars,
                   accepted, lastSet>>

\* Coordinator.Write loads writeWorkerUp once and acts on that value.
Write(c) ==
    /\ pc[c] = "idle"
    /\ IF workerUp
       THEN Begin(c, "send") /\ attempt' = [attempt EXCEPT ![c] = 1]
       ELSE Begin(c, "inline") /\ UNCHANGED attempt
    /\ UNCHANGED <<runVars, workerVars, queue, result, outcomes, inverterVars,
                   accepted, lastSet>>

\* Without a worker the handler dispatches itself, once, under the request's
\* own context, which may end at any time.
WriteInline(c) ==
    /\ pc[c] = "inline"
    /\ \E err \in Outcome, reg \in {register, c} :
        /\ Dispatch(c, err, reg, TRUE)
        /\ WireEffect(c, reg)
        /\ Return(c, err)
    /\ UNCHANGED <<runVars, workerVars, queue, attempt, outcomes, accepted,
                   issueVars>>

\* First select of enqueueWrite's loop: the non-blocking send.
EnqueueSend(c) ==
    /\ pc[c] = "send"
    /\ IF Len(queue) < QueueCap
       THEN /\ queue' = Append(queue, c)
            /\ accepted' = accepted \cup {c}
            /\ IF c \in WebCmd
               THEN pc' = [pc EXCEPT ![c] = "wait"] /\ UNCHANGED result
               ELSE Return(c, "queued")
       ELSE /\ pc' = [pc EXCEPT ![c] = "drain"]
            /\ UNCHANGED <<queue, accepted, result>>
    /\ UNCHANGED <<runVars, workerVars, attempt, outcomes, inverterVars,
                   issueVars>>

\* MUTANT: the loop runs once too often.
NextAttemptOffByOne(c) ==
    IF attempt[c] <= MaxAttempts
    THEN /\ pc' = [pc EXCEPT ![c] = "send"]
         /\ attempt' = [attempt EXCEPT ![c] = @ + 1]
         /\ UNCHANGED result
    ELSE Return(c, "full") /\ UNCHANGED attempt

\* The loop ends, or goes round again.
NextAttempt(c) ==
    IF attempt[c] < MaxAttempts
    THEN /\ pc' = [pc EXCEPT ![c] = "send"]
         /\ attempt' = [attempt EXCEPT ![c] = @ + 1]
         /\ UNCHANGED result
    ELSE Return(c, "full") /\ UNCHANGED attempt

\* MUTANT: the dropped request's caller is not told.
EnqueueDropSilently(c) ==
    /\ pc[c] = "drain"
    /\ queue' = IF queue # <<>> THEN Tail(queue) ELSE queue
    /\ NextAttempt(c)
    /\ UNCHANGED <<runVars, workerVars, outcomes, inverterVars, accepted,
                   issueVars>>

\* Second select: drop the oldest entry, if one is still there.
EnqueueDrop(c) ==
    /\ pc[c] = "drain"
    /\ IF queue # <<>>
       THEN /\ queue' = Tail(queue)
            /\ outcomes' = [outcomes EXCEPT ![Head(queue)] = Append(@, "superseded")]
       ELSE UNCHANGED <<queue, outcomes>>
    /\ NextAttempt(c)
    /\ UNCHANGED <<runVars, workerVars, inverterVars, accepted, issueVars>>

\* MUTANT: a caller whose command was superseded writes it itself.
WriteReplyInsists(c) ==
    /\ pc[c] = "wait" /\ outcomes[c] # <<>>
    /\ IF Superseded(c)
       THEN pc' = [pc EXCEPT ![c] = "inline"] /\ UNCHANGED result
       ELSE Return(c, Head(outcomes[c]))
    /\ UNCHANGED <<runVars, workerVars, queue, attempt, outcomes, inverterVars,
                   accepted, issueVars>>

\* The one-slot reply channel holds the first outcome replyTo delivered.
WriteReply(c) ==
    /\ pc[c] = "wait" /\ outcomes[c] # <<>>
    /\ Return(c, Head(outcomes[c]))
    /\ UNCHANGED <<runVars, workerVars, queue, attempt, outcomes, inverterVars,
                   accepted, issueVars>>

\* The HTTP client went away.
WriteGivenUp(c) ==
    /\ pc[c] = "wait"
    /\ Return(c, "ctx")
    /\ UNCHANGED <<runVars, workerVars, queue, attempt, outcomes, inverterVars,
                   accepted, issueVars>>

-----------------------------------------------------------------------------
RunStep ==
    \/ InstallInboundHandler \/ WaitForStatic \/ Spawn
    \/ RunAborts \/ Cancel \/ StopCommands

WorkerStep ==
    \/ WorkerStart \/ WorkerTake \/ WorkerDispatch
    \/ WorkerRetry \/ WorkerRetryCancelled \/ WorkerExit

\* Steps a producer goroutine takes once its call has begun.
CallStep(c) ==
    \/ EnqueueSend(c) \/ EnqueueDrop(c) \/ WriteReply(c) \/ WriteInline(c)

Next ==
    \/ RunStep
    \/ WorkerStep
    \/ \E c \in MqttCmd : OnSetDropped(c) \/ OnSet(c)
    \/ \E c \in WatchdogCmd : EvccFallback(c)
    \/ \E c \in WebCmd : Write(c) \/ WriteGivenUp(c)
    \/ \E c \in Cmd : CallStep(c)

\* Runnable goroutines are scheduled; nothing forces a command to be issued,
\* a client to give up, or the daemon to start or to stop.
Fairness ==
    /\ WF_vars(WorkerStep)
    /\ \A c \in Cmd : WF_vars(CallStep(c))

Spec == Init /\ [][Next]_vars /\ Fairness

-----------------------------------------------------------------------------
(* Properties *)

\* The channel never exceeds its capacity, and a command that entered it has
\* exactly one fate: it waits in the channel once, or the worker holds it, or
\* replyTo has been called for it exactly once.  No outcome is lost to, and
\* none is overwritten in, the one-slot reply channel.
ExactlyOnce ==
    /\ Len(queue) <= QueueCap
    /\ \A i, j \in DOMAIN queue : queue[i] = queue[j] => i = j
    /\ cur \notin Range(queue)
    /\ \A c \in Cmd :
        Len(outcomes[c]) = IF c \in accepted \ Pending THEN 1 ELSE 0
    /\ Pending \subseteq accepted

\* One queue, one worker, one order: once a queued command has reached the
\* inverter, no command that was pending when it was issued can still be
\* written after it.
InOrder ==
    \A c \in written \cap accepted : ahead[c] \cap Pending = {}

\* What a caller is told is what happened: "ok" means the value reached the
\* inverter; superseded or queue-full means it never did, and never will.
TruthfulAnswer ==
    \A c \in Cmd :
        /\ result[c] = "ok" => c \in written
        /\ result[c] \in {"superseded", "full"} => c \notin written \cup Pending

\* A burst of `set' publishes ends on its last value: with the router as the
\* only producer, the newest command it let through is never the one dropped,
\* and once the path is quiet the inverter holds it if it was written at all.
LastWins ==
    ((\A c \in Cmd \ MqttCmd : pc[c] = "idle")
        /\ lastSet # None /\ pc[lastSet] = "done") =>
      /\ lastSet \in accepted
      /\ ~Superseded(lastSet)
      /\ Pending = {} /\ lastSet \in written => register = lastSet

\* A web write that has begun returns, on its own, unless the daemon is being
\* shut down.
WriteReturns ==
    \A c \in WebCmd : pc[c] # "idle" ~> pc[c] = "done" \/ cancelled

-----------------------------------------------------------------------------
(* Refinement *)

\* A call is open from its first step to its return.
stageBar ==
    [c \in Cmd |-> IF pc[c] = "idle" THEN "new"
                   ELSE IF pc[c] = "done" THEN "closed" ELSE "open"]

\* A command's fate is the outcome replyTo delivered first.
fateBar == [c \in Cmd |-> IF outcomes[c] = <<>> THEN "none" ELSE Head(outcomes[c])]

CP == INSTANCE CommandPath WITH
        Command <- Cmd,
        stage <- stageBar,
        pending <- Pending,
        busy <- cur,
        value <- register,
        done <- written,
        fate <- fateBar,
        answer <- result

\* The channel, its drop of the oldest entry, the worker and its retries, the
\* answers and the inline writes together are a register that commands
\* overwrite one at a time, in the order of their calls, each settled once.
ImplementsCommandPath == CP!Spec
=============================================================================
