------------------------------- MODULE Lifecycle -------------------------------
(***************************************************************************)
(* One daemon from start to exit, and what its service manager does next:  *)
(* run of cmd/mtec2mqtt, Coordinator.Run inside it, the web server beside  *)
(* it, and the goroutines Run starts.                                      *)
(*                                                                         *)
(* The run context ends by a signal or by a maintenance restart command,   *)
(* the context of the error group also when one of its two members fails.  *)
(* Whoever waits, at any stage, has to notice.  The last things done are   *)
(* to stop the command plane, to say 0 on `<name>/connected', and to       *)
(* disconnect.  A restart command gives the signal handlers back, and a    *)
(* signal that comes after it kills the process on the spot: what is left  *)
(* to say is then the broker's to say, by the will.                        *)
(*                                                                         *)
(* External, modelled from their use: an errgroup keeps the first error,   *)
(* ends its context on it and waits for every member; an attempt to reach  *)
(* a peer succeeds or fails, as often as it likes; the process is          *)
(* supervised as publisher.DetectSupervised sees it (systemd counts).      *)
(***************************************************************************)
EXTENDS Naturals

CONSTANTS
    Task,         \* goroutines of Run's error group: pollers, worker, watchdogs
    Policy,       \* the service manager's Restart= : "always" or "on-failure"
    MaxRestarts,  \* bound: maintenance restarts
    MaxFailures   \* bound: steps that fail for good

ASSUME ConstAssumption ==
    /\ Task # {}
    /\ Policy \in {"always", "on-failure"}
    /\ MaxRestarts \in Nat
    /\ MaxFailures \in Nat

VARIABLES
    webEnable,   \* cfg.WebEnable
    main,        \* control state of run
    code,        \* exit status, as the shell sees it
    cause,       \* why the run context is done
    groupErr,    \* first error of the error group of main
    run,         \* control state of Coordinator.Run
    waiting,     \* Run is in the select between two attempts
    web,         \* the web server's goroutine
    task,        \* Run's goroutines
    commandsUp,  \* the router's subscriptions are live
    serial,      \* topicBase is stored: `set' commands are let in
    said,        \* PublishOffline has been called
    excused,     \* history: the UNSUBSCRIBE failed, or the boot was refused
    fatal,       \* history: a step of this life failed for good
    restarts, failures  \* history: counts for the bounds

process == <<main, code, cause, groupErr>>
coordinator == <<run, waiting, task, commandsUp, serial>>
history == <<excused, fatal, failures>>
vars == <<webEnable, process, coordinator, web, said, history, restarts>>

\* The status of a process SIGTERM has killed.
Terminated == 143

\* What a member of main's error group returns.
Error == {"none", "canceled", "fatal"}

TypeOK ==
    /\ {webEnable, waiting, commandsUp, serial, said, excused, fatal} \subseteq BOOLEAN
    /\ main \in {"load", "dial", "dialWait", "serve", "goodbye", "disconnect", "exited"}
    /\ code \in {0, 1, Terminated}
    /\ cause \in {"none", "stop", "restart"}
    /\ groupErr \in Error
    /\ run \in {"off", "connect", "status", "routes", "start", "birth", "static",
                "disjoint", "spawn", "wait", "commands", "returned"}
    /\ web \in {"off", "serving", "returned"}
    /\ task \in [Task -> {"unborn", "cycle", "select", "gone"}]
    /\ restarts \in 0..MaxRestarts
    /\ failures \in 0..MaxFailures

\* A process that has just been started.
Init ==
    /\ webEnable \in BOOLEAN
    /\ main = "load"
    /\ code = 0
    /\ cause = "none"
    /\ groupErr = "none"
    /\ run = "off"
    /\ waiting = FALSE
    /\ web = "off"
    /\ task = [t \in Task |-> "unborn"]
    /\ commandsUp = FALSE
    /\ serial = FALSE
    /\ said = FALSE
    /\ excused = FALSE
    /\ fatal = FALSE
    /\ restarts = 0
    /\ failures = 0

-----------------------------------------------------------------------------
(* Contexts and errors *)

\* The context that Run, its goroutines and the web server are given.
Done == cause # "none" \/ groupErr # "none"

\* A step fails for good.
Fail ==
    /\ failures < MaxFailures
    /\ failures' = failures + 1
    /\ fatal' = TRUE

\* MUTANT: the cancelled context is reported like any other error.
AnyErr(err) == err # "none"

\* fatalErr: a cancelled run context is no failure.
FatalErr(err) == err = "fatal"

\* MUTANT: os.Exit(-1), as the shell does not see it.
OddStatus(err) == IF FatalErr(err) THEN 255 ELSE 0

Status(err) == IF FatalErr(err) THEN 1 ELSE 0

Exit(err) == main' = "exited" /\ code' = Status(err)

\* The error group keeps the first error of its members.
Note(err) == groupErr' = IF groupErr = "none" THEN err ELSE groupErr

-----------------------------------------------------------------------------
(* run, until the coordinator takes over *)

\* Configuration, TLS, catalog and will; none of it is retried.
Load ==
    /\ main = "load"
    /\ \/ /\ main' = "dial"
          /\ UNCHANGED <<code, history>>
       \/ Fail /\ Exit("fatal") /\ UNCHANGED excused
    /\ UNCHANGED <<webEnable, cause, groupErr, coordinator, web, said, restarts>>

\* Run, and the web server beside it when there is one.
Serve ==
    /\ main' = "serve"
    /\ run' = "connect"
    /\ web' = IF webEnable THEN "serving" ELSE "off"

\* startMQTT: one connect attempt.
Dial ==
    /\ main = "dial"
    /\ \/ Serve /\ UNCHANGED code
       \/ cause = "none" /\ main' = "dialWait" /\ UNCHANGED <<code, run, web>>
       \/ cause # "none" /\ Exit("canceled") /\ UNCHANGED <<run, web>>
    /\ UNCHANGED <<webEnable, cause, groupErr, waiting, task, commandsUp, serial,
                   said, history, restarts>>

\* startMQTT: the select; the timer counts as fired before the context ended.
DialWait ==
    /\ main = "dialWait"
    /\ \/ cause = "none" /\ main' = "dial" /\ UNCHANGED code
       \/ cause # "none" /\ Exit("canceled")
    /\ UNCHANGED <<webEnable, cause, groupErr, coordinator, web, said, history,
                   restarts>>

-----------------------------------------------------------------------------
(* Coordinator.Run *)

RunFrame == UNCHANGED <<webEnable, main, code, cause, web, said, restarts>>

Return(err) == run' = "returned" /\ Note(err)

\* retryWithBackoff: an attempt; the context is looked at after a failure.
Attempt(stage, next) ==
    /\ run = stage /\ ~waiting
    /\ \/ run' = next /\ UNCHANGED <<waiting, groupErr>>
       \/ ~Done /\ waiting' = TRUE /\ UNCHANGED <<run, groupErr>>
       \/ Done /\ Return("canceled") /\ UNCHANGED waiting
    /\ commandsUp' = (commandsUp \/ run' = "birth")
    /\ RunFrame /\ UNCHANGED <<task, serial, history>>

\* MUTANT: a plain sleep between two STATIC reads.
BackoffSleeps ==
    /\ waiting
    /\ waiting' = FALSE
    /\ \/ (~Done \/ run = "static") /\ UNCHANGED <<run, groupErr>>
       \/ Done /\ run # "static" /\ Return("canceled")
    /\ RunFrame /\ UNCHANGED <<task, commandsUp, serial, history>>

\* The select between two attempts, here and in waitForStatic.
Backoff ==
    /\ waiting
    /\ waiting' = FALSE
    /\ \/ ~Done /\ UNCHANGED <<run, groupErr>>
       \/ Done /\ Return("canceled")
    /\ RunFrame /\ UNCHANGED <<task, commandsUp, serial, history>>

\* installInboundHandler: a route that is refused is not retried.
Routes ==
    /\ run = "routes"
    /\ \/ run' = "start" /\ UNCHANGED <<groupErr, history>>
       \/ Fail /\ Return("fatal") /\ UNCHANGED excused
    /\ RunFrame /\ UNCHANGED <<waiting, task, commandsUp, serial>>

\* waitForHASSBirth returns when the grace time or the context ends.
Birth ==
    /\ run = "birth"
    /\ run' = "static"
    /\ RunFrame /\ UNCHANGED <<groupErr, waiting, task, commandsUp, serial, history>>

\* waitForStatic looks at the context in its select only.
Static ==
    /\ run = "static" /\ ~waiting
    /\ \/ run' = "disjoint" /\ serial' = TRUE /\ UNCHANGED waiting
       \/ waiting' = TRUE /\ UNCHANGED <<run, serial>>
    /\ RunFrame /\ UNCHANGED <<groupErr, task, commandsUp, history>>

\* checkCommandDisjoint refuses the boot with the command plane up.
Disjoint ==
    /\ run = "disjoint"
    /\ \/ run' = "spawn" /\ UNCHANGED <<groupErr, history>>
       \/ Fail /\ Return("fatal") /\ excused' = TRUE
    /\ RunFrame /\ UNCHANGED <<waiting, task, commandsUp, serial>>

Spawn ==
    /\ run = "spawn"
    /\ run' = "wait"
    /\ task' = [t \in Task |-> "cycle"]
    /\ RunFrame /\ UNCHANGED <<groupErr, waiting, commandsUp, serial, history>>

\* MUTANT: Run goes on as soon as its context is done.
WaitForContext ==
    /\ run = "wait" /\ Done
    /\ run' = "commands"
    /\ RunFrame /\ UNCHANGED <<groupErr, waiting, task, commandsUp, serial, history>>

\* g.Wait
Wait ==
    /\ run = "wait" /\ \A t \in Task : task[t] = "gone"
    /\ run' = "commands"
    /\ RunFrame /\ UNCHANGED <<groupErr, waiting, task, commandsUp, serial, history>>

\* stopCommands, within 2 s; an UNSUBSCRIBE that fails is only logged.
StopCommands ==
    /\ run = "commands"
    /\ \/ commandsUp' = FALSE /\ UNCHANGED history
       \/ /\ failures < MaxFailures
          /\ failures' = failures + 1
          /\ excused' = TRUE
          /\ UNCHANGED <<commandsUp, fatal>>
    /\ Return("none")
    /\ RunFrame /\ UNCHANGED <<waiting, task, serial>>

\* A loop of one goroutine: a cycle, which ends by itself, ...
Cycle(t) ==
    /\ task[t] = "cycle"
    /\ task' = [task EXCEPT ![t] = "select"]
    /\ RunFrame /\ UNCHANGED <<groupErr, run, waiting, commandsUp, serial, history>>

\* ... and a select.  A tick that is pending when the context ends may win.
Tick(t) ==
    /\ task[t] = "select"
    /\ task' = [task EXCEPT ![t] = "cycle"]
    /\ RunFrame /\ UNCHANGED <<groupErr, run, waiting, commandsUp, serial, history>>

Leave(t) ==
    /\ task[t] = "select" /\ Done
    /\ task' = [task EXCEPT ![t] = "gone"]
    /\ RunFrame /\ UNCHANGED <<groupErr, run, waiting, commandsUp, serial, history>>

-----------------------------------------------------------------------------
(* The web server *)

\* It cannot bind, or stops serving.
WebFails ==
    /\ web = "serving"
    /\ Fail
    /\ web' = "returned"
    /\ Note("fatal")
    /\ UNCHANGED <<webEnable, main, code, cause, coordinator, said, excused, restarts>>

WebStops ==
    /\ web = "serving" /\ Done
    /\ web' = "returned"
    /\ UNCHANGED <<webEnable, process, coordinator, said, history, restarts>>

-----------------------------------------------------------------------------
(* The end of run *)

Join ==
    /\ main = "serve" /\ run = "returned" /\ web # "serving"
    /\ main' = "goodbye"
    /\ UNCHANGED <<webEnable, code, cause, groupErr, coordinator, web, said, history,
                   restarts>>

Goodbye ==
    /\ main = "goodbye"
    /\ main' = "disconnect"
    /\ said' = TRUE
    /\ UNCHANGED <<webEnable, code, cause, groupErr, coordinator, web, history, restarts>>

\* Lifecycle.Stop; no subscription survives it.
Disconnect ==
    /\ main = "disconnect"
    /\ Exit(groupErr)
    /\ commandsUp' = FALSE
    /\ UNCHANGED <<webEnable, cause, groupErr, run, waiting, task, serial, web, said,
                   history, restarts>>

-----------------------------------------------------------------------------
(* Surroundings *)

\* SIGTERM, the operator stops the service, while signal.NotifyContext is in
\* place.
Signal ==
    /\ main \notin {"load", "exited"} /\ cause = "none"
    /\ cause' = "stop"
    /\ UNCHANGED <<webEnable, main, code, groupErr, coordinator, web, said, history,
                   restarts>>

\* `maintenance/set/restart', honoured because the process is supervised.
RestartCommand ==
    /\ commandsUp /\ cause = "none" /\ restarts < MaxRestarts
    /\ cause' = "restart"
    /\ restarts' = restarts + 1
    /\ UNCHANGED <<webEnable, main, code, groupErr, coordinator, web, said, history>>

\* A process, and nothing of it started or remembered.
Blank ==
    /\ groupErr' = "none"
    /\ run' = "off" /\ waiting' = FALSE
    /\ web' = "off"
    /\ task' = [t \in Task |-> "unborn"]
    /\ commandsUp' = FALSE /\ serial' = FALSE
    /\ said' = FALSE /\ excused' = FALSE

\* SIGTERM before NotifyContext is in place, or after a restart command: its
\* Shutdown is NotifyContext's stop, which also unregisters the handlers.
Killed ==
    /\ main = "load" \/ (main # "exited" /\ cause = "restart")
    /\ main' = "exited" /\ code' = Terminated /\ cause' = "stop"
    /\ Blank
    /\ UNCHANGED <<webEnable, fatal, restarts, failures>>

\* The service manager: never after an operator's stop, and after a clean
\* exit only if its policy says so.
Respawn ==
    /\ main = "exited" /\ cause # "stop"
    /\ Policy = "always" \/ code # 0
    /\ main' = "load" /\ code' = 0 /\ cause' = "none"
    /\ Blank
    /\ fatal' = FALSE
    /\ UNCHANGED <<webEnable, restarts, failures>>

-----------------------------------------------------------------------------
MainStep == Load \/ Dial \/ DialWait \/ Join \/ Goodbye \/ Disconnect

RunStep ==
    \/ Attempt("connect", "status")
    \/ Attempt("status", "routes")
    \/ Attempt("start", "birth")
    \/ Backoff \/ Routes \/ Birth \/ Static \/ Disjoint
    \/ Spawn \/ Wait \/ StopCommands

TaskStep(t) == Cycle(t) \/ Tick(t) \/ Leave(t)

Next ==
    \/ MainStep \/ RunStep
    \/ \E t \in Task : TaskStep(t)
    \/ WebFails \/ WebStops
    \/ Signal \/ Killed \/ RestartCommand \/ Respawn

\* Goroutines that can run do; a select with several ready cases picks one at
\* random, so it does not pass over the context for ever.
Fairness ==
    /\ WF_vars(MainStep)
    /\ WF_vars(RunStep)
    /\ WF_vars(WebStops)
    /\ \A t \in Task : WF_vars(TaskStep(t)) /\ SF_vars(Leave(t))
    /\ WF_vars(Respawn)

Spec == Init /\ [][Next]_vars /\ Fairness

-----------------------------------------------------------------------------
(* Properties *)

\* The 0 on `connected' is the last word: when it is published nothing of Run
\* is left that could observe or write, the web server has returned, and no
\* command is let in any more - unless the broker refused the UNSUBSCRIBE or
\* the boot was refused with the command plane already up.  And a process
\* whose Run has returned does not exit without that word.
LastWord ==
    /\ said =>
        /\ run = "returned" /\ web # "serving"
        /\ \A t \in Task : task[t] \in {"unborn", "gone"}
        /\ commandsUp /\ serial => excused
    /\ main = "exited" /\ run = "returned" => said

\* The exit status tells a stop from a failure, wherever either struck: 1
\* only if something failed for good, 0 only if somebody asked for the end,
\* and that of a killed process only if the operator stopped it.
HonestStatus ==
    main = "exited" => CASE code = 0 -> cause # "none"
                         [] code = 1 -> fatal
                         [] OTHER -> cause = "stop"

\* Whatever stage it is in, and however long a peer does not answer, a daemon
\* that is told to stop, or that failed, exits.
Terminates == Done \/ fatal ~> main = "exited"

\* A restart that was honoured brings the daemon back, unless the operator
\* stopped it meanwhile.
RestartReturns == cause = "restart" ~> main = "load" \/ cause = "stop"
=============================================================================
