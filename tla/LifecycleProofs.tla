---------------------------- MODULE LifecycleProofs ----------------------------
(***************************************************************************)
(* Proofs about the life of a daemon, for any goroutines, any policy of    *)
(* the service manager, and any number of restarts and failures.           *)
(***************************************************************************)
EXTENDS Lifecycle, TLAPS

\* The control states of run, of Coordinator.Run and of the goroutines fit
\* together.
Shape ==
    /\ main \in {"load", "dial", "dialWait"} => run = "off" /\ web = "off"
    /\ main \in {"goodbye", "disconnect"} => run = "returned" /\ web # "serving"
    /\ main = "exited" => run \in {"off", "returned"} /\ web # "serving"
    /\ said => main \in {"disconnect", "exited"} /\ run = "returned"
    /\ main = "disconnect" \/ (main = "exited" /\ run = "returned") => said
    /\ waiting => run \in {"connect", "status", "start", "static"}
    /\ \A t \in Task : task[t] \in {"cycle", "select"} => run = "wait"

\* The command plane comes up before the serial is known, and Run returns
\* with both only if that is excused.
Plane ==
    /\ commandsUp => run \notin {"off", "connect", "status", "routes", "start"}
    /\ serial => run \in {"disjoint", "spawn", "wait", "commands", "returned"}
    /\ commandsUp /\ serial /\ run = "returned" => excused

\* Every way out has its reason.
Reasons ==
    /\ groupErr = "canceled" => cause # "none"
    /\ groupErr = "fatal" => fatal
    /\ \A t \in Task : task[t] = "gone" => Done
    /\ run = "commands" => Done
    /\ run = "returned" => Done
    /\ HonestStatus

Inv == TypeOK /\ Shape /\ Plane /\ Reasons

\* What is either true or false, and the rest of the types.
Flags == {webEnable, waiting, commandsUp, serial, said, excused, fatal}

States ==
    /\ main \in {"load", "dial", "dialWait", "serve", "goodbye", "disconnect", "exited"}
    /\ code \in {0, 1, Terminated}
    /\ cause \in {"none", "stop", "restart"}
    /\ groupErr \in Error
    /\ run \in {"off", "connect", "status", "routes", "start", "birth", "static",
                "disjoint", "spawn", "wait", "commands", "returned"}
    /\ web \in {"off", "serving", "returned"}
    /\ task \in [Task -> {"unborn", "cycle", "select", "gone"}]
    /\ restarts \in 0..MaxRestarts
    /\ failures \in 0..MaxFailures

\* The type invariant is the two together.
LEMMA TypeParts == TypeOK <=> Flags \subseteq BOOLEAN /\ States
BY DEF TypeOK, Flags, States

\* What a step does to the state of run and its error group is well typed.
LEMMA ReturnType ==
    ASSUME States, NEW err \in Error, Return(err)
    PROVE  run' = "returned" /\ groupErr' \in Error
BY DEF States, Return, Note

\* No step gives a flag another value than true or false.
LEMMA FlagStep == TypeOK /\ [Next]_vars => (Flags \subseteq BOOLEAN)'
<1> SUFFICES ASSUME TypeOK, [Next]_vars PROVE (Flags \subseteq BOOLEAN)'
  OBVIOUS
<1>t. Flags \subseteq BOOLEAN
  BY TypeParts
<1> USE DEF RunFrame, process, coordinator, history
<1>1. CASE Load \/ Dial \/ DialWait
  BY <1>t, <1>1 DEF Load, Dial, DialWait, Serve, Fail, Flags
<1>2. CASE Join \/ Goodbye \/ Disconnect
  BY <1>t, <1>2 DEF Join, Goodbye, Disconnect, Flags
<1>3. ASSUME NEW stage, NEW next, Attempt(stage, next)
      PROVE  (Flags \subseteq BOOLEAN)'
  BY <1>t, <1>3 DEF Attempt, Flags
<1>4. CASE Backoff
  BY <1>t, <1>4 DEF Backoff, Flags
<1>5. CASE Routes \/ Disjoint
  BY <1>t, <1>5 DEF Routes, Disjoint, Fail, Flags
<1>6. CASE Birth \/ Static \/ Spawn \/ Wait
  BY <1>t, <1>6 DEF Birth, Static, Spawn, Wait, Flags
<1>7. CASE StopCommands
  BY <1>t, <1>7 DEF StopCommands, Flags
<1>8. CASE \E t \in Task : TaskStep(t)
  BY <1>t, <1>8 DEF TaskStep, Cycle, Tick, Leave, Flags
<1>9. CASE WebFails \/ WebStops
  BY <1>t, <1>9 DEF WebFails, WebStops, Fail, Flags
<1>10. CASE Signal \/ RestartCommand \/ UNCHANGED vars
  BY <1>t, <1>10 DEF Signal, RestartCommand, vars, Flags
<1>11. CASE Respawn \/ Killed
  BY <1>t, <1>11 DEF Respawn, Killed, Blank, Flags
<1> QED
  BY <1>1, <1>2, <1>3, <1>4, <1>5, <1>6, <1>7, <1>8, <1>9, <1>10, <1>11
     DEF Next, MainStep, RunStep

\* No step leaves the control states, the status, the errors or the bounds.
LEMMA StateStep == TypeOK /\ [Next]_vars => States'
<1> SUFFICES ASSUME TypeOK, [Next]_vars PROVE States'
  OBVIOUS
<1>t. States
  BY TypeParts
<1> USE ConstAssumption DEF RunFrame, process, coordinator, history
<1>f. ASSUME Fail PROVE failures' \in 0..MaxFailures
  BY <1>t, <1>f DEF Fail, States
<1>x. ASSUME NEW err, Exit(err)
      PROVE  main' = "exited" /\ code' \in {0, 1, Terminated}
  BY <1>x DEF Exit, Status
<1>1. CASE Load
  BY <1>t, <1>1, <1>f, <1>x DEF Load, States
<1>2. CASE Dial \/ DialWait
  BY <1>t, <1>2, <1>x DEF Dial, DialWait, Serve, States
<1>3. CASE Join \/ Goodbye \/ Disconnect
  BY <1>t, <1>3, <1>x DEF Join, Goodbye, Disconnect, States
<1>4. ASSUME NEW stage, NEW next \in {"status", "routes", "birth"}, Attempt(stage, next)
      PROVE  States'
  BY <1>t, <1>4, ReturnType DEF Attempt, States, Error
<1>5. CASE Backoff
  BY <1>t, <1>5, ReturnType DEF Backoff, States, Error
<1>6. CASE Routes \/ Disjoint
  BY <1>t, <1>6, <1>f, ReturnType DEF Routes, Disjoint, States, Error
<1>7. CASE Birth \/ Static \/ Spawn \/ Wait
  BY <1>t, <1>7 DEF Birth, Static, Spawn, Wait, States
<1>8. CASE StopCommands
  <2>1. failures' \in 0..MaxFailures
    BY <1>t, <1>8 DEF StopCommands, States
  <2> QED BY <1>t, <1>8, <2>1, ReturnType DEF StopCommands, States, Error
<1>9. CASE \E t \in Task : TaskStep(t)
  BY <1>t, <1>9 DEF TaskStep, Cycle, Tick, Leave, States
<1>10. CASE WebFails
  BY <1>t, <1>10, <1>f DEF WebFails, Note, States, Error
<1>11. CASE WebStops \/ Signal \/ UNCHANGED vars
  BY <1>t, <1>11 DEF WebStops, Signal, vars, States
<1>12. CASE RestartCommand
  <2>1. restarts' \in 0..MaxRestarts
    BY <1>t, <1>12 DEF RestartCommand, States
  <2> QED BY <1>t, <1>12, <2>1 DEF RestartCommand, States
<1>13. CASE Respawn \/ Killed
  BY <1>t, <1>13 DEF Respawn, Killed, Blank, States, Error
<1> QED
  BY <1>1, <1>2, <1>3, <1>4, <1>5, <1>6, <1>7, <1>8, <1>9, <1>10, <1>11, <1>12, <1>13
     DEF Next, MainStep, RunStep

\* No step breaks a type.
LEMMA TypeStep == TypeOK /\ [Next]_vars => TypeOK'
<1> SUFFICES ASSUME TypeOK, [Next]_vars PROVE TypeOK'
  OBVIOUS
<1>1. (Flags \subseteq BOOLEAN)' /\ States'
  BY FlagStep, StateStep
<1> QED BY <1>1 DEF TypeOK, Flags, States

\* No step breaks the fit of the control states.
LEMMA ShapeStep == TypeOK /\ Shape /\ [Next]_vars => Shape'
<1> SUFFICES ASSUME TypeOK, Shape, [Next]_vars PROVE Shape'
  OBVIOUS
<1>1. CASE Load \/ Dial \/ DialWait
  BY <1>1 DEF Load, Dial, DialWait, Serve, Exit, Shape, TypeOK, coordinator
<1>2. CASE Join \/ Goodbye \/ Disconnect
  BY <1>2 DEF Join, Goodbye, Disconnect, Exit, Shape, TypeOK, coordinator
\* Run is not returned, so main serves: it is the only one that can move run.
<1>s. ASSUME run \notin {"off", "returned"} PROVE main = "serve" /\ ~said
  BY <1>s DEF Shape, TypeOK
<1>3. ASSUME NEW stage \in {"connect", "status", "start"}, NEW next \in {"status", "routes", "birth"},
             Attempt(stage, next)
      PROVE  Shape'
  BY <1>3, <1>s DEF Attempt, Return, RunFrame, Shape, TypeOK
<1>4. CASE Backoff
  BY <1>4, <1>s DEF Backoff, Return, RunFrame, Shape, TypeOK
<1>5. CASE Routes \/ Disjoint \/ StopCommands
  BY <1>5, <1>s DEF Routes, Disjoint, StopCommands, Return, RunFrame, Shape, TypeOK
<1>6. CASE Birth \/ Static \/ Spawn
  BY <1>6, <1>s DEF Birth, Static, Spawn, RunFrame, Shape, TypeOK
<1>7. CASE Wait
  BY <1>7, <1>s DEF Wait, RunFrame, Shape, TypeOK
<1>8. CASE \E t \in Task : TaskStep(t)
  BY <1>8 DEF TaskStep, Cycle, Tick, Leave, RunFrame, Shape, TypeOK
<1>9. CASE WebFails \/ WebStops
  BY <1>9 DEF WebFails, WebStops, Shape, process, coordinator
<1>10. CASE Signal \/ RestartCommand \/ UNCHANGED vars
  BY <1>10 DEF Signal, RestartCommand, vars, process, coordinator, Shape
<1>11. CASE Respawn \/ Killed
  BY <1>11 DEF Respawn, Killed, Blank, Shape
<1> QED
  BY <1>1, <1>2, <1>3, <1>4, <1>5, <1>6, <1>7, <1>8, <1>9, <1>10, <1>11
     DEF Next, MainStep, RunStep

\* No step lets a command in without the excuse.
LEMMA PlaneStep == TypeOK /\ Shape /\ Plane /\ [Next]_vars => Plane'
<1> SUFFICES ASSUME TypeOK, Shape, Plane, [Next]_vars PROVE Plane'
  OBVIOUS
<1>1. CASE Load \/ Dial \/ DialWait
  BY <1>1 DEF Load, Dial, DialWait, Serve, Shape, Plane, coordinator, history
<1>2. CASE Join \/ Goodbye \/ Disconnect
  BY <1>2 DEF Join, Goodbye, Disconnect, Plane, coordinator, history
<1>3. ASSUME NEW stage \in {"connect", "status", "start"}, NEW next \in {"status", "routes", "birth"},
             Attempt(stage, next)
      PROVE  Plane'
  BY <1>3 DEF Attempt, Return, Plane, TypeOK, history
<1>4. CASE Backoff
  BY <1>4 DEF Backoff, Return, Shape, Plane, history
<1>5. CASE Routes \/ Disjoint \/ StopCommands
  BY <1>5 DEF Routes, Disjoint, StopCommands, Return, Plane, history
<1>6. CASE Birth \/ Static \/ Spawn \/ Wait
  BY <1>6 DEF Birth, Static, Spawn, Wait, Plane, history
<1>7. CASE \E t \in Task : TaskStep(t)
  BY <1>7 DEF TaskStep, Cycle, Tick, Leave, Plane, history
<1>8. CASE WebFails \/ WebStops \/ Signal \/ RestartCommand \/ UNCHANGED vars
  BY <1>8 DEF WebFails, WebStops, Signal, RestartCommand, vars, process, coordinator,
     history, Plane
<1>9. CASE Respawn \/ Killed
  BY <1>9 DEF Respawn, Killed, Blank, Plane
<1> QED
  BY <1>1, <1>2, <1>3, <1>4, <1>5, <1>6, <1>7, <1>8, <1>9 DEF Next, MainStep, RunStep

\* No step ends anything without a reason.
LEMMA ReasonsStep == TypeOK /\ Shape /\ Reasons /\ [Next]_vars => Reasons'
<1> SUFFICES ASSUME TypeOK, Shape, Reasons, [Next]_vars PROVE Reasons'
  OBVIOUS
<1> USE ConstAssumption
<1>f. ASSUME Fail PROVE fatal'
  BY <1>f DEF Fail
<1>1. CASE Load \/ Dial \/ DialWait
  BY <1>1, <1>f DEF Load, Dial, DialWait, Serve, Exit, Status, FatalErr, Reasons,
     HonestStatus, Done, Shape, TypeOK, Error, coordinator, history
<1>2. CASE Join \/ Goodbye
  BY <1>2 DEF Join, Goodbye, Reasons, HonestStatus, Done, coordinator, history
<1>3. CASE Disconnect
  BY <1>3 DEF Disconnect, Exit, Status, FatalErr, Reasons, HonestStatus, Done, Shape,
     TypeOK, Error, coordinator, history
\* Run serves while it moves, and nothing it notes makes the context undone.
<1>s. ASSUME run \notin {"off", "returned"} PROVE main # "exited"
  BY <1>s DEF Shape
<1>4. ASSUME NEW stage \in {"connect", "status", "start"}, NEW next \in {"status", "routes", "birth"},
             Attempt(stage, next)
      PROVE  Reasons'
  BY <1>4, <1>s DEF Attempt, Return, Note, RunFrame, Reasons, HonestStatus, Done, TypeOK,
     Error, history
<1>5. CASE Backoff
  BY <1>5, <1>s DEF Backoff, Return, Note, RunFrame, Reasons, HonestStatus, Done, Shape,
     TypeOK, Error, history
<1>6. CASE Routes \/ Disjoint
  BY <1>6, <1>s, <1>f DEF Routes, Disjoint, Return, Note, RunFrame, Reasons, HonestStatus,
     Done, TypeOK, Error, history
<1>7. CASE StopCommands
  BY <1>7, <1>s DEF StopCommands, Return, Note, RunFrame, Reasons, HonestStatus, Done,
     TypeOK, Error, history
<1>8. CASE Birth \/ Static \/ Spawn
  BY <1>8, <1>s DEF Birth, Static, Spawn, RunFrame, Reasons, HonestStatus, Done, history
<1>9. CASE Wait
  <2>1. Done
    BY <1>9 DEF Wait, Reasons
  <2> QED BY <1>9, <1>s, <2>1 DEF Wait, RunFrame, Reasons, HonestStatus, Done, history
<1>10. CASE \E t \in Task : TaskStep(t)
  BY <1>10
     DEF TaskStep, Cycle, Tick, Leave, RunFrame, Reasons, HonestStatus, Done, TypeOK,
     history
<1>11. CASE WebFails
  BY <1>11, <1>f DEF WebFails, Note, Reasons, HonestStatus, Done, Shape, coordinator
<1>12. CASE WebStops \/ UNCHANGED vars
  BY <1>12 DEF WebStops, vars, process, coordinator, history, Reasons, HonestStatus, Done
<1>13. CASE Signal \/ RestartCommand
  BY <1>13 DEF Signal, RestartCommand, coordinator, history, Reasons, HonestStatus, Done
<1>14. CASE Respawn \/ Killed
  BY <1>14 DEF Respawn, Killed, Blank, Terminated, Reasons, HonestStatus, Done
<1> QED
  BY <1>1, <1>2, <1>3, <1>4, <1>5, <1>6, <1>7, <1>8, <1>9, <1>10, <1>11, <1>12, <1>13,
     <1>14 DEF Next, MainStep, RunStep

\* A process that has just been started.
LEMMA InitType == Init => TypeOK
<1> SUFFICES ASSUME Init PROVE TypeOK
  OBVIOUS
<1>1. restarts \in 0..MaxRestarts /\ failures \in 0..MaxFailures
  BY ConstAssumption DEF Init
<1>2. {webEnable, waiting, commandsUp, serial, said, excused, fatal} \subseteq BOOLEAN
  BY DEF Init
<1>3. task \in [Task -> {"unborn", "cycle", "select", "gone"}]
  BY DEF Init
<1> QED BY <1>1, <1>2, <1>3 DEF Init, TypeOK, Error

\* Every variable of the life of a daemon keeps its type.
THEOREM TypeCorrect == Spec => []TypeOK
<1> QED BY InitType, TypeStep, PTL DEF Spec

\* The strengthening is an invariant.
LEMMA Invariance == Spec => []Inv
<1>1. Init => Shape /\ Plane
  BY DEF Init, Shape, Plane
<1>2. Init => Reasons
  BY DEF Init, Reasons, HonestStatus
<1>3. Init => Inv
  BY <1>1, <1>2, InitType DEF Inv
<1>4. Inv /\ [Next]_vars => Inv'
  BY TypeStep, ShapeStep, PlaneStep, ReasonsStep DEF Inv
<1> QED BY <1>3, <1>4, PTL DEF Spec

\* Whatever the goroutines do, and whatever failed: when the daemon says 0,
\* nothing of it is left that could say or do anything more, and unless it is
\* killed it says it.
THEOREM LastWordHolds == Spec => []LastWord
<1>1. Inv => LastWord
  BY DEF Inv, TypeOK, Shape, Plane, LastWord
<1> QED BY <1>1, Invariance, PTL

\* The exit status is 1 after a failure only, 0 after a request only, and that
\* of a kill after the operator's signal only.
THEOREM HonestStatusHolds == Spec => []HonestStatus
<1>1. Inv => HonestStatus
  BY DEF Inv, Reasons
<1> QED BY <1>1, Invariance, PTL
=============================================================================
