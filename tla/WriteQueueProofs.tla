--------------------------- MODULE WriteQueueProofs ---------------------------
(***************************************************************************)
(* Proofs about the command path, for any number of commands, any channel  *)
(* capacity and any bound on attempts and retries.                         *)
(***************************************************************************)
EXTENDS WriteQueue, TLAPS

-----------------------------------------------------------------------------
(* Sequences as channels *)

\* Taking the head of a non-empty channel: what is left, and how it is indexed.
LEMMA TailFacts ==
    ASSUME NEW S, NEW q \in Seq(S), q # <<>>
    PROVE  /\ Head(q) \in S
           /\ Tail(q) \in Seq(S)
           /\ Len(Tail(q)) = Len(q) - 1
           /\ Len(q) \in Nat \ {0}
           /\ DOMAIN Tail(q) = 1..(Len(q) - 1)
           /\ DOMAIN q = 1..Len(q)
           /\ \A i \in DOMAIN Tail(q) : i + 1 \in DOMAIN q /\ Tail(q)[i] = q[i + 1]
           /\ Head(q) = q[1] /\ 1 \in DOMAIN q
           /\ Range(q) = {Head(q)} \cup Range(Tail(q))
<1>1. /\ Head(q) \in S
      /\ Tail(q) \in Seq(S)
      /\ Len(Tail(q)) = Len(q) - 1
      /\ Len(q) \in Nat \ {0}
      /\ DOMAIN Tail(q) = 1..(Len(q) - 1)
      /\ DOMAIN q = 1..Len(q)
      /\ \A i \in DOMAIN Tail(q) : i + 1 \in DOMAIN q /\ Tail(q)[i] = q[i + 1]
      /\ Head(q) = q[1] /\ 1 \in DOMAIN q
  OBVIOUS
<1>2. Range(q) \subseteq {Head(q)} \cup Range(Tail(q))
  <2> SUFFICES ASSUME NEW i \in DOMAIN q
               PROVE  q[i] \in {Head(q)} \cup Range(Tail(q))
    BY DEF Range
  <2>1. CASE i = 1
    BY <1>1, <2>1
  <2>2. CASE i # 1
    <3>1. i - 1 \in DOMAIN Tail(q) /\ Tail(q)[i - 1] = q[i]
      BY <1>1, <2>2
    <3> QED BY <3>1 DEF Range
  <2> QED BY <2>1, <2>2
<1>3. {Head(q)} \cup Range(Tail(q)) \subseteq Range(q)
  BY <1>1 DEF Range
<1> QED BY <1>1, <1>2, <1>3

\* Sending on a channel.
LEMMA AppendFacts ==
    ASSUME NEW S, NEW q \in Seq(S), NEW c \in S
    PROVE  /\ Append(q, c) \in Seq(S)
           /\ Len(Append(q, c)) = Len(q) + 1
           /\ Len(q) \in Nat
           /\ DOMAIN Append(q, c) = 1..(Len(q) + 1)
           /\ DOMAIN q = 1..Len(q)
           /\ \A i \in DOMAIN q : Append(q, c)[i] = q[i]
           /\ Append(q, c)[Len(q) + 1] = c
           /\ Range(Append(q, c)) = Range(q) \cup {c}
<1>1. /\ Append(q, c) \in Seq(S)
      /\ Len(Append(q, c)) = Len(q) + 1
      /\ Len(q) \in Nat
      /\ DOMAIN Append(q, c) = 1..(Len(q) + 1)
      /\ DOMAIN q = 1..Len(q)
      /\ \A i \in DOMAIN q : Append(q, c)[i] = q[i]
      /\ Append(q, c)[Len(q) + 1] = c
  OBVIOUS
<1>2. Range(Append(q, c)) \subseteq Range(q) \cup {c}
  <2> SUFFICES ASSUME NEW i \in DOMAIN Append(q, c)
               PROVE  Append(q, c)[i] \in Range(q) \cup {c}
    BY DEF Range
  <2>1. CASE i = Len(q) + 1
    BY <1>1, <2>1
  <2>2. CASE i # Len(q) + 1
    <3>1. i \in DOMAIN q
      BY <1>1, <2>2
    <3> QED BY <1>1, <3>1 DEF Range
  <2> QED BY <2>1, <2>2
<1>3. Range(q) \cup {c} \subseteq Range(Append(q, c))
  <2>1. \A i \in DOMAIN q : q[i] \in Range(Append(q, c))
    BY <1>1 DEF Range
  <2>2. c \in Range(Append(q, c))
    <3>1. Len(q) + 1 \in DOMAIN Append(q, c)
      BY <1>1
    <3> QED BY <1>1, <3>1 DEF Range
  <2> QED BY <2>1, <2>2 DEF Range
<1> QED BY <1>1, <1>2, <1>3

-----------------------------------------------------------------------------
(* Type correctness *)

\* The worker exists only once Run has spawned it, holds a request exactly
\* while it dispatches or backs off, and backs off only with attempts left.
WorkerShape ==
    /\ (cur # None) <=> (wpc \in {"dispatch", "backoff"})
    /\ wpc = "backoff" => tries < WriteRetries
    /\ phase \in {"boot", "subscribed", "static"} => wpc = "unborn"
    /\ \A c \in Cmd : pc[c] \in {"send", "drain"} => attempt[c] >= 1

LEMMA TypeStep ==
    TypeOK /\ WorkerShape /\ [Next]_vars => TypeOK' /\ WorkerShape'
<1> SUFFICES ASSUME TypeOK, WorkerShape, [Next]_vars
             PROVE  TypeOK' /\ WorkerShape'
  OBVIOUS
<1> USE ConstAssumption
<1>1. CASE RunStep
  BY <1>1 DEF TypeOK, WorkerShape, RunStep, InstallInboundHandler, WaitForStatic,
     Spawn, RunAborts, Cancel, StopCommands, workerVars, producerVars,
     inverterVars, issueVars
<1>2. CASE WorkerStart \/ WorkerRetry \/ WorkerExit
  <2>1. CASE WorkerStart
    BY <2>1 DEF TypeOK, WorkerShape, WorkerStart, runVars, producerVars,
       inverterVars, issueVars
  <2>2. CASE WorkerRetry
    <3>1. tries' \in 0..WriteRetries
      BY <2>2 DEF TypeOK, WorkerShape, WorkerRetry
    <3>2. WorkerShape'
      BY <2>2 DEF TypeOK, WorkerShape, WorkerRetry, runVars, producerVars
    <3> QED
      BY <2>2, <3>1, <3>2 DEF TypeOK, WorkerRetry, runVars, producerVars,
         inverterVars, issueVars
  <2>3. CASE WorkerExit
    BY <2>3 DEF TypeOK, WorkerShape, WorkerExit, runVars, producerVars,
       inverterVars, issueVars
  <2> QED BY <1>2, <2>1, <2>2, <2>3
<1>3. CASE WorkerTake
  <2>1. Head(queue) \in Cmd /\ Tail(queue) \in Seq(Cmd)
    BY <1>3, TailFacts DEF WorkerTake, TypeOK
  <2> QED
    BY <1>3, <2>1 DEF TypeOK, WorkerShape, WorkerTake, runVars, producerVars,
       inverterVars, issueVars
<1>4. ASSUME NEW err \in Outcome, cur \in Cmd, Settle(err),
             UNCHANGED <<runVars, workerUp, queue, producerVars, accepted, issueVars>>,
             register' \in Cmd \cup {None}, written' \subseteq Cmd
      PROVE  TypeOK' /\ WorkerShape'
  <2>1. Append(outcomes[cur], err) \in Seq(Outcome)
    BY <1>4 DEF TypeOK
  <2>2. outcomes' \in [Cmd -> Seq(Outcome)]
    BY <1>4, <2>1 DEF TypeOK, Settle
  <2> QED
    BY <1>4, <2>2 DEF TypeOK, WorkerShape, Settle, runVars, producerVars, issueVars
<1>5. CASE WorkerDispatch
  <2>1. cur \in Cmd
    BY <1>5 DEF WorkerDispatch, TypeOK, WorkerShape
  <2>2. PICK err \in Outcome, reg \in {register, cur} :
          /\ WireEffect(cur, reg)
          /\ IF err = "failed" /\ tries < WriteRetries
             THEN wpc' = "backoff" /\ UNCHANGED <<cur, tries, outcomes>>
             ELSE Settle(err)
    BY <1>5 DEF WorkerDispatch
  <2>3. register' \in Cmd \cup {None} /\ written' \subseteq Cmd
    BY <2>1, <2>2 DEF WireEffect, TypeOK
  <2>4. CASE err = "failed" /\ tries < WriteRetries
    BY <1>5, <2>2, <2>3, <2>4 DEF TypeOK, WorkerShape, WorkerDispatch, runVars,
       producerVars, issueVars
  <2>5. CASE ~(err = "failed" /\ tries < WriteRetries)
    <3>1. Settle(err)
      BY <2>2, <2>5
    <3>2. UNCHANGED <<runVars, workerUp, queue, producerVars, accepted, issueVars>>
      BY <1>5 DEF WorkerDispatch
    <3> QED BY <1>4, <2>1, <2>3, <3>1, <3>2
  <2> QED BY <2>4, <2>5
<1>6. CASE WorkerRetryCancelled
  <2>1. cur \in Cmd /\ "ctx" \in Outcome /\ Settle("ctx")
    BY <1>6 DEF WorkerRetryCancelled, TypeOK, WorkerShape, Outcome
  <2>2. /\ UNCHANGED <<runVars, workerUp, queue, producerVars, accepted, issueVars>>
        /\ register' \in Cmd \cup {None} /\ written' \subseteq Cmd
    BY <1>6 DEF WorkerRetryCancelled, TypeOK, inverterVars
  <2> QED BY <1>4, <2>1, <2>2
<1>7. Range(queue) \subseteq Cmd
  BY DEF Range, TypeOK
<1>8. ASSUME NEW c \in MqttCmd, OnSetDropped(c) \/ OnSet(c)
      PROVE  TypeOK' /\ WorkerShape'
  <2>1. c \in Cmd /\ Pending \subseteq Cmd
    BY <1>7 DEF Cmd, Pending, TypeOK
  <2>2. CASE OnSetDropped(c)
    <3>1. result' \in [Cmd -> Result] /\ WorkerShape'
      BY <2>1, <2>2 DEF TypeOK, WorkerShape, OnSetDropped, Return, Result,
         runVars, workerVars
    <3> QED
      BY <2>1, <2>2, <3>1 DEF TypeOK, OnSetDropped, Return, runVars, workerVars,
         inverterVars, issueVars
  <2>3. CASE OnSet(c)
    <3>1. attempt' \in [Cmd -> 0..MaxAttempts] /\ WorkerShape'
      BY <2>1, <2>3 DEF TypeOK, WorkerShape, OnSet, Begin, runVars, workerVars
    <3>2. ahead' \in [Cmd -> SUBSET Cmd]
      BY <2>1, <2>3 DEF TypeOK, OnSet, Begin
    <3> QED
      BY <2>1, <2>3, <3>1, <3>2 DEF TypeOK, OnSet, Begin, runVars, workerVars,
         inverterVars
  <2> QED BY <1>8, <2>2, <2>3
<1>9. ASSUME NEW c \in WatchdogCmd, EvccFallback(c)
      PROVE  TypeOK' /\ WorkerShape'
  <2>1. c \in Cmd /\ Pending \subseteq Cmd
    BY <1>7 DEF Cmd, Pending, TypeOK
  <2> QED
    BY <1>9, <2>1 DEF TypeOK, WorkerShape, EvccFallback, Begin,
       runVars, workerVars, inverterVars
<1>10. ASSUME NEW c \in WebCmd, Write(c) \/ WriteGivenUp(c)
       PROVE  TypeOK' /\ WorkerShape'
  <2>1. c \in Cmd /\ Pending \subseteq Cmd
    BY <1>7 DEF Cmd, Pending, TypeOK
  <2>2. CASE WriteGivenUp(c)
    <3>1. result' \in [Cmd -> Result] /\ WorkerShape'
      BY <2>1, <2>2 DEF TypeOK, WorkerShape, WriteGivenUp, Return, Result,
         Outcome, runVars, workerVars
    <3> QED
      BY <2>1, <2>2, <3>1 DEF TypeOK, WriteGivenUp, Return, runVars, workerVars,
         inverterVars, issueVars
  <2>3. CASE Write(c)
    <3>1. /\ \/ Begin(c, "send") /\ attempt' = [attempt EXCEPT ![c] = 1]
             \/ Begin(c, "inline") /\ UNCHANGED attempt
          /\ UNCHANGED <<runVars, workerVars, queue, result, outcomes,
                         inverterVars, accepted, lastSet>>
      BY <2>3, Zenon DEF Write
    <3>a. /\ attempt \in [Cmd -> 0..MaxAttempts]
          /\ pc \in [Cmd -> {"idle", "send", "drain", "wait", "inline", "done"}]
          /\ ahead \in [Cmd -> SUBSET Cmd]
      BY DEF TypeOK
    <3>2. attempt' \in [Cmd -> 0..MaxAttempts] /\ WorkerShape'
      BY <2>1, <3>1, <3>a DEF WorkerShape, Begin, runVars, workerVars
    <3>3. /\ ahead' \in [Cmd -> SUBSET Cmd]
          /\ pc' \in [Cmd -> {"idle", "send", "drain", "wait", "inline", "done"}]
      BY <2>1, <3>1, <3>a DEF Begin
    <3> QED
      BY <3>1, <3>2, <3>3 DEF TypeOK, runVars, workerVars, inverterVars
  <2> QED BY <1>10, <2>2, <2>3
<1>11. ASSUME NEW c \in Cmd, EnqueueSend(c)
       PROVE  TypeOK' /\ WorkerShape'
  <2>1. Append(queue, c) \in Seq(Cmd)
    BY DEF TypeOK
  <2> QED
    BY <1>11, <2>1 DEF TypeOK, WorkerShape, EnqueueSend, Return, Result,
       runVars, workerVars, inverterVars, issueVars
<1>12. ASSUME NEW c \in Cmd, EnqueueDrop(c)
       PROVE  TypeOK' /\ WorkerShape'
  <2>1. queue' \in Seq(Cmd) /\ outcomes' \in [Cmd -> Seq(Outcome)]
    <3>1. CASE queue = <<>>
      BY <1>12, <3>1 DEF EnqueueDrop, TypeOK
    <3>2. CASE queue # <<>>
      <4>1. Head(queue) \in Cmd /\ Tail(queue) \in Seq(Cmd)
        BY <3>2, TailFacts DEF TypeOK
      <4>2. Append(outcomes[Head(queue)], "superseded") \in Seq(Outcome)
        BY <4>1 DEF TypeOK, Outcome
      <4>3. /\ queue' = Tail(queue)
            /\ outcomes' = [outcomes EXCEPT ![Head(queue)] =
                              Append(outcomes[Head(queue)], "superseded")]
        BY <1>12, <3>2 DEF EnqueueDrop
      <4> QED BY <4>1, <4>2, <4>3 DEF TypeOK
    <3> QED BY <3>1, <3>2
  <2>2. NextAttempt(c) /\ UNCHANGED <<runVars, workerVars, inverterVars, accepted, issueVars>>
    BY <1>12 DEF EnqueueDrop
  <2>a. /\ attempt \in [Cmd -> 0..MaxAttempts]
        /\ pc \in [Cmd -> {"idle", "send", "drain", "wait", "inline", "done"}]
        /\ result \in [Cmd -> Result]
    BY DEF TypeOK
  <2>3. attempt' \in [Cmd -> 0..MaxAttempts]
    BY <2>2, <2>a DEF NextAttempt
  <2>4. /\ result' \in [Cmd -> Result]
        /\ pc' \in [Cmd -> {"idle", "send", "drain", "wait", "inline", "done"}]
    BY <2>2, <2>a DEF NextAttempt, Return, Result
  <2>5. WorkerShape'
    BY <2>2, <2>a DEF NextAttempt, WorkerShape, Return, runVars, workerVars
  <2> QED
    BY <2>1, <2>2, <2>3, <2>4, <2>5 DEF TypeOK, runVars, workerVars,
       inverterVars, issueVars
<1>13. ASSUME NEW c \in Cmd, WriteReply(c)
       PROVE  TypeOK' /\ WorkerShape'
  <2>1. Head(outcomes[c]) \in Outcome
    BY <1>13 DEF WriteReply, TypeOK
  <2> QED
    BY <1>13, <2>1 DEF TypeOK, WorkerShape, WriteReply, Return, Result,
       runVars, workerVars, inverterVars, issueVars
<1>14. ASSUME NEW c \in Cmd, WriteInline(c)
       PROVE  TypeOK' /\ WorkerShape'
  BY <1>14 DEF TypeOK, WorkerShape, WriteInline, WireEffect, Return, Result,
     runVars, workerVars, issueVars
<1>15. CASE UNCHANGED vars
  BY <1>15 DEF TypeOK, WorkerShape, vars, runVars, workerVars, producerVars,
     inverterVars, issueVars
<1> QED
  BY <1>1, <1>2, <1>3, <1>5, <1>6, <1>8, <1>9, <1>10, <1>11, <1>12, <1>13,
     <1>14, <1>15 DEF Next, WorkerStep, CallStep

\* Every variable of the command path keeps its type.
THEOREM TypeCorrect == Spec => [](TypeOK /\ WorkerShape)
<1>1. Init => TypeOK /\ WorkerShape
  <2> SUFFICES ASSUME Init PROVE TypeOK /\ WorkerShape
    OBVIOUS
  <2>1. queue \in Seq(Cmd) /\ outcomes \in [Cmd -> Seq(Outcome)]
    BY DEF Init
  <2>2. WorkerShape
    BY DEF Init, WorkerShape
  <2>3. tries \in 0..WriteRetries /\ attempt \in [Cmd -> 0..MaxAttempts]
    BY ConstAssumption DEF Init
  <2>4. ahead \in [Cmd -> SUBSET Cmd] /\ result \in [Cmd -> Result]
    BY DEF Init, Result
  <2> QED BY <2>1, <2>2, <2>3, <2>4 DEF Init, TypeOK
<1> QED BY <1>1, TypeStep, PTL DEF Spec

-----------------------------------------------------------------------------
(* One fate per command *)

\* Where a command is before its call has put it on the channel.
Before == {"idle", "send", "drain", "inline"}

\* ExactlyOnce is not inductive: a command sent twice would be on the channel
\* twice.  It is not, because it is accepted only by its own call, which then
\* leaves the states in Before for good.
Custody ==
    /\ ExactlyOnce
    /\ \A c \in Cmd : pc[c] \in Before => c \notin accepted

LEMMA CustodyStep ==
    TypeOK /\ WorkerShape /\ Custody /\ [Next]_vars => Custody'
<1> SUFFICES ASSUME TypeOK, WorkerShape, Custody, [Next]_vars
             PROVE  Custody'
  OBVIOUS
<1> USE ConstAssumption
<1>t. /\ cur \in Cmd \cup {None}
      /\ queue \in Seq(Cmd)
      /\ pc \in [Cmd -> {"idle", "send", "drain", "wait", "inline", "done"}]
      /\ outcomes \in [Cmd -> Seq(Outcome)]
      /\ accepted \subseteq Cmd
  BY DEF TypeOK
<1>c. /\ Len(queue) <= QueueCap
      /\ \A i, j \in DOMAIN queue : queue[i] = queue[j] => i = j
      /\ cur \notin Range(queue)
      /\ \A c \in Cmd :
          Len(outcomes[c]) = IF c \in accepted \ Pending THEN 1 ELSE 0
      /\ Pending \subseteq accepted
      /\ \A c \in Cmd : pc[c] \in Before => c \notin accepted
  BY DEF Custody, ExactlyOnce
\* Steps that touch neither the channel nor the worker's request.
<1>q. ASSUME UNCHANGED <<queue, cur, outcomes, accepted>>,
             \A c \in Cmd : pc'[c] \in Before => pc[c] \in Before
      PROVE  Custody'
  BY <1>q, <1>c DEF Custody, ExactlyOnce, Pending
<1>1. CASE RunStep \/ WorkerStart \/ WorkerRetry \/ WorkerExit \/ UNCHANGED vars
  <2>1. UNCHANGED <<queue, cur, outcomes, accepted, pc>>
    BY <1>1 DEF RunStep, InstallInboundHandler, WaitForStatic, Spawn, RunAborts,
       Cancel, StopCommands, WorkerStart, WorkerRetry, WorkerExit, vars,
       workerVars, producerVars
  <2> QED BY <1>q, <2>1
<1>2. CASE WorkerTake
  <2>1. /\ queue # <<>> /\ cur = None
        /\ cur' = Head(queue) /\ queue' = Tail(queue)
        /\ UNCHANGED <<pc, outcomes, accepted>>
    BY <1>2 DEF WorkerTake, WorkerShape, producerVars
  <2>2. /\ Head(queue) \in Cmd /\ Tail(queue) \in Seq(Cmd)
        /\ Len(Tail(queue)) = Len(queue) - 1 /\ Len(queue) \in Nat
        /\ \A i \in DOMAIN Tail(queue) :
             i \in Nat /\ i + 1 \in DOMAIN queue /\ Tail(queue)[i] = queue[i + 1]
        /\ Head(queue) = queue[1] /\ 1 \in DOMAIN queue
        /\ Range(queue) = {Head(queue)} \cup Range(Tail(queue))
    BY <1>t, <2>1, TailFacts
  <2>3. Head(queue) \notin Range(Tail(queue))
    <3> SUFFICES ASSUME NEW i \in DOMAIN Tail(queue), Tail(queue)[i] = Head(queue)
                 PROVE  FALSE
      BY DEF Range
    <3>1. i + 1 = 1 /\ i \in Nat
      BY <1>c, <2>2
    <3>2. i \in 1..Len(Tail(queue))
      BY <2>2
    <3> QED BY <3>1, <3>2
  <2>4. \A i, j \in DOMAIN queue' : queue'[i] = queue'[j] => i = j
    BY <1>c, <2>1, <2>2
  <2>5. Pending' = Pending
    BY <2>1, <2>2 DEF Pending
  <2>6. Len(queue') <= QueueCap
    BY <1>c, <2>1, <2>2
  <2> QED BY <1>c, <2>1, <2>3, <2>4, <2>5, <2>6 DEF Custody, ExactlyOnce
<1>3. ASSUME NEW err \in Outcome, cur \in Cmd, Settle(err),
             UNCHANGED <<queue, pc, accepted>>
      PROVE  Custody'
  <2>1. /\ cur' = None
        /\ outcomes' = [outcomes EXCEPT ![cur] = Append(outcomes[cur], err)]
    BY <1>3 DEF Settle
  <2>2. Pending' = Pending \ {cur}
    BY <1>3, <1>c, <2>1 DEF Pending
  <2>3. cur \in Pending
    BY <1>3 DEF Pending
  <2>4. Len(outcomes'[cur]) = 1
    <3>1. outcomes[cur] \in Seq(Outcome) /\ Len(outcomes[cur]) = 0
      BY <1>3, <1>t, <1>c, <2>3
    <3> QED BY <1>3, <1>t, <2>1, <3>1
  <2>5. \A c \in Cmd : c # cur => outcomes'[c] = outcomes[c]
    BY <1>t, <2>1
  <2>6. \A c \in Cmd :
          Len(outcomes'[c]) = IF c \in accepted' \ Pending' THEN 1 ELSE 0
    BY <1>3, <1>c, <2>2, <2>3, <2>4, <2>5
  <2>7. cur' \notin Range(queue')
    <3>1. Range(queue) \subseteq Cmd
      BY <1>t DEF Range
    <3> QED BY <1>3, <2>1, <3>1
  <2> QED BY <1>3, <1>c, <2>2, <2>6, <2>7 DEF Custody, ExactlyOnce
<1>4. CASE WorkerDispatch
  <2>1. cur \in Cmd
    BY <1>4, <1>t DEF WorkerDispatch, WorkerShape
  <2>2. UNCHANGED <<queue, pc, accepted>>
    BY <1>4 DEF WorkerDispatch, producerVars
  <2>3. PICK err \in Outcome :
          IF err = "failed" /\ tries < WriteRetries
          THEN wpc' = "backoff" /\ UNCHANGED <<cur, tries, outcomes>>
          ELSE Settle(err)
    BY <1>4 DEF WorkerDispatch
  <2>4. CASE Settle(err)
    BY <1>3, <2>1, <2>2, <2>4
  <2>5. CASE UNCHANGED <<cur, tries, outcomes>>
    BY <1>q, <2>2, <2>5
  <2> QED BY <2>3, <2>4, <2>5
<1>5. CASE WorkerRetryCancelled
  <2>1. cur \in Cmd /\ "ctx" \in Outcome
    BY <1>5, <1>t DEF WorkerRetryCancelled, WorkerShape, Outcome
  <2> QED BY <1>3, <1>5, <2>1 DEF WorkerRetryCancelled, producerVars
\* Starting and leaving a call.
<1>6. ASSUME NEW c \in Cmd,
             \/ OnSetDropped(c) \/ OnSet(c) \/ EvccFallback(c) \/ Write(c)
             \/ WriteGivenUp(c) \/ WriteReply(c) \/ WriteInline(c)
      PROVE  Custody'
  <2>1. UNCHANGED <<queue, cur, outcomes, accepted>>
    BY <1>6, Zenon DEF OnSetDropped, OnSet, EvccFallback, Write, WriteGivenUp,
       WriteReply, WriteInline, workerVars
  <2>2. \/ pc' = [pc EXCEPT ![c] = "done"]
        \/ /\ pc[c] = "idle"
           /\ \/ pc' = [pc EXCEPT ![c] = "send"]
              \/ pc' = [pc EXCEPT ![c] = "inline"]
    BY <1>6, Zenon DEF OnSetDropped, OnSet, EvccFallback, Write, WriteGivenUp,
       WriteReply, WriteInline, Begin, Return
  <2>3. \A d \in Cmd : pc'[d] \in Before => pc[d] \in Before
    BY <1>t, <2>2 DEF Before
  <2> QED BY <1>q, <2>1, <2>3
<1>7. ASSUME NEW c \in Cmd, EnqueueSend(c)
      PROVE  Custody'
  <2>1. pc[c] = "send" /\ UNCHANGED <<cur, outcomes>>
    BY <1>7 DEF EnqueueSend, workerVars
  <2>2. CASE ~(Len(queue) < QueueCap)
    <3>1. pc' = [pc EXCEPT ![c] = "drain"] /\ UNCHANGED <<queue, accepted>>
      BY <1>7, <2>2 DEF EnqueueSend
    <3>2. \A d \in Cmd : pc'[d] \in Before => pc[d] \in Before
      BY <1>t, <2>1, <3>1 DEF Before
    <3> QED BY <1>q, <2>1, <3>1, <3>2
  <2>3. CASE Len(queue) < QueueCap
    <3>1. /\ queue' = Append(queue, c) /\ accepted' = accepted \cup {c}
          /\ \/ pc' = [pc EXCEPT ![c] = "wait"]
             \/ pc' = [pc EXCEPT ![c] = "done"]
      BY <1>7, <2>3 DEF EnqueueSend, Return
    <3>2. c \notin accepted /\ c \notin Pending
      BY <1>c, <2>1 DEF Before
    <3>3. /\ Len(queue) \in Nat /\ Len(queue') = Len(queue) + 1
          /\ DOMAIN queue' = 1..(Len(queue) + 1) /\ DOMAIN queue = 1..Len(queue)
          /\ \A i \in DOMAIN queue : queue'[i] = queue[i]
          /\ queue'[Len(queue) + 1] = c
          /\ Range(queue') = Range(queue) \cup {c}
      BY <1>t, <3>1, AppendFacts
    <3>4. \A i \in DOMAIN queue : queue[i] # c
      BY <3>2 DEF Pending, Range
    <3>5. \A i, j \in DOMAIN queue' : queue'[i] = queue'[j] => i = j
      <4> SUFFICES ASSUME NEW i \in DOMAIN queue', NEW j \in DOMAIN queue',
                          queue'[i] = queue'[j]
                   PROVE  i = j
        OBVIOUS
      <4>1. CASE i \in DOMAIN queue /\ j \in DOMAIN queue
        BY <1>c, <3>3, <4>1
      <4>2. CASE i \notin DOMAIN queue \/ j \notin DOMAIN queue
        BY <3>3, <3>4, <4>2
      <4> QED BY <4>1, <4>2
    <3>6. Len(queue') <= QueueCap
      BY <2>3, <3>3
    <3>7. Pending' = Pending \cup {c}
      BY <2>1, <3>3 DEF Pending
    <3>8. cur' \notin Range(queue')
      BY <1>c, <2>1, <3>2, <3>3 DEF Pending
    <3>9. \A d \in Cmd : pc'[d] \in Before => d \notin accepted'
      BY <1>t, <1>c, <3>1 DEF Before
    <3>10. \A d \in Cmd :
             Len(outcomes'[d]) = IF d \in accepted' \ Pending' THEN 1 ELSE 0
      BY <1>c, <2>1, <3>1, <3>2, <3>7
    <3> QED BY <1>c, <3>1, <3>5, <3>6, <3>7, <3>8, <3>9, <3>10 DEF Custody, ExactlyOnce
  <2> QED BY <2>2, <2>3
<1>8. ASSUME NEW c \in Cmd, EnqueueDrop(c)
      PROVE  Custody'
  <2>1. /\ pc[c] = "drain" /\ UNCHANGED <<cur, accepted>>
        /\ \/ pc' = [pc EXCEPT ![c] = "send"]
           \/ pc' = [pc EXCEPT ![c] = "done"]
    BY <1>8 DEF EnqueueDrop, NextAttempt, Return, workerVars
  <2>2. \A d \in Cmd : pc'[d] \in Before => pc[d] \in Before
    BY <1>t, <2>1 DEF Before
  <2>3. CASE queue = <<>>
    <3>1. UNCHANGED <<queue, outcomes>>
      BY <1>8, <2>3 DEF EnqueueDrop
    <3> QED BY <1>q, <2>1, <2>2, <3>1
  <2>4. CASE queue # <<>>
    <3> DEFINE h == Head(queue)
    <3>1. /\ queue' = Tail(queue)
          /\ outcomes' = [outcomes EXCEPT ![h] = Append(outcomes[h], "superseded")]
      BY <1>8, <2>4 DEF EnqueueDrop
    <3>2. /\ h \in Cmd /\ Tail(queue) \in Seq(Cmd)
          /\ Len(Tail(queue)) = Len(queue) - 1 /\ Len(queue) \in Nat
          /\ \A i \in DOMAIN Tail(queue) :
               i \in Nat /\ i + 1 \in DOMAIN queue /\ Tail(queue)[i] = queue[i + 1]
          /\ h = queue[1] /\ 1 \in DOMAIN queue
          /\ Range(queue) = {h} \cup Range(Tail(queue))
      BY <1>t, <2>4, TailFacts
    <3> HIDE DEF h
    <3>3. h \notin Range(Tail(queue))
      <4> SUFFICES ASSUME NEW i \in DOMAIN Tail(queue), Tail(queue)[i] = h
                   PROVE  FALSE
        BY DEF Range
      <4>1. i + 1 = 1 /\ i \in Nat
        BY <1>c, <3>2
      <4>2. i \in 1..Len(Tail(queue))
        BY <3>2
      <4> QED BY <4>1, <4>2
    <3>4. h \in Pending /\ Pending' = Pending \ {h}
      BY <1>c, <2>1, <3>1, <3>2, <3>3 DEF Pending
    <3>5. outcomes[h] \in Seq(Outcome) /\ Len(outcomes[h]) = 0
      BY <1>t, <1>c, <3>2, <3>4
    <3>6. Len(outcomes'[h]) = 1
      BY <1>t, <3>1, <3>2, <3>5
    <3>7. \A d \in Cmd : d # h => outcomes'[d] = outcomes[d]
      BY <1>t, <3>1
    <3>8. \A d \in Cmd :
            Len(outcomes'[d]) = IF d \in accepted' \ Pending' THEN 1 ELSE 0
      BY <1>c, <2>1, <3>4, <3>6, <3>7
    <3>9. \A i, j \in DOMAIN queue' : queue'[i] = queue'[j] => i = j
      BY <1>c, <3>1, <3>2
    <3>10. Len(queue') <= QueueCap /\ cur' \notin Range(queue')
      BY <1>c, <2>1, <3>1, <3>2
    <3>11. \A d \in Cmd : pc'[d] \in Before => d \notin accepted'
      BY <1>c, <2>1, <2>2
    <3>12. Pending' \subseteq accepted'
      BY <1>c, <2>1, <3>4
    <3> QED BY <3>8, <3>9, <3>10, <3>11, <3>12 DEF Custody, ExactlyOnce
  <2> QED BY <2>3, <2>4
<1> QED
  BY <1>1, <1>2, <1>4, <1>5, <1>6, <1>7, <1>8
     DEF Next, WorkerStep, CallStep, Cmd

\* Every command that entered the channel has exactly one fate, and none of
\* the outcomes replyTo delivers is lost or overwritten.
THEOREM ExactlyOnceHolds == Spec => []ExactlyOnce
<1>1. Init => Custody
  BY ConstAssumption DEF Init, Custody, ExactlyOnce, Pending, Range
<1>2. Custody => ExactlyOnce
  BY DEF Custody
<1> QED BY <1>1, <1>2, TypeCorrect, CustodyStep, PTL DEF Spec

-----------------------------------------------------------------------------
(* One order *)

\* InOrder needs to know that the channel itself is in order: an entry is
\* never ahead of an entry in front of it, nor of what the worker holds.
Order ==
    /\ InOrder
    /\ \A c \in Cmd : ahead[c] \subseteq accepted
    /\ \A c \in Cmd : pc[c] \in Before => c \notin written
    /\ \A i, j \in DOMAIN queue : i <= j => queue[j] \notin ahead[queue[i]]
    /\ cur # None => ahead[cur] \cap Pending = {}

LEMMA OrderStep ==
    TypeOK /\ WorkerShape /\ Custody /\ Order /\ [Next]_vars => Order'
<1> SUFFICES ASSUME TypeOK, WorkerShape, Custody, Order, [Next]_vars
             PROVE  Order'
  OBVIOUS
<1> USE ConstAssumption
<1>t. /\ cur \in Cmd \cup {None}
      /\ queue \in Seq(Cmd)
      /\ pc \in [Cmd -> {"idle", "send", "drain", "wait", "inline", "done"}]
      /\ accepted \subseteq Cmd
      /\ written \subseteq Cmd
      /\ ahead \in [Cmd -> SUBSET Cmd]
  BY DEF TypeOK
<1>c. /\ Pending \subseteq accepted
      /\ \A c \in Cmd : pc[c] \in Before => c \notin accepted
      /\ Range(queue) \subseteq Pending
  BY DEF Custody, ExactlyOnce, Pending
<1>o. /\ \A c \in written \cap accepted : ahead[c] \cap Pending = {}
      /\ \A c \in Cmd : ahead[c] \subseteq accepted
      /\ \A c \in Cmd : pc[c] \in Before => c \notin written
      /\ \A i, j \in DOMAIN queue : i <= j => queue[j] \notin ahead[queue[i]]
      /\ cur # None => ahead[cur] \cap Pending = {}
  BY DEF Order, InOrder
<1>r. \A i \in DOMAIN queue : queue[i] \in Range(queue) /\ queue[i] \in Cmd
  BY <1>t DEF Range
\* Steps that only move a call along.
<1>q. ASSUME UNCHANGED <<queue, cur, accepted, written, ahead>>,
             \A c \in Cmd : pc'[c] \in Before => pc[c] \in Before
      PROVE  Order'
  BY <1>q, <1>o DEF Order, InOrder, Pending
<1>1. CASE RunStep \/ WorkerStart \/ WorkerRetry \/ WorkerExit \/ UNCHANGED vars
  <2>1. UNCHANGED <<queue, cur, accepted, written, ahead, pc>>
    BY <1>1 DEF RunStep, InstallInboundHandler, WaitForStatic, Spawn, RunAborts,
       Cancel, StopCommands, WorkerStart, WorkerRetry, WorkerExit, vars,
       workerVars, producerVars, inverterVars, issueVars
  <2> QED BY <1>q, <2>1
<1>2. CASE WorkerTake
  <2>1. /\ queue # <<>> /\ cur = None
        /\ cur' = Head(queue) /\ queue' = Tail(queue)
        /\ UNCHANGED <<pc, accepted, written, ahead>>
    BY <1>2 DEF WorkerTake, WorkerShape, producerVars, inverterVars, issueVars
  <2>2. /\ Head(queue) \in Cmd
        /\ DOMAIN queue = 1..Len(queue) /\ Len(queue) \in Nat
        /\ \A i \in DOMAIN Tail(queue) :
             i \in Nat /\ i + 1 \in DOMAIN queue /\ Tail(queue)[i] = queue[i + 1]
        /\ Head(queue) = queue[1] /\ 1 \in DOMAIN queue
        /\ Range(queue) = {Head(queue)} \cup Range(Tail(queue))
    BY <1>t, <2>1, TailFacts
  <2>3. Pending' = Pending /\ Pending = Range(queue)
    BY <2>1, <2>2 DEF Pending
  <2>4. \A i, j \in DOMAIN queue' : i <= j => queue'[j] \notin ahead'[queue'[i]]
    BY <1>o, <2>1, <2>2
  <2>5. \A j \in DOMAIN queue : queue[j] \notin ahead[Head(queue)]
    BY <1>o, <2>2
  <2>6. ahead'[cur'] \cap Pending' = {}
    BY <2>1, <2>3, <2>5 DEF Range
  <2> QED BY <1>o, <2>1, <2>3, <2>4, <2>6 DEF Order, InOrder
\* The worker writes cur, or not, and keeps it or lets go of it.
<1>3. ASSUME cur \in Cmd, cur' \in {cur, None}, written' \in {written, written \cup {cur}},
             UNCHANGED <<queue, pc, accepted, ahead>>
      PROVE  Order'
  <2>1. Pending' \subseteq Pending /\ cur \in Pending
    BY <1>3 DEF Pending
  <2>2. \A c \in written' \cap accepted' : ahead'[c] \cap Pending' = {}
    BY <1>3, <1>o, <2>1
  <2>3. \A c \in Cmd : pc'[c] \in Before => c \notin written'
    BY <1>3, <1>o, <1>c, <2>1
  <2>4. cur' # None => ahead'[cur'] \cap Pending' = {}
    BY <1>3, <1>o, <2>1
  <2> QED BY <1>3, <1>o, <2>2, <2>3, <2>4 DEF Order, InOrder
<1>4. CASE WorkerDispatch
  <2>1. cur \in Cmd
    BY <1>4, <1>t DEF WorkerDispatch, WorkerShape
  <2>2. UNCHANGED <<queue, pc, accepted, ahead>>
    BY <1>4 DEF WorkerDispatch, producerVars, issueVars
  <2>3. cur' \in {cur, None} /\ written' \in {written, written \cup {cur}}
    BY <1>4 DEF WorkerDispatch, WireEffect, Settle
  <2> QED BY <1>3, <2>1, <2>2, <2>3
<1>5. CASE WorkerRetryCancelled
  <2>1. cur \in Cmd
    BY <1>5, <1>t DEF WorkerRetryCancelled, WorkerShape
  <2>2. cur' = None /\ UNCHANGED <<queue, pc, accepted, ahead, written>>
    BY <1>5 DEF WorkerRetryCancelled, Settle, producerVars, issueVars, inverterVars
  <2> QED BY <1>3, <2>1, <2>2
<1>6. ASSUME NEW c \in Cmd, NEW where \in {"send", "inline"}, pc[c] = "idle",
             Begin(c, where), UNCHANGED <<queue, cur, accepted, written>>
      PROVE  Order'
  <2>1. /\ pc' = [pc EXCEPT ![c] = where]
        /\ ahead' = [ahead EXCEPT ![c] = Pending]
    BY <1>6 DEF Begin
  <2>2. c \notin accepted /\ c \notin written /\ c \notin Pending
    BY <1>6, <1>c, <1>o DEF Before
  <2>3. \A d \in Cmd : d # c => ahead'[d] = ahead[d]
    BY <1>t, <2>1
  <2>4. ahead'[c] = Pending /\ Pending' = Pending
    BY <1>6, <1>t, <2>1 DEF Pending
  <2>5. \A i, j \in DOMAIN queue' : i <= j => queue'[j] \notin ahead'[queue'[i]]
    BY <1>6, <1>o, <1>r, <1>c, <2>2, <2>3
  <2>6. cur' # None => ahead'[cur'] \cap Pending' = {}
    BY <1>6, <1>t, <1>o, <2>2, <2>3, <2>4 DEF Pending
  <2>7. \A d \in Cmd : pc'[d] \in Before => d \notin written'
    BY <1>6, <1>t, <1>o, <2>1, <2>2
  <2>8. \A d \in written' \cap accepted' : ahead'[d] \cap Pending' = {}
    BY <1>6, <1>t, <1>o, <2>2, <2>3, <2>4
  <2>9. \A d \in Cmd : ahead'[d] \subseteq accepted'
    BY <1>6, <1>o, <1>c, <2>3, <2>4
  <2> QED BY <2>5, <2>6, <2>7, <2>8, <2>9 DEF Order, InOrder
<1>7. ASSUME NEW c \in Cmd, OnSet(c) \/ EvccFallback(c) \/ Write(c)
      PROVE  Order'
  <2>1. /\ pc[c] = "idle" /\ UNCHANGED <<queue, cur, accepted, written>>
        /\ Begin(c, "send") \/ Begin(c, "inline")
    BY <1>7, Zenon DEF OnSet, EvccFallback, Write, workerVars, inverterVars
  <2> QED BY <1>6, <2>1
<1>8. ASSUME NEW c \in Cmd, OnSetDropped(c) \/ WriteGivenUp(c) \/ WriteReply(c)
      PROVE  Order'
  <2>1. /\ UNCHANGED <<queue, cur, accepted, written, ahead>>
        /\ pc' = [pc EXCEPT ![c] = "done"]
    BY <1>8, Zenon DEF OnSetDropped, WriteGivenUp, WriteReply, Return,
       workerVars, inverterVars, issueVars
  <2>2. \A d \in Cmd : pc'[d] \in Before => pc[d] \in Before
    BY <1>t, <2>1 DEF Before
  <2> QED BY <1>q, <2>1, <2>2
<1>9. ASSUME NEW c \in Cmd, WriteInline(c)
      PROVE  Order'
  <2>1. /\ pc[c] = "inline" /\ UNCHANGED <<queue, cur, accepted, ahead>>
        /\ pc' = [pc EXCEPT ![c] = "done"]
        /\ written' \in {written, written \cup {c}}
    BY <1>9 DEF WriteInline, Return, WireEffect, workerVars, issueVars
  <2>2. c \notin accepted
    BY <1>c, <2>1 DEF Before
  <2>3. \A d \in Cmd : pc'[d] \in Before => d \notin written'
    BY <1>t, <1>o, <2>1 DEF Before
  <2>4. Pending' = Pending
    BY <2>1 DEF Pending
  <2> QED BY <1>o, <2>1, <2>2, <2>3, <2>4 DEF Order, InOrder
<1>10. ASSUME NEW c \in Cmd, EnqueueSend(c)
       PROVE  Order'
  <2>1. pc[c] = "send" /\ UNCHANGED <<cur, written, ahead>>
    BY <1>10 DEF EnqueueSend, workerVars, inverterVars, issueVars
  <2>2. CASE ~(Len(queue) < QueueCap)
    <3>1. pc' = [pc EXCEPT ![c] = "drain"] /\ UNCHANGED <<queue, accepted>>
      BY <1>10, <2>2 DEF EnqueueSend
    <3>2. \A d \in Cmd : pc'[d] \in Before => pc[d] \in Before
      BY <1>t, <2>1, <3>1 DEF Before
    <3> QED BY <1>q, <2>1, <3>1, <3>2
  <2>3. CASE Len(queue) < QueueCap
    <3>1. /\ queue' = Append(queue, c) /\ accepted' = accepted \cup {c}
          /\ \/ pc' = [pc EXCEPT ![c] = "wait"]
             \/ pc' = [pc EXCEPT ![c] = "done"]
      BY <1>10, <2>3 DEF EnqueueSend, Return
    <3>2. c \notin accepted /\ c \notin written
      BY <1>c, <1>o, <2>1 DEF Before
    <3>3. /\ Len(queue) \in Nat
          /\ DOMAIN queue' = 1..(Len(queue) + 1) /\ DOMAIN queue = 1..Len(queue)
          /\ \A i \in DOMAIN queue : queue'[i] = queue[i]
          /\ queue'[Len(queue) + 1] = c
          /\ Range(queue') = Range(queue) \cup {c}
      BY <1>t, <3>1, AppendFacts
    <3>4. \A d \in Cmd : c \notin ahead[d]
      BY <1>o, <3>2
    <3>5. \A i, j \in DOMAIN queue' : i <= j => queue'[j] \notin ahead'[queue'[i]]
      <4> SUFFICES ASSUME NEW i \in DOMAIN queue', NEW j \in DOMAIN queue', i <= j
                   PROVE  queue'[j] \notin ahead[queue'[i]]
        BY <2>1
      <4>1. CASE j \in DOMAIN queue
        BY <1>o, <3>3, <4>1
      <4>2. CASE j \notin DOMAIN queue
        <5>1. queue'[j] = c
          BY <3>3, <4>2
        <5>2. queue'[i] \in Cmd
          BY <1>r, <3>3
        <5> QED BY <3>4, <5>1, <5>2
      <4> QED BY <4>1, <4>2
    <3>6. Pending' = Pending \cup {c}
      BY <2>1, <3>3 DEF Pending
    <3>7. \A d \in written' \cap accepted' : ahead'[d] \cap Pending' = {}
      BY <1>t, <1>o, <2>1, <3>1, <3>2, <3>4, <3>6
    <3>8. cur' # None => ahead'[cur'] \cap Pending' = {}
      BY <1>t, <1>o, <2>1, <3>4, <3>6
    <3>9. \A d \in Cmd : pc'[d] \in Before => d \notin written'
      BY <1>t, <1>o, <2>1, <3>1 DEF Before
    <3>10. \A d \in Cmd : ahead'[d] \subseteq accepted'
      BY <1>o, <2>1, <3>1
    <3> QED BY <3>5, <3>7, <3>8, <3>9, <3>10 DEF Order, InOrder
  <2> QED BY <2>2, <2>3
<1>11. ASSUME NEW c \in Cmd, EnqueueDrop(c)
       PROVE  Order'
  <2>1. /\ pc[c] = "drain" /\ UNCHANGED <<cur, accepted, written, ahead>>
        /\ \/ pc' = [pc EXCEPT ![c] = "send"]
           \/ pc' = [pc EXCEPT ![c] = "done"]
    BY <1>11 DEF EnqueueDrop, NextAttempt, Return, workerVars, inverterVars, issueVars
  <2>2. \A d \in Cmd : pc'[d] \in Before => pc[d] \in Before
    BY <1>t, <2>1 DEF Before
  <2>3. CASE queue = <<>>
    <3>1. UNCHANGED queue
      BY <1>11, <2>3 DEF EnqueueDrop
    <3> QED BY <1>q, <2>1, <2>2, <3>1
  <2>4. CASE queue # <<>>
    <3>1. queue' = Tail(queue)
      BY <1>11, <2>4 DEF EnqueueDrop
    <3>2. /\ \A i \in DOMAIN Tail(queue) :
               i \in Nat /\ i + 1 \in DOMAIN queue /\ Tail(queue)[i] = queue[i + 1]
          /\ Range(queue) = {Head(queue)} \cup Range(Tail(queue))
      BY <1>t, <2>4, TailFacts
    <3>3. \A i, j \in DOMAIN queue' : i <= j => queue'[j] \notin ahead'[queue'[i]]
      BY <1>o, <2>1, <3>1, <3>2
    <3>4. Pending' \subseteq Pending
      BY <2>1, <3>1, <3>2 DEF Pending
    <3> QED BY <1>o, <2>1, <2>2, <3>3, <3>4 DEF Order, InOrder
  <2> QED BY <2>3, <2>4
<1> QED
  BY <1>1, <1>2, <1>4, <1>5, <1>7, <1>8, <1>9, <1>10, <1>11
     DEF Next, WorkerStep, CallStep, Cmd

\* A queued command that has reached the inverter cannot be followed there by
\* a command that was pending when it was issued.
THEOREM InOrderHolds == Spec => []InOrder
<1>1. Init => Custody /\ Order
  BY ConstAssumption DEF Init, Custody, ExactlyOnce, Order, InOrder, Pending, Range
<1>2. Order => InOrder
  BY DEF Order
<1> QED BY <1>1, <1>2, TypeCorrect, CustodyStep, OrderStep, PTL DEF Spec

-----------------------------------------------------------------------------
(* Truthful answers *)

\* What replyTo delivered is already true when it is delivered, and stays so
\* until the caller reads it.
Truth ==
    /\ \A c \in Cmd : "ok" \in Range(outcomes[c]) => c \in written
    /\ \A c \in Cmd : Superseded(c) => c \notin written \cup Pending
    /\ Range(queue) \cap written = {}
    /\ \A c \in Cmd : pc[c] # "done" => result[c] = "none"
    /\ \A c \in Cmd : result[c] = "ok" => c \in written
    /\ \A c \in Cmd : result[c] = "superseded" => Superseded(c)
    /\ \A c \in Cmd : result[c] = "full" => c \notin accepted \cup written

LEMMA TruthStep ==
    TypeOK /\ WorkerShape /\ Custody /\ Order /\ Truth /\ [Next]_vars => Truth'
<1> SUFFICES ASSUME TypeOK, WorkerShape, Custody, Order, Truth, [Next]_vars
             PROVE  Truth'
  OBVIOUS
<1> USE ConstAssumption
<1>t. /\ cur \in Cmd \cup {None}
      /\ queue \in Seq(Cmd)
      /\ pc \in [Cmd -> {"idle", "send", "drain", "wait", "inline", "done"}]
      /\ outcomes \in [Cmd -> Seq(Outcome)]
      /\ result \in [Cmd -> Result]
      /\ accepted \subseteq Cmd
      /\ written \subseteq Cmd
  BY DEF TypeOK
<1>c. /\ Pending \subseteq accepted /\ cur \notin Range(queue)
      /\ \A c \in Cmd : pc[c] \in Before => c \notin accepted /\ c \notin written
      /\ \A c \in Cmd : c \notin accepted \ Pending => Range(outcomes[c]) = {}
  <2>1. \A c \in Cmd : c \notin accepted \ Pending => Len(outcomes[c]) = 0
    BY DEF Custody, ExactlyOnce
  <2>2. \A c \in Cmd : Len(outcomes[c]) = 0 => Range(outcomes[c]) = {}
    BY <1>t DEF Range
  <2> QED BY <2>1, <2>2 DEF Custody, ExactlyOnce, Order
<1>u. /\ \A c \in Cmd : "ok" \in Range(outcomes[c]) => c \in written
      /\ \A c \in Cmd : "superseded" \in Range(outcomes[c]) => c \notin written \cup Pending
      /\ Range(queue) \cap written = {}
      /\ \A c \in Cmd : pc[c] # "done" => result[c] = "none"
      /\ \A c \in Cmd : result[c] = "ok" => c \in written
      /\ \A c \in Cmd : result[c] = "superseded" => "superseded" \in Range(outcomes[c])
      /\ \A c \in Cmd : result[c] = "full" => c \notin accepted \cup written
  BY DEF Truth, Superseded
<1>1. CASE RunStep \/ WorkerStart \/ WorkerRetry \/ WorkerExit \/ UNCHANGED vars
  <2>1. UNCHANGED <<queue, cur, outcomes, accepted, written, pc, result>>
    BY <1>1 DEF RunStep, InstallInboundHandler, WaitForStatic, Spawn, RunAborts,
       Cancel, StopCommands, WorkerStart, WorkerRetry, WorkerExit, vars,
       workerVars, producerVars, inverterVars
  <2> QED BY <1>u, <2>1 DEF Truth, Superseded, Pending
<1>2. CASE WorkerTake
  <2>1. /\ queue # <<>> /\ cur = None
        /\ cur' = Head(queue) /\ queue' = Tail(queue)
        /\ UNCHANGED <<pc, result, outcomes, accepted, written>>
    BY <1>2 DEF WorkerTake, WorkerShape, producerVars, inverterVars
  <2>2. Head(queue) \in Cmd /\ Range(queue) = {Head(queue)} \cup Range(Tail(queue))
    BY <1>t, <2>1, TailFacts
  <2>3. Pending' = Pending /\ Range(queue') \subseteq Range(queue)
    BY <2>1, <2>2 DEF Pending
  <2> QED BY <1>u, <2>1, <2>3 DEF Truth, Superseded
<1>3. ASSUME cur \in Cmd, NEW err \in Outcome, err # "superseded",
             err = "ok" => cur \in written',
             Settle(err), written' \in {written, written \cup {cur}},
             UNCHANGED <<queue, pc, result, accepted>>
      PROVE  Truth'
  <2>1. /\ cur' = None
        /\ outcomes' = [outcomes EXCEPT ![cur] = Append(outcomes[cur], err)]
    BY <1>3 DEF Settle
  <2>2. cur \in Pending /\ Pending' \subseteq Pending
    BY <1>3, <2>1 DEF Pending
  <2>3. Range(outcomes'[cur]) = {err}
    <3>1. outcomes[cur] \in Seq(Outcome) /\ Range(outcomes[cur]) = {}
      BY <1>3, <1>t, <1>c, <2>2
    <3>2. Range(Append(outcomes[cur], err)) = Range(outcomes[cur]) \cup {err}
      BY <3>1, AppendFacts
    <3> QED BY <1>3, <1>t, <2>1, <3>1, <3>2
  <2>4. \A c \in Cmd : c # cur => outcomes'[c] = outcomes[c]
    BY <1>t, <2>1
  <2>5. cur \notin Range(queue) /\ cur \in accepted
    BY <1>c, <2>2
  <2>6. result[cur] \notin {"full", "superseded"}
    BY <1>3, <1>u, <1>c, <2>2, <2>5
  <2>7. \A c \in Cmd : "ok" \in Range(outcomes'[c]) => c \in written'
    BY <1>3, <1>u, <2>3, <2>4
  <2>8. \A c \in Cmd : "superseded" \in Range(outcomes'[c]) => c \notin written' \cup Pending'
    BY <1>3, <1>u, <2>2, <2>3, <2>4
  <2>9. \A c \in Cmd : result'[c] = "superseded" => "superseded" \in Range(outcomes'[c])
    BY <1>3, <1>u, <2>4, <2>6
  <2>10. \A c \in Cmd : result'[c] = "full" => c \notin accepted' \cup written'
    BY <1>3, <1>u, <2>5, <2>6
  <2> QED BY <1>3, <1>u, <2>5, <2>7, <2>8, <2>9, <2>10 DEF Truth, Superseded
<1>4. CASE WorkerDispatch
  <2>1. cur \in Cmd
    BY <1>4, <1>t DEF WorkerDispatch, WorkerShape
  <2>2. UNCHANGED <<queue, pc, result, accepted>>
    BY <1>4 DEF WorkerDispatch, producerVars
  <2>3. PICK err \in Outcome, reg \in {register, cur} :
          /\ Dispatch(cur, err, reg, cancelled)
          /\ WireEffect(cur, reg)
          /\ IF err = "failed" /\ tries < WriteRetries
             THEN wpc' = "backoff" /\ UNCHANGED <<cur, tries, outcomes>>
             ELSE Settle(err)
    BY <1>4 DEF WorkerDispatch
  <2>4. err # "superseded" /\ (err = "ok" => reg = cur)
    BY <2>3, Zenon DEF Dispatch
  <2>5. /\ written' \in {written, written \cup {cur}}
        /\ err = "ok" => cur \in written'
    BY <2>3, <2>4 DEF WireEffect
  <2>6. CASE Settle(err)
    BY <1>3, <2>1, <2>2, <2>4, <2>5, <2>6
  <2>7. CASE UNCHANGED <<cur, tries, outcomes>>
    <3>1. cur \in Pending /\ cur \notin Range(queue) /\ cur \in accepted /\ Pending' = Pending
      BY <1>c, <2>1, <2>2, <2>7 DEF Pending
    <3> QED BY <1>u, <2>1, <2>2, <2>5, <2>7, <3>1 DEF Truth, Superseded
  <2> QED BY <2>3, <2>6, <2>7
<1>5. CASE WorkerRetryCancelled
  <2>1. cur \in Cmd /\ "ctx" \in Outcome
    BY <1>5, <1>t DEF WorkerRetryCancelled, WorkerShape, Outcome
  <2>2. Settle("ctx") /\ UNCHANGED <<queue, pc, result, accepted, written>>
    BY <1>5 DEF WorkerRetryCancelled, producerVars, inverterVars
  <2> QED BY <1>3, <2>1, <2>2
\* A call begins, or returns something other than an outcome of its command.
<1>6. ASSUME NEW c \in Cmd, UNCHANGED <<queue, cur, outcomes, accepted, written>>,
             \/ UNCHANGED result /\ pc[c] # "done" /\ \E w \in {"send", "inline", "drain"} : pc' = [pc EXCEPT ![c] = w]
             \/ /\ pc' = [pc EXCEPT ![c] = "done"]
                /\ \E r \in {"dropped", "ctx"} : result' = [result EXCEPT ![c] = r]
      PROVE  Truth'
  <2>1. \A d \in Cmd : pc'[d] # "done" => result'[d] = "none"
    BY <1>6, <1>t, <1>u
  <2>2. \A d \in Cmd : result'[d] = result[d] \/ result'[d] \in {"dropped", "ctx"}
    BY <1>6, <1>t
  <2>3. Pending' = Pending
    BY <1>6 DEF Pending
  <2> QED BY <1>6, <1>u, <2>1, <2>2, <2>3 DEF Truth, Superseded
<1>7. ASSUME NEW c \in Cmd, OnSet(c) \/ EvccFallback(c) \/ Write(c)
      PROVE  Truth'
  <2>1. /\ pc[c] = "idle" /\ UNCHANGED <<queue, cur, outcomes, accepted, written, result>>
        /\ pc' = [pc EXCEPT ![c] = "send"] \/ pc' = [pc EXCEPT ![c] = "inline"]
    BY <1>7, Zenon DEF OnSet, EvccFallback, Write, Begin, workerVars, inverterVars
  <2> QED BY <1>6, <2>1
<1>8. ASSUME NEW c \in Cmd, OnSetDropped(c) \/ WriteGivenUp(c)
      PROVE  Truth'
  <2>1. /\ UNCHANGED <<queue, cur, outcomes, accepted, written>>
        /\ pc' = [pc EXCEPT ![c] = "done"]
        /\ result' = [result EXCEPT ![c] = "dropped"] \/ result' = [result EXCEPT ![c] = "ctx"]
    BY <1>8, Zenon DEF OnSetDropped, WriteGivenUp, Return, workerVars, inverterVars
  <2> QED BY <1>6, <2>1
<1>9. ASSUME NEW c \in Cmd, WriteReply(c)
      PROVE  Truth'
  <2>1. /\ UNCHANGED <<queue, cur, outcomes, accepted, written>>
        /\ pc' = [pc EXCEPT ![c] = "done"] /\ outcomes[c] # <<>>
        /\ result' = [result EXCEPT ![c] = Head(outcomes[c])]
    BY <1>9 DEF WriteReply, Return, workerVars, inverterVars
  <2>2. Head(outcomes[c]) \in Outcome /\ Head(outcomes[c]) \in Range(outcomes[c])
    <3>1. outcomes[c] \in Seq(Outcome)
      BY <1>t
    <3> QED BY <2>1, <3>1, TailFacts
  <2>3. result'[c] = Head(outcomes[c]) /\ \A d \in Cmd : d # c => result'[d] = result[d]
    BY <1>t, <2>1
  <2>4. \A d \in Cmd : pc'[d] # "done" => d # c /\ pc[d] # "done"
    BY <1>t, <2>1
  <2>5. Pending' = Pending /\ "full" \notin Outcome
    BY <2>1 DEF Pending, Outcome
  <2>6. \A d \in Cmd : pc'[d] # "done" => result'[d] = "none"
    BY <1>u, <2>3, <2>4
  <2>7. \A d \in Cmd : result'[d] \in {"ok", "superseded"} =>
           result[d] = result'[d] \/ result'[d] \in Range(outcomes[d])
    BY <2>2, <2>3
  <2>8. \A d \in Cmd : result'[d] = "full" => result[d] = "full"
    BY <2>2, <2>3, <2>5
  <2> QED BY <1>u, <2>1, <2>5, <2>6, <2>7, <2>8 DEF Truth, Superseded
<1>10. ASSUME NEW c \in Cmd, WriteInline(c)
       PROVE  Truth'
  <2>1. PICK err \in Outcome, reg \in {register, c} :
          /\ Dispatch(c, err, reg, TRUE)
          /\ WireEffect(c, reg)
          /\ Return(c, err)
    BY <1>10 DEF WriteInline
  <2>2. /\ pc[c] = "inline" /\ UNCHANGED <<queue, cur, outcomes, accepted>>
        /\ pc' = [pc EXCEPT ![c] = "done"] /\ result' = [result EXCEPT ![c] = err]
    BY <1>10, <2>1 DEF WriteInline, Return, workerVars
  <2>3. err # "superseded" /\ (err = "ok" => reg = c)
    BY <2>1, Zenon DEF Dispatch
  <2>4. /\ written' \in {written, written \cup {c}}
        /\ err = "ok" => c \in written'
        /\ err # "full"
    BY <2>1, <2>3 DEF WireEffect, Outcome
  <2>5. c \notin accepted /\ c \notin Range(queue) /\ Range(outcomes[c]) = {}
    BY <1>c, <2>2 DEF Before, Pending
  <2>6. result'[c] = err /\ \A d \in Cmd : d # c => result'[d] = result[d]
    BY <1>t, <2>2
  <2>7. \A d \in Cmd : pc'[d] # "done" => result'[d] = "none"
    BY <1>t, <1>u, <2>2, <2>6
  <2>8. Pending' = Pending
    BY <2>2 DEF Pending
  <2>9. \A d \in Cmd : "superseded" \in Range(outcomes'[d]) => d \notin written' \cup Pending'
    BY <1>u, <2>2, <2>4, <2>5, <2>8
  <2>10. \A d \in Cmd : result'[d] = "ok" => d \in written'
    BY <1>u, <2>4, <2>6
  <2>11. \A d \in Cmd : result'[d] = "superseded" => "superseded" \in Range(outcomes'[d])
    BY <1>u, <2>2, <2>3, <2>6
  <2>12. \A d \in Cmd : result'[d] = "full" => d \notin accepted' \cup written'
    BY <1>u, <2>2, <2>4, <2>6
  <2> QED BY <1>u, <2>2, <2>4, <2>5, <2>7, <2>9, <2>10, <2>11, <2>12 DEF Truth, Superseded
<1>11. ASSUME NEW c \in Cmd, EnqueueSend(c)
       PROVE  Truth'
  <2>1. pc[c] = "send" /\ UNCHANGED <<cur, outcomes, written>>
    BY <1>11 DEF EnqueueSend, workerVars, inverterVars
  <2>2. CASE ~(Len(queue) < QueueCap)
    <3>1. pc' = [pc EXCEPT ![c] = "drain"] /\ UNCHANGED <<queue, accepted, result>>
      BY <1>11, <2>2 DEF EnqueueSend
    <3> QED BY <1>6, <2>1, <3>1
  <2>3. CASE Len(queue) < QueueCap
    <3>1. /\ queue' = Append(queue, c) /\ accepted' = accepted \cup {c}
          /\ \/ pc' = [pc EXCEPT ![c] = "wait"] /\ UNCHANGED result
             \/ pc' = [pc EXCEPT ![c] = "done"] /\ result' = [result EXCEPT ![c] = "queued"]
      BY <1>11, <2>3 DEF EnqueueSend, Return
    <3>2. c \notin accepted /\ c \notin written /\ Range(outcomes[c]) = {}
      BY <1>c, <2>1 DEF Before
    <3>3. Range(queue') = Range(queue) \cup {c}
      BY <1>t, <3>1, AppendFacts
    <3>4. Pending' = Pending \cup {c}
      BY <2>1, <3>3 DEF Pending
    <3>5. \A d \in Cmd : pc'[d] # "done" => result'[d] = "none"
      BY <1>t, <1>u, <2>1, <3>1
    <3>6. /\ \A d \in Cmd : result'[d] = result[d] \/ result'[d] = "queued"
          /\ result'[c] \in {"none", "queued"}
      BY <1>t, <1>u, <2>1, <3>1
    <3>7. \A d \in Cmd : result'[d] = "full" => d \notin accepted' \cup written'
      BY <1>u, <2>1, <3>1, <3>6
    <3>8. \A d \in Cmd : "superseded" \in Range(outcomes'[d]) => d \notin written' \cup Pending'
      BY <1>u, <2>1, <3>2, <3>4
    <3>9. Range(queue') \cap written' = {}
      BY <1>u, <2>1, <3>2, <3>3
    <3> QED BY <1>u, <2>1, <3>5, <3>6, <3>7, <3>8, <3>9 DEF Truth, Superseded
  <2> QED BY <2>2, <2>3
<1>12. ASSUME NEW c \in Cmd, EnqueueDrop(c)
       PROVE  Truth'
  <2>1. /\ pc[c] = "drain" /\ UNCHANGED <<cur, accepted, written>>
        /\ \/ pc' = [pc EXCEPT ![c] = "send"] /\ UNCHANGED result
           \/ pc' = [pc EXCEPT ![c] = "done"] /\ result' = [result EXCEPT ![c] = "full"]
    BY <1>12 DEF EnqueueDrop, NextAttempt, Return, workerVars, inverterVars
  <2>2. c \notin accepted /\ c \notin written
    BY <1>c, <2>1 DEF Before
  <2>3. \A d \in Cmd : pc'[d] # "done" => result'[d] = "none"
    BY <1>t, <1>u, <2>1
  <2>4. \A d \in Cmd : result'[d] = result[d] \/ (d = c /\ result'[d] = "full")
    BY <1>t, <2>1
  <2>5. \A d \in Cmd : result'[d] = "full" => d \notin accepted' \cup written'
    BY <1>u, <2>1, <2>2, <2>4
  <2>6. CASE queue = <<>>
    <3>1. UNCHANGED <<queue, outcomes>>
      BY <1>12, <2>6 DEF EnqueueDrop
    <3>2. Pending' = Pending
      BY <2>1, <3>1 DEF Pending
    <3> QED BY <1>u, <2>1, <2>3, <2>4, <2>5, <3>1, <3>2 DEF Truth, Superseded
  <2>7. CASE queue # <<>>
    <3> DEFINE h == Head(queue)
    <3>1. /\ queue' = Tail(queue)
          /\ outcomes' = [outcomes EXCEPT ![h] = Append(outcomes[h], "superseded")]
      BY <1>12, <2>7 DEF EnqueueDrop
    <3>2. /\ h \in Cmd /\ Range(queue) = {h} \cup Range(Tail(queue))
          /\ Tail(queue) \in Seq(Cmd)
          /\ DOMAIN Tail(queue) = 1..(Len(queue) - 1)
          /\ Len(queue) \in Nat
          /\ \A i \in DOMAIN Tail(queue) : i + 1 \in DOMAIN queue /\ Tail(queue)[i] = queue[i + 1]
          /\ h = queue[1] /\ 1 \in DOMAIN queue
      BY <1>t, <2>7, TailFacts
    <3> HIDE DEF h
    <3>3. h \notin Range(Tail(queue))
      <4>1. \A i, j \in DOMAIN queue : queue[i] = queue[j] => i = j
        BY DEF Custody, ExactlyOnce
      <4> SUFFICES ASSUME NEW i \in DOMAIN Tail(queue), Tail(queue)[i] = h
                   PROVE  FALSE
        BY DEF Range
      <4> QED BY <3>2, <4>1
    <3>4. h \in Pending /\ h \notin Pending' /\ Pending' \subseteq Pending
      BY <1>c, <2>1, <3>1, <3>2, <3>3 DEF Pending
    <3>5. outcomes[h] \in Seq(Outcome) /\ "superseded" \in Outcome
      BY <1>t, <3>2 DEF Outcome
    <3>6. Range(outcomes'[h]) = Range(outcomes[h]) \cup {"superseded"}
      <4>1. outcomes'[h] = Append(outcomes[h], "superseded")
        BY <1>t, <3>1, <3>2
      <4> QED BY <3>5, <4>1, AppendFacts
    <3>7. \A d \in Cmd : d # h => outcomes'[d] = outcomes[d]
      BY <1>t, <3>1
    <3>8. h \notin written'
      BY <1>u, <2>1, <3>2
    <3>9. \A d \in Cmd : "ok" \in Range(outcomes'[d]) => d \in written'
      BY <1>u, <2>1, <3>6, <3>7
    <3>10. \A d \in Cmd : "superseded" \in Range(outcomes'[d]) => d \notin written' \cup Pending'
      BY <1>u, <2>1, <3>4, <3>7, <3>8
    <3>11. \A d \in Cmd : result'[d] = "superseded" => "superseded" \in Range(outcomes'[d])
      BY <1>u, <2>4, <3>6, <3>7
    <3>12. Range(queue') \cap written' = {}
      BY <1>u, <2>1, <3>1, <3>2
    <3> QED BY <1>u, <2>1, <2>3, <2>4, <2>5, <3>9, <3>10, <3>11, <3>12
               DEF Truth, Superseded
  <2> QED BY <2>6, <2>7
<1> QED
  BY <1>1, <1>2, <1>4, <1>5, <1>7, <1>8, <1>9, <1>10, <1>11, <1>12
     DEF Next, WorkerStep, CallStep, Cmd

\* A caller told "ok" has its value on the inverter; one told superseded or
\* queue-full has a command that never reached it and never will.
THEOREM TruthfulAnswerHolds == Spec => []TruthfulAnswer
<1>1. Init => Custody /\ Order /\ Truth
  BY ConstAssumption DEF Init, Custody, ExactlyOnce, Order, InOrder, Truth,
     Superseded, Pending, Range
<1>2. TypeOK /\ Custody /\ Order /\ Truth => TruthfulAnswer
  <2> SUFFICES ASSUME TypeOK, Custody, Order, Truth, NEW c \in Cmd
               PROVE  /\ result[c] = "ok" => c \in written
                      /\ result[c] \in {"superseded", "full"} => c \notin written \cup Pending
    BY DEF TruthfulAnswer
  <2>1. Pending \subseteq accepted
    BY DEF Custody, ExactlyOnce
  <2> QED BY <2>1 DEF Truth
<1> QED BY <1>1, <1>2, TypeCorrect, CustodyStep, OrderStep, TruthStep, PTL DEF Spec

-----------------------------------------------------------------------------
(* A burst of `set' publishes ends on its last value *)

\* The router is the only producer there has been.
Alone == \A c \in Cmd \ MqttCmd : pc[c] = "idle"

\* What holds of the newest command once its call has returned: it is the
\* last of the channel, or the channel is empty behind it.
Kept ==
    /\ lastSet \in accepted
    /\ ~Superseded(lastSet)
    /\ lastSet \in Range(queue) => queue[Len(queue)] = lastSet
    /\ lastSet \notin Range(queue) => queue = <<>> /\ cur \in {lastSet, None}
    /\ lastSet \in written => lastSet \notin Range(queue) /\ register = lastSet

\* LastWins is not inductive.  A single producer needs at most one drop: the
\* room it makes is still there when it comes round to send, so its second
\* attempt does not fail.
Newest ==
    /\ \A d \in MqttCmd : pc[d] \in {"idle", "send", "drain", "done"}
    /\ \A d \in MqttCmd : pc[d] \in {"send", "drain"} => d = lastSet
    /\ lastSet # None =>
        /\ pc[lastSet] # "idle"
        /\ pc[lastSet] = "send" =>
             \/ attempt[lastSet] = 1
             \/ attempt[lastSet] = 2 /\ Len(queue) < QueueCap
        /\ pc[lastSet] = "drain" => attempt[lastSet] = 1
        /\ pc[lastSet] = "done" => Kept

\* No step takes a call back to where it has not begun.
LEMMA NoReturnToIdle ==
    ASSUME TypeOK, [Next]_vars, NEW c \in Cmd, pc'[c] = "idle"
    PROVE  pc[c] = "idle"
<1> SUFFICES \/ UNCHANGED pc
             \/ \E d \in Cmd, s \in {"send", "drain", "wait", "inline", "done"} :
                    pc' = [pc EXCEPT ![d] = s]
  BY DEF TypeOK
<1>1. CASE RunStep \/ WorkerStep \/ UNCHANGED vars
  BY <1>1 DEF RunStep, InstallInboundHandler, WaitForStatic, Spawn, RunAborts,
     Cancel, StopCommands, WorkerStep, WorkerStart, WorkerTake, WorkerDispatch,
     WorkerRetry, WorkerRetryCancelled, WorkerExit, vars, producerVars
<1>2. ASSUME NEW d \in Cmd, OnSetDropped(d) \/ WriteGivenUp(d) \/ WriteReply(d)
                              \/ WriteInline(d)
      PROVE  pc' = [pc EXCEPT ![d] = "done"]
  BY <1>2 DEF OnSetDropped, WriteGivenUp, WriteReply, WriteInline, Return
<1>3. ASSUME NEW d \in Cmd, OnSet(d) \/ EvccFallback(d) \/ Write(d)
      PROVE  pc' = [pc EXCEPT ![d] = "send"] \/ pc' = [pc EXCEPT ![d] = "inline"]
  BY <1>3, Zenon DEF OnSet, EvccFallback, Write, Begin
<1>4. ASSUME NEW d \in Cmd, EnqueueSend(d) \/ EnqueueDrop(d)
      PROVE  \E s \in {"send", "drain", "wait", "done"} : pc' = [pc EXCEPT ![d] = s]
  <2>1. CASE EnqueueSend(d)
    BY <2>1 DEF EnqueueSend, Return
  <2>2. CASE EnqueueDrop(d)
    BY <2>2 DEF EnqueueDrop, NextAttempt, Return
  <2> QED BY <1>4, <2>1, <2>2
<1> QED
  BY <1>1, <1>2, <1>3, <1>4 DEF Next, CallStep, Cmd

\* The newest command of a burst is kept, or still on its way with room to come.
LEMMA NewestStep ==
    ASSUME MaxAttempts > 1
    PROVE  TypeOK /\ WorkerShape /\ Custody /\ Order /\ (Alone => Newest)
             /\ [Next]_vars => (Alone => Newest)'
<1> SUFFICES ASSUME TypeOK, WorkerShape, Custody, Order, Alone => Newest,
                    [Next]_vars, Alone'
             PROVE  Newest'
  OBVIOUS
<1> USE ConstAssumption
<1>a. Alone
  BY NoReturnToIdle DEF Alone
<1>n. /\ \A d \in MqttCmd : pc[d] \in {"idle", "send", "drain", "done"}
      /\ \A d \in MqttCmd : pc[d] \in {"send", "drain"} => d = lastSet
      /\ lastSet # None =>
          /\ pc[lastSet] # "idle"
          /\ pc[lastSet] = "send" =>
               \/ attempt[lastSet] = 1
               \/ attempt[lastSet] = 2 /\ Len(queue) < QueueCap
          /\ pc[lastSet] = "drain" => attempt[lastSet] = 1
          /\ pc[lastSet] = "done" => Kept
  BY <1>a DEF Newest
<1>t. /\ cur \in Cmd \cup {None}
      /\ queue \in Seq(Cmd)
      /\ pc \in [Cmd -> {"idle", "send", "drain", "wait", "inline", "done"}]
      /\ attempt \in [Cmd -> 0..MaxAttempts]
      /\ outcomes \in [Cmd -> Seq(Outcome)]
      /\ accepted \subseteq Cmd /\ written \subseteq Cmd
      /\ lastSet \in MqttCmd \cup {None}
      /\ MqttCmd \subseteq Cmd /\ None \notin Cmd
  BY DEF TypeOK, Cmd
<1>c. /\ \A i, j \in DOMAIN queue : queue[i] = queue[j] => i = j
      /\ cur \notin Range(queue)
      /\ Range(queue) \subseteq Pending
      /\ Pending \subseteq accepted
      /\ cur # None => cur \in accepted
      /\ \A c \in Cmd : pc[c] \in Before => c \notin accepted /\ c \notin written
      /\ \A c \in Cmd : c \notin accepted => Len(outcomes[c]) = 0
  BY <1>t DEF Custody, ExactlyOnce, Order, Pending
\* A call that the router does not make has not begun, and does not begin.
<1>m. ASSUME NEW c \in Cmd, pc[c] # "idle" \/ pc'[c] # "idle"
      PROVE  c \in MqttCmd
  BY <1>m, <1>a DEF Alone
<1>1. CASE RunStep \/ WorkerStart \/ WorkerRetry \/ WorkerExit \/ UNCHANGED vars
  <2>1. UNCHANGED <<queue, cur, pc, attempt, outcomes, register, written, accepted, lastSet>>
    BY <1>1 DEF RunStep, InstallInboundHandler, WaitForStatic, Spawn, RunAborts,
       Cancel, StopCommands, WorkerStart, WorkerRetry, WorkerExit, vars,
       workerVars, producerVars, inverterVars, issueVars
  <2> QED BY <1>n, <2>1 DEF Newest, Kept, Superseded
<1>2. CASE WorkerTake
  <2>1. /\ queue # <<>> /\ cur = None
        /\ cur' = Head(queue) /\ queue' = Tail(queue)
        /\ UNCHANGED <<pc, attempt, outcomes, register, written, accepted, lastSet>>
    BY <1>2 DEF WorkerTake, WorkerShape, producerVars, inverterVars, issueVars
  <2>2. /\ Len(queue) \in Nat \ {0}
        /\ DOMAIN queue = 1..Len(queue)
        /\ Tail(queue) \in Seq(Cmd)
        /\ Len(Tail(queue)) = Len(queue) - 1
        /\ DOMAIN Tail(queue) = 1..(Len(queue) - 1)
        /\ \A i \in DOMAIN Tail(queue) : Tail(queue)[i] = queue[i + 1]
        /\ Head(queue) = queue[1]
        /\ Range(queue) = {Head(queue)} \cup Range(Tail(queue))
    BY <1>t, <2>1, TailFacts
  <2>3. ASSUME lastSet # None, pc[lastSet] = "done"
        PROVE  Kept'
    <3>1. Kept
      BY <1>n, <2>3
    <3>2. lastSet \in Range(queue) /\ queue[Len(queue)] = lastSet
      BY <2>1, <3>1 DEF Kept
    <3>3. lastSet \notin written
      BY <3>1, <3>2 DEF Kept
    <3>4. CASE Len(queue) = 1
      <4>1. queue' = <<>> /\ Head(queue) = lastSet
        BY <2>1, <2>2, <3>2, <3>4
      <4>2. Range(queue') = {}
        BY <4>1 DEF Range
      <4> QED BY <2>1, <3>1, <3>3, <4>1, <4>2 DEF Kept, Superseded
    <3>5. CASE Len(queue) # 1
      <4>1. /\ Len(queue) - 1 \in DOMAIN Tail(queue)
            /\ Tail(queue)[Len(queue) - 1] = lastSet
        BY <2>2, <3>2, <3>5
      <4>2. lastSet \in Range(queue') /\ queue'[Len(queue')] = lastSet
        BY <2>1, <2>2, <4>1 DEF Range
      <4> QED BY <2>1, <3>1, <3>3, <4>2 DEF Kept, Superseded
    <3> QED BY <3>4, <3>5
  <2>4. Len(queue') < QueueCap \/ ~(Len(queue) < QueueCap)
    BY <2>1, <2>2
  <2> QED BY <1>n, <2>1, <2>3, <2>4 DEF Newest
\* The worker writes cur, or not; keeps it, or settles it with a result that
\* is not "superseded".
<1>3. ASSUME cur \in Cmd,
             \/ UNCHANGED <<cur, outcomes>>
             \/ \E err \in Outcome \ {"superseded"} : Settle(err),
             \/ UNCHANGED <<register, written>>
             \/ register' = cur /\ written' = written \cup {cur}
             \/ register' = register /\ written' = written \cup {cur} /\ register = cur,
             UNCHANGED <<queue, pc, attempt, accepted, lastSet>>
      PROVE  Newest'
  <2>1. cur' \in {cur, None}
    BY <1>3 DEF Settle
  <2>2. ASSUME NEW d \in Cmd, Superseded(d)'
        PROVE  Superseded(d)
    <3>1. CASE UNCHANGED outcomes
      BY <2>2, <3>1 DEF Superseded
    <3>2. CASE \E err \in Outcome \ {"superseded"} : Settle(err)
      <4>1. PICK err \in Outcome \ {"superseded"} : Settle(err)
        BY <3>2
      <4>2. outcomes' = [outcomes EXCEPT ![cur] = Append(outcomes[cur], err)]
        BY <4>1 DEF Settle
      <4>3. CASE d # cur
        BY <1>t, <1>3, <2>2, <4>2, <4>3 DEF Superseded
      <4>4. CASE d = cur
        <5>1. outcomes'[d] = Append(outcomes[d], err) /\ outcomes[d] \in Seq(Outcome)
          BY <1>t, <4>2, <4>4
        <5>2. Range(Append(outcomes[d], err)) = Range(outcomes[d]) \cup {err}
          BY <5>1, <4>1, AppendFacts
        <5> QED BY <2>2, <4>1, <5>1, <5>2 DEF Superseded
      <4> QED BY <4>3, <4>4
    <3> QED BY <1>3, <3>1, <3>2
  <2>3. ASSUME lastSet # None, pc[lastSet] = "done"
        PROVE  Kept'
    <3>1. Kept
      BY <1>n, <2>3
    <3>2. ~Superseded(lastSet)'
      BY <1>3, <1>t, <2>2, <2>3, <3>1 DEF Kept
    <3>3. ASSUME lastSet \in written'
          PROVE  lastSet \notin Range(queue) /\ register' = lastSet
      <4>1. CASE lastSet = cur
        BY <1>3, <1>c, <3>1, <3>3, <4>1 DEF Kept
      <4>2. CASE lastSet # cur
        <5>1. lastSet \in written
          BY <1>3, <3>3, <4>2
        <5>2. cur \in {lastSet, None}
          BY <3>1, <5>1 DEF Kept
        <5> QED BY <1>3, <1>t, <4>2, <5>2
      <4> QED BY <4>1, <4>2
    <3> QED BY <1>3, <2>1, <3>1, <3>2, <3>3 DEF Kept, Superseded
  <2> QED BY <1>3, <1>n, <2>3 DEF Newest
<1>4. CASE WorkerDispatch
  <2>1. cur \in Cmd
    BY <1>4, <1>t DEF WorkerDispatch, WorkerShape
  <2>2. PICK err \in Outcome, reg \in {register, cur} :
          /\ Dispatch(cur, err, reg, cancelled)
          /\ WireEffect(cur, reg)
          /\ IF err = "failed" /\ tries < WriteRetries
             THEN wpc' = "backoff" /\ UNCHANGED <<cur, tries, outcomes>>
             ELSE Settle(err)
    BY <1>4 DEF WorkerDispatch
  <2>3. err # "superseded"
    BY <2>2 DEF Dispatch
  <2>4. \/ UNCHANGED <<cur, outcomes>>
        \/ \E e \in Outcome \ {"superseded"} : Settle(e)
    BY <2>2, <2>3
  <2>5. \/ UNCHANGED <<register, written>>
        \/ register' = cur /\ written' = written \cup {cur}
        \/ register' = register /\ written' = written \cup {cur} /\ register = cur
    BY <2>2 DEF WireEffect
  <2>6. UNCHANGED <<queue, pc, attempt, accepted, lastSet>>
    BY <1>4 DEF WorkerDispatch, producerVars, issueVars
  <2> QED BY <1>3, <2>1, <2>4, <2>5, <2>6
<1>5. CASE WorkerRetryCancelled
  <2>1. cur \in Cmd
    BY <1>5, <1>t DEF WorkerRetryCancelled, WorkerShape
  <2>2. \E e \in Outcome \ {"superseded"} : Settle(e)
    BY <1>5 DEF WorkerRetryCancelled, Outcome
  <2>3. UNCHANGED <<queue, pc, attempt, accepted, lastSet, register, written>>
    BY <1>5 DEF WorkerRetryCancelled, producerVars, issueVars, inverterVars
  <2> QED BY <1>3, <2>1, <2>2, <2>3
<1>6. ASSUME NEW c \in MqttCmd, OnSetDropped(c)
      PROVE  Newest'
  <2>1. /\ pc[c] = "idle" /\ pc' = [pc EXCEPT ![c] = "done"]
        /\ UNCHANGED <<queue, cur, attempt, outcomes, register, written, accepted, lastSet>>
    BY <1>6 DEF OnSetDropped, Return, workerVars, inverterVars, issueVars
  <2>2. lastSet # None => c # lastSet
    BY <1>n, <2>1
  <2>3. Kept' <=> Kept
    BY <2>1 DEF Kept, Superseded
  <2> QED BY <1>n, <1>t, <2>1, <2>2, <2>3 DEF Newest
<1>7. ASSUME NEW c \in MqttCmd, OnSet(c)
      PROVE  Newest'
  <2>1. /\ \A d \in MqttCmd : ~InFlight(d)
        /\ pc' = [pc EXCEPT ![c] = "send"]
        /\ attempt' = [attempt EXCEPT ![c] = 1]
        /\ lastSet' = c
    BY <1>7 DEF OnSet, Begin
  <2>2. pc'[c] = "send" /\ attempt'[c] = 1
    BY <1>t, <2>1
  <2>3. \A d \in MqttCmd \ {c} : pc'[d] = pc[d] /\ pc[d] \notin {"send", "drain"}
    BY <1>t, <2>1 DEF InFlight
  <2> QED BY <1>n, <2>1, <2>2, <2>3 DEF Newest
\* Calls of the other producers.
<1>8. ASSUME NEW c \in Cmd,
             \/ c \in WatchdogCmd /\ EvccFallback(c)
             \/ c \in WebCmd /\ Write(c)
             \/ c \in WebCmd /\ WriteGivenUp(c)
             \/ WriteReply(c)
             \/ WriteInline(c)
      PROVE  FALSE
  <2>1. CASE c \in WatchdogCmd \/ c \in WebCmd
    <3>1. pc'[c] # "idle"
      <4>1. CASE EvccFallback(c)
        BY <1>t, <4>1 DEF EvccFallback, Begin
      <4>2. CASE Write(c)
        <5>1. pc' = [pc EXCEPT ![c] = "send"] \/ pc' = [pc EXCEPT ![c] = "inline"]
          BY <4>2, Zenon DEF Write, Begin
        <5> QED BY <1>t, <5>1
      <4>3. CASE WriteGivenUp(c) \/ WriteReply(c) \/ WriteInline(c)
        BY <1>t, <4>3 DEF WriteGivenUp, WriteReply, WriteInline, Return
      <4> QED BY <1>8, <4>1, <4>2, <4>3
    <3>2. c \notin MqttCmd
      BY <2>1
    <3> QED BY <1>m, <3>1, <3>2
  <2>2. CASE WriteReply(c) \/ WriteInline(c)
    <3>1. pc[c] \in {"wait", "inline"}
      BY <2>2 DEF WriteReply, WriteInline
    <3>2. c \in MqttCmd
      BY <1>m, <3>1
    <3> QED BY <1>n, <3>1, <3>2
  <2> QED BY <1>8, <2>1, <2>2
<1>9. ASSUME NEW c \in Cmd, EnqueueSend(c)
      PROVE  Newest'
  <2>1. /\ pc[c] = "send"
        /\ UNCHANGED <<cur, attempt, outcomes, register, written, lastSet>>
    BY <1>9 DEF EnqueueSend, workerVars, inverterVars, issueVars
  <2>2. c \in MqttCmd /\ c = lastSet /\ c # None /\ c \notin WebCmd
    BY <1>m, <1>n, <1>t, <2>1
  <2>3. CASE ~(Len(queue) < QueueCap)
    <3>1. pc' = [pc EXCEPT ![c] = "drain"] /\ UNCHANGED <<queue, accepted>>
      BY <1>9, <2>3 DEF EnqueueSend
    <3>2. pc'[c] = "drain" /\ attempt'[c] = 1
      BY <1>n, <1>t, <2>1, <2>2, <2>3, <3>1
    <3> QED BY <1>n, <1>t, <2>1, <2>2, <3>1, <3>2 DEF Newest
  <2>4. CASE Len(queue) < QueueCap
    <3>1. /\ queue' = Append(queue, c) /\ accepted' = accepted \cup {c}
          /\ pc' = [pc EXCEPT ![c] = "done"]
      BY <1>9, <2>2, <2>4 DEF EnqueueSend, Return
    <3>2. /\ Len(queue) \in Nat /\ Len(queue') = Len(queue) + 1
          /\ queue'[Len(queue) + 1] = c
          /\ Range(queue') = Range(queue) \cup {c}
      BY <1>t, <3>1, AppendFacts
    <3>3. c \notin written /\ Len(outcomes[c]) = 0
      BY <1>c, <2>1 DEF Before
    <3>4. ~Superseded(c)'
      <4>1. outcomes'[c] \in Seq(Outcome) /\ Len(outcomes'[c]) = 0
        BY <1>t, <2>1, <3>3
      <4>2. DOMAIN outcomes'[c] = {}
        BY <4>1
      <4> QED BY <4>2 DEF Superseded, Range
    <3>5. Kept'
      BY <2>1, <2>2, <3>1, <3>2, <3>3, <3>4 DEF Kept, Superseded
    <3>6. pc'[c] = "done" /\ \A d \in MqttCmd \ {c} : pc'[d] = pc[d]
      BY <1>t, <3>1
    <3> QED BY <1>n, <1>t, <2>1, <2>2, <3>5, <3>6 DEF Newest
  <2> QED BY <2>3, <2>4
<1>10. ASSUME NEW c \in Cmd, EnqueueDrop(c)
       PROVE  Newest'
  <2>1. /\ pc[c] = "drain"
        /\ NextAttempt(c)
        /\ UNCHANGED lastSet
    BY <1>10 DEF EnqueueDrop, issueVars
  <2>2. c \in MqttCmd /\ c = lastSet /\ c # None
    BY <1>m, <1>n, <1>t, <2>1
  <2>3. attempt[c] = 1
    BY <1>n, <2>1, <2>2
  <2>4. pc' = [pc EXCEPT ![c] = "send"] /\ attempt'[c] = 2
    BY <1>t, <2>1, <2>3 DEF NextAttempt
  <2>5. Len(queue') < QueueCap
    <3>1. CASE queue = <<>>
      BY <1>10, <3>1 DEF EnqueueDrop
    <3>2. CASE queue # <<>>
      <4>1. queue' = Tail(queue) /\ Len(queue') = Len(queue) - 1 /\ Len(queue) \in Nat \ {0}
        BY <1>10, <1>t, <3>2, TailFacts DEF EnqueueDrop
      <4>2. Len(queue) <= QueueCap
        BY DEF Custody, ExactlyOnce
      <4> QED BY <4>1, <4>2
    <3> QED BY <3>1, <3>2
  <2>6. pc'[c] = "send" /\ \A d \in MqttCmd \ {c} : pc'[d] = pc[d]
    BY <1>t, <2>4
  <2> QED BY <1>n, <2>1, <2>2, <2>4, <2>5, <2>6 DEF Newest
<1>11. ASSUME NEW c \in Cmd, CallStep(c)
       PROVE  Newest'
  BY <1>8, <1>9, <1>10, <1>11 DEF CallStep
<1>12. CASE WorkerStep
  BY <1>1, <1>2, <1>4, <1>5, <1>12 DEF WorkerStep
<1>13. CASE RunStep \/ UNCHANGED vars
  BY <1>1, <1>13
<1>14. CASE \E c \in MqttCmd : OnSetDropped(c) \/ OnSet(c)
  BY <1>6, <1>7, <1>14
<1>15. CASE \/ \E c \in WatchdogCmd : EvccFallback(c)
            \/ \E c \in WebCmd : Write(c) \/ WriteGivenUp(c)
  <2>1. CASE \E c \in WatchdogCmd : EvccFallback(c)
    <3>1. PICK c \in WatchdogCmd : EvccFallback(c)
      BY <2>1
    <3>2. c \in Cmd
      BY DEF Cmd
    <3> QED BY <1>8, <3>1, <3>2, Zenon
  <2>2. CASE \E c \in WebCmd : Write(c) \/ WriteGivenUp(c)
    <3>1. PICK c \in WebCmd : Write(c) \/ WriteGivenUp(c)
      BY <2>2, Zenon
    <3>2. c \in Cmd
      BY DEF Cmd
    <3> QED BY <1>8, <3>1, <3>2
  <2> QED BY <1>15, <2>1, <2>2
<1>16. CASE \E c \in Cmd : CallStep(c)
  BY <1>11, <1>16
<1> QED
  BY <1>12, <1>13, <1>14, <1>15, <1>16 DEF Next

\* With the router as the only producer and more than one attempt, the newest
\* command it let through is never the one dropped, and is what the inverter
\* holds in the end if it was written at all.
THEOREM NewestSurvives ==
    ASSUME MaxAttempts > 1
    PROVE  Spec => []LastWins
<1>1. Init => Custody /\ Order /\ (Alone => Newest)
  <2>1. Init => Custody /\ Order
    BY ConstAssumption DEF Init, Custody, ExactlyOnce, Order, InOrder, Pending, Range
  <2>2. Init => Newest
    BY ConstAssumption DEF Init, Newest, Cmd
  <2> QED BY <2>1, <2>2
<1>2. (Alone => Newest) => LastWins
  BY DEF Alone, Newest, Kept, LastWins, Pending
<1>3. TypeOK /\ WorkerShape /\ Custody /\ Order /\ (Alone => Newest) /\ [Next]_vars
        => (Alone => Newest)'
  BY NewestStep
<1> QED BY <1>1, <1>2, <1>3, TypeCorrect, CustodyStep, OrderStep, PTL DEF Spec

-----------------------------------------------------------------------------
(* The write queue implements the abstract command path *)

\* A caller that waits for its answer has handed its command over.
Waiting == \A c \in Cmd : pc[c] = "wait" => c \in accepted

\* The inverter holds a value that was written.
Held == register \in written \cup {None}

\* What the mapping of a step may rely on.
IInv == TypeOK /\ WorkerShape /\ Custody /\ Order /\ Truth /\ Waiting /\ Held

-----------------------------------------------------------------------------
(* The mapped variables *)

\* How a move of one call's control state shows in its stage.
LEMMA StageMoves ==
    ASSUME TypeOK, NEW c \in Cmd,
           NEW w \in {"send", "drain", "wait", "inline", "done"},
           pc' = [pc EXCEPT ![c] = w]
    PROVE  /\ w = "done" => stageBar' = [stageBar EXCEPT ![c] = "closed"]
           /\ w # "done" => stageBar' = [stageBar EXCEPT ![c] = "open"]
           /\ w # "done" /\ pc[c] \notin {"idle", "done"} => stageBar' = stageBar
  BY DEF TypeOK, stageBar

\* An outcome delivered to a command that had none becomes its fate.
LEMMA FateSet ==
    ASSUME TypeOK, NEW c \in Cmd, NEW e \in Outcome, Len(outcomes[c]) = 0,
           outcomes' = [outcomes EXCEPT ![c] = Append(outcomes[c], e)]
    PROVE  /\ fateBar[c] = "none"
           /\ fateBar' = [fateBar EXCEPT ![c] = e]
<1>1. outcomes \in [Cmd -> Seq(Outcome)]
  BY DEF TypeOK
<1>2. outcomes[c] = <<>>
  BY <1>1
<1>3. outcomes'[c] # <<>> /\ Head(outcomes'[c]) = e
  BY <1>1, <1>2
<1>4. \A d \in Cmd : d # c => outcomes'[d] = outcomes[d]
  BY <1>1
<1>5. fateBar[c] = "none"
  BY <1>2 DEF fateBar
<1>6. \A d \in Cmd : fateBar'[d] = [fateBar EXCEPT ![c] = e][d]
  BY <1>3, <1>4 DEF fateBar
<1> QED BY <1>5, <1>6 DEF fateBar

LEMMA WaitingStep ==
    TypeOK /\ Waiting /\ [Next]_vars => Waiting'
<1> SUFFICES ASSUME TypeOK, Waiting, [Next]_vars
             PROVE  Waiting'
  OBVIOUS
<1>t. pc \in [Cmd -> {"idle", "send", "drain", "wait", "inline", "done"}]
  BY DEF TypeOK
<1>1. ASSUME accepted \subseteq accepted',
             \A c \in Cmd : pc'[c] = "wait" => pc[c] = "wait"
      PROVE  Waiting'
  BY <1>1 DEF Waiting
<1>2. CASE RunStep \/ WorkerStep \/ UNCHANGED vars
  <2>1. UNCHANGED <<pc, accepted>>
    BY <1>2 DEF RunStep, InstallInboundHandler, WaitForStatic, Spawn, RunAborts,
       Cancel, StopCommands, WorkerStep, WorkerStart, WorkerTake, WorkerDispatch,
       WorkerRetry, WorkerRetryCancelled, WorkerExit, vars, producerVars
  <2> QED BY <1>1, <2>1
<1>3. ASSUME NEW c \in Cmd,
             \/ OnSetDropped(c) \/ OnSet(c) \/ EvccFallback(c) \/ Write(c)
             \/ WriteGivenUp(c) \/ WriteReply(c) \/ WriteInline(c) \/ EnqueueDrop(c)
      PROVE  Waiting'
  <2>1. accepted' = accepted
    BY <1>3, Zenon DEF OnSetDropped, OnSet, EvccFallback, Write, WriteGivenUp,
       WriteReply, WriteInline, EnqueueDrop
  <2>2. \/ pc' = [pc EXCEPT ![c] = "done"]
        \/ pc' = [pc EXCEPT ![c] = "send"]
        \/ pc' = [pc EXCEPT ![c] = "inline"]
    BY <1>3, Zenon DEF OnSetDropped, OnSet, EvccFallback, Write, WriteGivenUp,
       WriteReply, WriteInline, EnqueueDrop, NextAttempt, Begin, Return
  <2>3. \A d \in Cmd : pc'[d] = "wait" => pc[d] = "wait"
    BY <1>t, <2>2
  <2> QED BY <1>1, <2>1, <2>3
<1>4. ASSUME NEW c \in Cmd, EnqueueSend(c)
      PROVE  Waiting'
  <2>1. \/ /\ accepted' = accepted \cup {c}
           /\ \/ pc' = [pc EXCEPT ![c] = "wait"]
              \/ pc' = [pc EXCEPT ![c] = "done"]
        \/ accepted' = accepted /\ pc' = [pc EXCEPT ![c] = "drain"]
    BY <1>4, Zenon DEF EnqueueSend, Return
  <2> QED BY <1>t, <2>1 DEF Waiting
<1> QED BY <1>2, <1>3, <1>4 DEF Next, CallStep, Cmd

LEMMA HeldStep ==
    Held /\ [Next]_vars => Held'
<1> SUFFICES ASSUME Held, [Next]_vars
             PROVE  Held'
  OBVIOUS
<1>1. ASSUME NEW c, NEW reg \in {register, c}, WireEffect(c, reg)
      PROVE  Held'
  BY <1>1 DEF Held, WireEffect
<1>2. CASE WorkerDispatch
  <2>1. PICK reg \in {register, cur} : WireEffect(cur, reg)
    BY <1>2 DEF WorkerDispatch
  <2> QED BY <1>1, <2>1
<1>3. ASSUME NEW c \in Cmd, WriteInline(c)
      PROVE  Held'
  <2>1. PICK reg \in {register, c} : WireEffect(c, reg)
    BY <1>3 DEF WriteInline
  <2> QED BY <1>1, <2>1
<1>4. ASSUME UNCHANGED <<register, written>>
      PROVE  Held'
  BY <1>4 DEF Held
<1>5. CASE RunStep \/ (WorkerStep /\ ~WorkerDispatch) \/ UNCHANGED vars
  BY <1>4, <1>5 DEF RunStep, InstallInboundHandler, WaitForStatic, Spawn, RunAborts,
     Cancel, StopCommands, WorkerStep, WorkerStart, WorkerTake, WorkerRetry,
     WorkerRetryCancelled, WorkerExit, vars, inverterVars
<1>6. ASSUME NEW c \in Cmd,
             \/ OnSetDropped(c) \/ OnSet(c) \/ EvccFallback(c) \/ Write(c)
             \/ WriteGivenUp(c) \/ WriteReply(c) \/ EnqueueSend(c) \/ EnqueueDrop(c)
      PROVE  Held'
  <2>1. UNCHANGED <<register, written>>
    BY <1>6, Zenon DEF OnSetDropped, OnSet, EvccFallback, Write, WriteGivenUp,
       WriteReply, EnqueueSend, EnqueueDrop, inverterVars
  <2> QED BY <1>4, <2>1
<1> QED BY <1>2, <1>3, <1>5, <1>6 DEF Next, CallStep, Cmd, WorkerStep

-----------------------------------------------------------------------------
(* Every step is a step of the abstract path, or leaves it unchanged *)

LEMMA RunMaps ==
    ASSUME IInv,
           RunStep \/ WorkerStart \/ WorkerRetry \/ WorkerExit \/ UNCHANGED vars
    PROVE  UNCHANGED CP!vars
<1>1. UNCHANGED <<pc, outcomes, queue, cur, ahead, accepted, register, written, result>>
  BY DEF RunStep, InstallInboundHandler, WaitForStatic, Spawn, RunAborts,
     Cancel, StopCommands, WorkerStart, WorkerRetry, WorkerExit, vars,
     workerVars, producerVars, inverterVars, issueVars
<1> QED BY <1>1 DEF CP!vars, stageBar, fateBar, Pending

\* The worker takes what nothing that is pending was ahead of.
LEMMA TakeMaps ==
    ASSUME IInv, WorkerTake
    PROVE  \E c \in Cmd : CP!Begin(c)
<1>1. /\ queue # <<>> /\ cur = None
      /\ cur' = Head(queue) /\ queue' = Tail(queue)
      /\ UNCHANGED <<pc, result, ahead, accepted, outcomes, register, written>>
  BY DEF IInv, WorkerTake, WorkerShape, producerVars, inverterVars, issueVars
<1>2. queue \in Seq(Cmd)
  BY DEF IInv, TypeOK
<1>3. /\ Head(queue) \in Cmd
      /\ Head(queue) = queue[1] /\ DOMAIN queue = 1..Len(queue)
      /\ 1 \in DOMAIN queue /\ Len(queue) \in Nat
      /\ Range(queue) = {Head(queue)} \cup Range(Tail(queue))
  BY <1>1, <1>2, TailFacts
<1>4. Pending' = Pending /\ Pending = Range(queue) /\ Head(queue) \in Pending
  BY <1>1, <1>3, ConstAssumption DEF Pending
<1>5. \A j \in DOMAIN queue : queue[j] \notin ahead[queue[1]]
  BY <1>3 DEF IInv, Order
<1>6. ahead[Head(queue)] \cap Pending = {}
  BY <1>3, <1>4, <1>5 DEF Range
<1>7. UNCHANGED <<stageBar, fateBar>>
  BY <1>1 DEF stageBar, fateBar
<1>8. CP!Begin(Head(queue))
  BY <1>1, <1>3, <1>4, <1>6, <1>7 DEF CP!Begin
<1> QED BY <1>3, <1>8

\* A settled request leaves the path with its outcome.
LEMMA SettleMaps ==
    ASSUME IInv, NEW e \in CP!Error, cur \in Cmd, Settle(e),
           CP!Execution(cur, e),
           UNCHANGED <<queue, accepted, pc, result, ahead>>
    PROVE  CP!Settle(e)
<1>1. /\ cur' = None
      /\ outcomes' = [outcomes EXCEPT ![cur] = Append(outcomes[cur], e)]
  BY DEF Settle
<1>2. /\ cur # None /\ cur \in Pending /\ None \notin Range(queue)
      /\ Pending \subseteq accepted
      /\ cur \notin Range(queue)
  BY ConstAssumption DEF IInv, Custody, ExactlyOnce, Pending, TypeOK, Range
<1>3. Pending' = Pending \ {cur}
  BY <1>1, <1>2 DEF Pending
<1>4. Len(outcomes[cur]) = 0
  BY <1>2 DEF IInv, Custody, ExactlyOnce
<1>5. fateBar[cur] = "none" /\ fateBar' = [fateBar EXCEPT ![cur] = e]
  <2>1. e \in Outcome
    BY DEF CP!Error, Outcome
  <2> QED BY <1>1, <1>4, <2>1, FateSet DEF IInv
<1>6. stageBar' = stageBar
  BY DEF stageBar
<1> QED BY <1>1, <1>2, <1>3, <1>5, <1>6 DEF CP!Settle

\* What an execution of the model may do is what the abstract one may.
LEMMA DispatchMaps ==
    ASSUME IInv, NEW c \in Cmd, NEW e \in Outcome, NEW reg \in {register, c},
           NEW ctxDone \in BOOLEAN, Dispatch(c, e, reg, ctxDone), WireEffect(c, reg)
    PROVE  e \in CP!Error /\ CP!Execution(c, e)
<1>1. e \in CP!Error
  BY DEF Dispatch, CP!Error
<1>2. CASE reg = c /\ e # "rejected"
  BY <1>1, <1>2 DEF WireEffect, CP!Execution
<1>3. CASE reg # c
  <2>1. reg = register /\ e # "ok"
    BY <1>3 DEF Dispatch
  <2> QED BY <1>1, <1>3, <2>1 DEF WireEffect, CP!Execution
<1>4. CASE reg = c /\ e = "rejected"
  <2>1. register = c /\ c \in written
    BY <1>4, ConstAssumption DEF Dispatch, IInv, Held
  <2> QED BY <1>1, <1>4, <2>1 DEF WireEffect, CP!Execution
<1> QED BY <1>2, <1>3, <1>4


LEMMA DispatchStepMaps ==
    ASSUME IInv, WorkerDispatch
    PROVE  CP!Next
<1>1. cur \in Cmd /\ cur # None
  BY ConstAssumption DEF IInv, WorkerDispatch, WorkerShape, TypeOK
<1>2. UNCHANGED <<queue, accepted, pc, result, ahead>>
  BY DEF WorkerDispatch, producerVars, issueVars
<1>3. PICK e \in Outcome, reg \in {register, cur} :
        /\ Dispatch(cur, e, reg, cancelled)
        /\ WireEffect(cur, reg)
        /\ IF e = "failed" /\ tries < WriteRetries
           THEN wpc' = "backoff" /\ UNCHANGED <<cur, tries, outcomes>>
           ELSE Settle(e)
  BY DEF WorkerDispatch
<1>4. e \in CP!Error /\ CP!Execution(cur, e)
  BY <1>1, <1>3, DispatchMaps DEF IInv, TypeOK
<1>5. CASE Settle(e)
  BY <1>1, <1>2, <1>4, <1>5, SettleMaps DEF CP!Next
<1>6. CASE e = "failed" /\ UNCHANGED <<cur, outcomes>>
  <2>1. UNCHANGED <<stageBar, fateBar, Pending>>
    BY <1>2, <1>6 DEF stageBar, fateBar, Pending
  <2>2. CP!Attempt
    BY <1>1, <1>2, <1>4, <1>6, <2>1 DEF CP!Attempt
  <2> QED BY <2>2 DEF CP!Next
<1> QED BY <1>3, <1>5, <1>6

LEMMA RetryCancelledMaps ==
    ASSUME IInv, WorkerRetryCancelled
    PROVE  CP!Next
<1>1. cur \in Cmd
  BY DEF IInv, WorkerRetryCancelled, WorkerShape, TypeOK
<1>2. UNCHANGED <<queue, accepted, pc, result, ahead, register, written>>
  BY DEF WorkerRetryCancelled, producerVars, issueVars, inverterVars
<1>3. "ctx" \in CP!Error /\ CP!Execution(cur, "ctx")
  BY <1>2 DEF CP!Error, CP!Execution
<1> QED BY <1>1, <1>2, <1>3, SettleMaps DEF WorkerRetryCancelled, CP!Next

\* Beginning a call: through the channel, or past it.
LEMMA CallMaps ==
    ASSUME IInv, NEW c \in Cmd, OnSet(c) \/ EvccFallback(c) \/ Write(c)
    PROVE  CP!Call(c)
<1>1. /\ pc[c] = "idle"
      /\ UNCHANGED <<queue, cur, accepted, outcomes, register, written, result>>
      /\ Begin(c, "send") \/ Begin(c, "inline")
  BY Zenon DEF OnSet, EvccFallback, Write, workerVars, inverterVars
<1>2. ahead' = [ahead EXCEPT ![c] = Pending] /\ Pending' = Pending
  BY <1>1 DEF Begin, Pending
<1>3. stageBar' = [stageBar EXCEPT ![c] = "open"]
  BY <1>1, StageMoves DEF IInv, Begin
<1>4. fateBar' = fateBar /\ stageBar[c] = "new"
  BY <1>1 DEF fateBar, stageBar
<1> QED BY <1>1, <1>2, <1>3, <1>4 DEF CP!Call

\* Returning from a call that the channel, the worker and the inverter do not
\* notice.
LEMMA ReturnMaps ==
    ASSUME IInv, NEW c \in Cmd, OnSetDropped(c) \/ WriteReply(c) \/ WriteGivenUp(c)
    PROVE  CP!TurnAway(c) \/ CP!Reply(c) \/ CP!GiveUp(c)
<1>1. UNCHANGED <<queue, cur, accepted, outcomes, register, written, ahead>>
  BY Zenon DEF OnSetDropped, WriteReply, WriteGivenUp, workerVars, inverterVars, issueVars
<1>2. UNCHANGED <<fateBar, Pending>>
  BY <1>1 DEF fateBar, Pending
<1>3. ASSUME NEW a, Return(c, a)
      PROVE  CP!Close(c, a)
  <2>1. pc' = [pc EXCEPT ![c] = "done"] /\ result' = [result EXCEPT ![c] = a]
    BY <1>3 DEF Return
  <2>2. stageBar' = [stageBar EXCEPT ![c] = "closed"]
    BY <2>1, StageMoves DEF IInv
  <2> QED BY <2>1, <2>2 DEF CP!Close
<1>4. CASE OnSetDropped(c)
  <2>1. stageBar[c] = "new" /\ Return(c, "dropped")
    BY <1>4 DEF OnSetDropped, stageBar
  <2> QED BY <1>1, <1>2, <1>3, <2>1 DEF CP!TurnAway
<1>5. CASE WriteReply(c)
  <2>1. /\ stageBar[c] = "open" /\ pc[c] = "wait" /\ outcomes[c] # <<>>
        /\ Return(c, Head(outcomes[c]))
    BY <1>5 DEF WriteReply, stageBar
  <2>2. outcomes[c] \in Seq(Outcome)
    BY DEF IInv, TypeOK
  <2>3. Head(outcomes[c]) \in Outcome
    BY <2>1, <2>2
  <2>4. fateBar[c] = Head(outcomes[c]) /\ fateBar[c] # "none"
    BY <2>1, <2>3 DEF fateBar, Outcome
  <2>5. c \in accepted
    BY <2>1 DEF IInv, Waiting
  <2> QED BY <1>1, <1>2, <1>3, <2>1, <2>4, <2>5 DEF CP!Reply
<1>6. CASE WriteGivenUp(c)
  <2>1. stageBar[c] = "open" /\ c \in accepted /\ Return(c, "ctx")
    BY <1>6 DEF WriteGivenUp, stageBar, IInv, Waiting
  <2> QED BY <1>1, <1>2, <1>3, <2>1 DEF CP!GiveUp
<1> QED BY <1>4, <1>5, <1>6


LEMMA InlineMaps ==
    ASSUME IInv, NEW c \in Cmd, WriteInline(c)
    PROVE  \E e \in CP!Error : CP!Direct(c, e)
<1>1. /\ pc[c] = "inline"
      /\ UNCHANGED <<queue, cur, accepted, outcomes, ahead>>
  BY DEF WriteInline, workerVars, issueVars
<1>2. PICK e \in Outcome, reg \in {register, c} :
        Dispatch(c, e, reg, TRUE) /\ WireEffect(c, reg) /\ Return(c, e)
  BY DEF WriteInline
<1>3. e \in CP!Error /\ CP!Execution(c, e)
  BY <1>2, DispatchMaps
<1>4. c \notin accepted /\ stageBar[c] = "open"
  BY <1>1 DEF IInv, Custody, Before, stageBar
<1>5. pc' = [pc EXCEPT ![c] = "done"] /\ result' = [result EXCEPT ![c] = e]
  BY <1>2 DEF Return
<1>6. CP!Close(c, e)
  BY <1>5, StageMoves DEF IInv, CP!Close
<1>7. UNCHANGED <<fateBar, Pending>>
  BY <1>1 DEF fateBar, Pending
<1> QED BY <1>1, <1>3, <1>4, <1>6, <1>7 DEF CP!Direct

LEMMA SendMaps ==
    ASSUME IInv, NEW c \in Cmd, EnqueueSend(c)
    PROVE  CP!Accept(c) \/ UNCHANGED CP!vars
<1>1. pc[c] = "send" /\ UNCHANGED <<cur, outcomes, register, written, ahead>>
  BY DEF EnqueueSend, workerVars, inverterVars, issueVars
<1>2. fateBar' = fateBar
  BY <1>1 DEF fateBar
<1>3. CASE ~(Len(queue) < QueueCap)
  <2>1. pc' = [pc EXCEPT ![c] = "drain"] /\ UNCHANGED <<queue, accepted, result>>
    BY <1>3 DEF EnqueueSend
  <2>2. stageBar' = stageBar /\ Pending' = Pending
    BY <1>1, <2>1, StageMoves DEF IInv, Pending
  <2> QED BY <1>1, <1>2, <2>1, <2>2 DEF CP!vars
<1>4. CASE Len(queue) < QueueCap
  <2>1. /\ queue' = Append(queue, c) /\ accepted' = accepted \cup {c}
        /\ \/ pc' = [pc EXCEPT ![c] = "wait"] /\ UNCHANGED result
           \/ Return(c, "queued")
    BY <1>4 DEF EnqueueSend
  <2>2. c \notin accepted /\ stageBar[c] = "open"
    BY <1>1 DEF IInv, Custody, Before, stageBar
  <2>3. Pending' = Pending \cup {c}
    <3>1. Range(queue') = Range(queue) \cup {c}
      BY <2>1, AppendFacts DEF IInv, TypeOK
    <3> QED BY <1>1, <3>1 DEF Pending
  <2>4. CASE pc' = [pc EXCEPT ![c] = "wait"] /\ UNCHANGED result
    <3>1. stageBar' = stageBar
      BY <1>1, <2>4, StageMoves DEF IInv
    <3> QED BY <1>1, <1>2, <2>1, <2>2, <2>3, <2>4, <3>1 DEF CP!Accept
  <2>5. CASE Return(c, "queued")
    <3>1. CP!Close(c, "queued")
      BY <2>5, StageMoves DEF IInv, Return, CP!Close
    <3> QED BY <1>1, <1>2, <2>1, <2>2, <2>3, <3>1 DEF CP!Accept
  <2> QED BY <2>1, <2>4, <2>5
<1> QED BY <1>3, <1>4

\* What is dropped waits in the channel: nobody executes it, nobody has.
LEMMA DropMaps ==
    ASSUME IInv, NEW c \in Cmd, EnqueueDrop(c)
    PROVE  CP!MakeRoom(c)
<1>1. /\ pc[c] = "drain" /\ NextAttempt(c)
      /\ UNCHANGED <<cur, accepted, register, written, ahead>>
  BY DEF EnqueueDrop, workerVars, inverterVars, issueVars
<1>2. c \notin accepted /\ stageBar[c] = "open"
  BY <1>1 DEF IInv, Custody, Before, stageBar
<1>3. CP!Close(c, "full") \/ UNCHANGED <<stageBar, result>>
  <2>1. CASE Return(c, "full")
    BY <2>1, StageMoves DEF IInv, Return, CP!Close
  <2>2. CASE pc' = [pc EXCEPT ![c] = "send"] /\ UNCHANGED result
    BY <1>1, <2>2, StageMoves DEF IInv
  <2> QED BY <1>1, <2>1, <2>2 DEF NextAttempt
<1>4. CASE queue = <<>>
  <2>1. UNCHANGED <<queue, outcomes>>
    BY <1>4 DEF EnqueueDrop
  <2>2. UNCHANGED <<fateBar, Pending>>
    BY <1>1, <2>1 DEF fateBar, Pending
  <2> QED BY <1>1, <1>2, <1>3, <2>2 DEF CP!MakeRoom
<1>5. CASE queue # <<>>
  <2> DEFINE h == Head(queue)
  <2>1. /\ queue' = Tail(queue)
        /\ outcomes' = [outcomes EXCEPT ![h] = Append(outcomes[h], "superseded")]
    BY <1>5 DEF EnqueueDrop
  <2>2. /\ h \in Cmd /\ h = queue[1] /\ 1 \in DOMAIN queue
        /\ Range(queue) = {h} \cup Range(Tail(queue))
        /\ \A i \in DOMAIN Tail(queue) :
             i + 1 \in DOMAIN queue /\ Tail(queue)[i] = queue[i + 1]
        /\ DOMAIN Tail(queue) = 1..(Len(queue) - 1) /\ Len(queue) \in Nat
    BY <1>5, TailFacts DEF IInv, TypeOK
  <2> HIDE DEF h
  <2>3. h \notin Range(Tail(queue))
    <3>1. \A i, j \in DOMAIN queue : queue[i] = queue[j] => i = j
      BY DEF IInv, Custody, ExactlyOnce
    <3> SUFFICES ASSUME NEW i \in DOMAIN Tail(queue), Tail(queue)[i] = h
                 PROVE  FALSE
      BY DEF Range
    <3> QED BY <2>2, <3>1
  <2>4. h \in Pending /\ h # cur /\ h \notin written
    BY <2>2, ConstAssumption DEF IInv, Custody, ExactlyOnce, Truth, Pending
  <2>5. Pending' = Pending \ {h}
    BY <1>1, <2>1, <2>2, <2>3, <2>4 DEF Pending
  <2>6. Len(outcomes[h]) = 0
    BY <2>2, <2>4 DEF IInv, Custody, ExactlyOnce
  <2>7. fateBar[h] = "none" /\ fateBar' = [fateBar EXCEPT ![h] = "superseded"]
    <3>1. "superseded" \in Outcome
      BY DEF Outcome
    <3> QED BY <2>1, <2>2, <2>6, <3>1, FateSet DEF IInv
  <2> QED BY <1>1, <1>2, <1>3, <2>4, <2>5, <2>7 DEF CP!MakeRoom
<1> QED BY <1>4, <1>5

LEMMA StepMaps == IInv /\ [Next]_vars => [CP!Next]_(CP!vars)
<1> SUFFICES ASSUME IInv, [Next]_vars
             PROVE  CP!Next \/ UNCHANGED CP!vars
  OBVIOUS
<1>1. CASE RunStep \/ WorkerStart \/ WorkerRetry \/ WorkerExit \/ UNCHANGED vars
  BY <1>1, RunMaps
<1>2. CASE WorkerTake \/ WorkerDispatch \/ WorkerRetryCancelled
  BY <1>2, TakeMaps, DispatchStepMaps, RetryCancelledMaps DEF CP!Next
<1>3. ASSUME NEW c \in Cmd, OnSet(c) \/ EvccFallback(c) \/ Write(c)
      PROVE  CP!Next
  BY <1>3, CallMaps DEF CP!Next
<1>4. ASSUME NEW c \in Cmd, OnSetDropped(c) \/ WriteReply(c) \/ WriteGivenUp(c)
      PROVE  CP!Next
  BY <1>4, ReturnMaps DEF CP!Next
<1>5. ASSUME NEW c \in Cmd, WriteInline(c) \/ EnqueueSend(c) \/ EnqueueDrop(c)
      PROVE  CP!Next \/ UNCHANGED CP!vars
  BY <1>5, InlineMaps, SendMaps, DropMaps DEF CP!Next
<1> QED BY <1>1, <1>2, <1>3, <1>4, <1>5 DEF Next, WorkerStep, CallStep, Cmd

-----------------------------------------------------------------------------
\* The queue, its worker and its callers implement the abstract path: one
\* register, written by one command at a time, in the order of the calls, each
\* command settled once and each caller told what happened.
THEOREM Implementation == Spec => ImplementsCommandPath
<1>1. Init => CP!Init
  BY ConstAssumption DEF Init, CP!Init, stageBar, fateBar, Pending, Range
<1>2. Init => Custody /\ Order /\ Truth /\ Waiting /\ Held
  BY ConstAssumption DEF Init, Custody, ExactlyOnce, Order, InOrder, Truth,
     Superseded, Pending, Range, Waiting, Held
<1>3. IInv /\ [Next]_vars => [CP!Next]_(CP!vars)
  BY StepMaps
<1>4. TypeOK /\ WorkerShape /\ Custody /\ Order /\ Truth /\ Waiting /\ Held => IInv
  BY DEF IInv
<1> QED
  BY <1>1, <1>2, <1>3, <1>4, TypeCorrect, CustodyStep, OrderStep, TruthStep,
     WaitingStep, HeldStep, PTL DEF Spec, ImplementsCommandPath, CP!Spec
===============================================================================
