--------------------------- MODULE BatteryModeProofs ---------------------------
(***************************************************************************)
(* Proofs about module BatteryMode: types, that the operator's operation   *)
(* mode survives whatever the battery profile does - provided an answer is *)
(* never lost after its write was executed, and the process does not       *)
(* restart in hold or charge - and that the topic carries the mode in      *)
(* force.                                                                  *)
(*                                                                         *)
(* RestoresOwn is not inductive: between reading and writing the operation *)
(* mode the worker relies on what it has read (Undisturbed).  Nor is       *)
(* Reported: a report lost on a dead link is in the publish cache, and it  *)
(* is the replay that brings the broker up to the cache (Replayable).      *)
(***************************************************************************)
EXTENDS BatteryMode, TLAPS

\* While the worker is between its read and its write, the inverter is still
\* in the mode it read; once the write is done, what the commit will remember
\* is the operator's mode, or the inverter is back in it.
Undisturbed ==
    /\ wpc = "write" => code = op
    /\ wpc \in {"write", "commit"} => target # Current
    /\ wpc = "commit" => IF Current = "normal" THEN code = own \/ stranded
                         ELSE target = "normal" => op = own \/ stranded

Inv == TypeOK /\ RestoresOwn /\ Undisturbed

\* The cache holds the mode in force unless that was refused, and the broker
\* what the cache holds unless a replay is due or was refused.
Replayable ==
    /\ ~refused /\ wpc # "report" => cached = Current
    /\ link = "up" /\ ~replay /\ ~gaveUp /\ cached # None => shown = cached

-----------------------------------------------------------------------------

\* enqueueWrite keeps the queue a sequence of modes within its capacity.
LEMMA EnqueueType ==
    ASSUME TypeOK, NEW m \in Mode, Enqueue(m)
    PROVE  queue' \in Seq(Mode) /\ Len(queue') <= QueueCap
<1>1. /\ queue \in Seq(Mode) /\ QueueCap \in Nat \ {0}
      /\ Len(queue) <= QueueCap
  BY ConstAssumption DEF TypeOK
<1>2. CASE Len(queue) < QueueCap
  <2>1. queue' = Append(queue, m)
    BY <1>2 DEF Enqueue
  <2>2. Len(queue') = Len(queue) + 1
    BY <1>1, <2>1
  <2> QED BY <1>1, <1>2, <2>1, <2>2
<1>3. CASE ~(Len(queue) < QueueCap)
  <2>1. queue' = Append(Tail(queue), m) /\ queue # <<>>
    BY <1>1, <1>3 DEF Enqueue
  <2>2. Tail(queue) \in Seq(Mode) /\ Len(Tail(queue)) = Len(queue) - 1
    BY <1>1, <2>1
  <2>3. Len(queue') = Len(Tail(queue)) + 1
    BY <2>1, <2>2
  <2> QED BY <1>1, <2>1, <2>2, <2>3
<1> QED BY <1>2, <1>3

\* RetryOrGiveUp keeps the attempt within writeRetries.
LEMMA RetryType ==
    ASSUME TypeOK, RetryOrGiveUp
    PROVE  /\ wpc' \in {"idle", "read"}
           /\ target' \in Mode
           /\ code' = None
           /\ tries' \in 1..WriteRetries
<1>1. tries \in 1..WriteRetries /\ WriteRetries \in Nat \ {0} /\ target \in Mode
  BY ConstAssumption DEF TypeOK
<1>2. CASE tries < WriteRetries
  BY <1>1, <1>2 DEF RetryOrGiveUp
<1>3. CASE ~(tries < WriteRetries)
  BY <1>1, <1>3 DEF RetryOrGiveUp, Done, Mode
<1> QED BY <1>2, <1>3

\* A fault stays within its bound.
LEMMA FaultType ==
    ASSUME TypeOK, Fault
    PROVE  faults' \in 0..MaxFaults
BY ConstAssumption DEF TypeOK, Fault

\* What applyBatteryMode writes is an operation mode.
LEMMA WantType ==
    ASSUME TypeOK, wpc = "write"
    PROVE  Want \in OpMode
<1>1. code \in OpMode /\ ToRestore \in OpMode \cup {None}
  BY DEF TypeOK, ToRestore
<1>2. CASE target # "normal"
  <2>1. target \in DOMAIN Code
    BY <1>2 DEF TypeOK, Mode, Code
  <2> QED BY <1>2, <2>1 DEF Want, OpMode
<1>3. CASE target = "normal"
  BY <1>1, <1>3 DEF Want
<1> QED BY <1>2, <1>3

\* The initial states are well typed.
LEMMA InitType == Init => TypeOK
<1> SUFFICES ASSUME Init PROVE TypeOK
  OBVIOUS
<1>1. /\ op \in OpMode /\ own \in OpMode
      /\ saved \in OpMode \cup {None} /\ code \in OpMode \cup {None}
      /\ ~(wpc \in {"write", "commit"})
  BY DEF Init, OpMode
<1>2. /\ mode \in Mode \cup {"unset"} /\ target \in Mode
      /\ admitted \in Mode \cup {None}
      /\ cached \in Mode \cup {None} /\ shown \in Mode \cup {None}
  BY DEF Init, Mode
<1>3. queue \in Seq(Mode) /\ Len(queue) <= QueueCap
  BY ConstAssumption DEF Init
<1>4. tries \in 1..WriteRetries /\ faults \in 0..MaxFaults
  BY ConstAssumption DEF Init
<1>5. aged \in BOOLEAN /\ fallback \in BOOLEAN /\ stranded \in BOOLEAN
  BY DEF Init
<1>6. /\ replay \in BOOLEAN /\ (replay => cached # None)
      /\ refused \in BOOLEAN /\ gaveUp \in BOOLEAN
  BY DEF Init
<1>7. /\ wpc \in {"idle", "read", "write", "commit", "report"}
      /\ link \in {"up", "dead", "down"}
  BY DEF Init
<1> QED BY <1>1, <1>2, <1>3, <1>4, <1>5, <1>6, <1>7 DEF TypeOK

\* Every step keeps every variable in its type.
LEMMA TypeStep ==
    ASSUME TypeOK, [Next]_vars
    PROVE  TypeOK'
<1> USE DEF stateVars, workerVars, topicVars, opVars
<1>s. ASSUME UNCHANGED <<stateVars, workerVars, topicVars, opVars>>,
             aged' \in BOOLEAN, fallback' \in BOOLEAN,
             admitted' \in Mode \cup {None},
             queue' \in Seq(Mode) /\ Len(queue') <= QueueCap,
             faults' \in 0..MaxFaults
      PROVE  TypeOK'
  BY <1>s DEF TypeOK
<1>b. /\ aged \in BOOLEAN /\ fallback \in BOOLEAN /\ admitted \in Mode \cup {None}
      /\ queue \in Seq(Mode) /\ Len(queue) <= QueueCap /\ faults \in 0..MaxFaults
  BY DEF TypeOK
<1>1. ASSUME NEW m \in Mode, OnEVCCSet(m)
      PROVE  TypeOK'
  <2>1. aged' \in BOOLEAN /\ admitted' \in Mode \cup {None}
    BY <1>1 DEF OnEVCCSet
  <2>2. UNCHANGED <<stateVars, queue, fallback, workerVars, opVars, topicVars, faults>>
    BY <1>1 DEF OnEVCCSet
  <2> QED BY <1>b, <1>s, <2>1, <2>2
<1>2. CASE QueueAdmitted
  <2>1. admitted \in Mode
    BY <1>2 DEF TypeOK, QueueAdmitted
  <2>2. queue' \in Seq(Mode) /\ Len(queue') <= QueueCap
    BY <1>2, <2>1, EnqueueType DEF QueueAdmitted
  <2>3. admitted' = None
        /\ UNCHANGED <<stateVars, aged, fallback, workerVars, opVars, topicVars, faults>>
    BY <1>2 DEF QueueAdmitted
  <2> QED BY <1>b, <1>s, <2>2, <2>3
<1>3. CASE Age
  <2>1. aged' \in BOOLEAN
    BY <1>3 DEF Age
  <2>2. UNCHANGED <<stateVars, queue, admitted, fallback, workerVars, opVars,
                    topicVars, faults>>
    BY <1>3 DEF Age
  <2> QED BY <1>b, <1>s, <2>1, <2>2
<1>4. CASE WatchdogExpires
  <2>1. aged' \in BOOLEAN /\ fallback' \in BOOLEAN
    BY <1>4 DEF WatchdogExpires
  <2>2. UNCHANGED <<stateVars, queue, admitted, workerVars, opVars, topicVars, faults>>
    BY <1>4 DEF WatchdogExpires
  <2> QED BY <1>b, <1>s, <2>1, <2>2
<1>5. CASE WatchdogQueues
  <2>1. queue' \in Seq(Mode) /\ Len(queue') <= QueueCap
    BY <1>5, EnqueueType DEF WatchdogQueues, Mode
  <2>2. fallback' \in BOOLEAN
    BY <1>5 DEF WatchdogQueues
  <2>3. UNCHANGED <<stateVars, aged, admitted, workerVars, opVars, topicVars, faults>>
    BY <1>5 DEF WatchdogQueues
  <2> QED BY <1>b, <1>s, <2>1, <2>2, <2>3
<1>6. CASE WorkerTake
  <2>1. /\ Head(queue) \in Mode /\ Tail(queue) \in Seq(Mode)
        /\ Len(Tail(queue)) <= QueueCap
    BY <1>6, ConstAssumption DEF TypeOK, WorkerTake
  <2> QED BY <1>6, <2>1 DEF TypeOK, WorkerTake
<1>7. CASE ApplyRead
  <2>1. /\ wpc' \in {"idle", "write"} /\ target' \in Mode
        /\ code' \in OpMode \cup {None} /\ (wpc' = "write" => code' \in OpMode)
        /\ tries' \in 1..WriteRetries
    BY <1>7, ConstAssumption DEF TypeOK, ApplyRead, Done, Mode
  <2> QED BY <1>7, <2>1 DEF TypeOK, ApplyRead
<1>8. CASE ApplyReadFails
  <2>1. /\ wpc' \in {"idle", "read"} /\ target' \in Mode /\ code' = None
        /\ tries' \in 1..WriteRetries /\ faults' \in 0..MaxFaults
    BY <1>8, RetryType, FaultType DEF ApplyReadFails
  <2> QED BY <1>8, <2>1 DEF TypeOK, ApplyReadFails
<1>9. CASE ApplyWrite
  BY <1>9, WantType DEF TypeOK, ApplyWrite
<1>10. CASE ApplyWriteFails
  <2>1. /\ wpc' \in {"idle", "read"} /\ target' \in Mode /\ code' = None
        /\ tries' \in 1..WriteRetries /\ faults' \in 0..MaxFaults
    BY <1>10, RetryType, FaultType DEF ApplyWriteFails
  <2>2. op' \in {op, Want} /\ wpc = "write"
    BY <1>10 DEF ApplyWriteFails
  <2>3. op' \in OpMode
    BY <2>2, WantType DEF TypeOK
  <2>4. UNCHANGED <<stateVars, aged, queue, admitted, fallback, own, stranded,
                    topicVars>>
    BY <1>10 DEF ApplyWriteFails
  <2> QED BY <2>1, <2>3, <2>4 DEF TypeOK
<1>11. CASE ApplyCommit
  <2>1. mode' \in Mode /\ wpc' = "report" /\ target' \in Mode /\ code' = None
    BY <1>11 DEF TypeOK, ApplyCommit, Mode
  <2>2. tries' \in 1..WriteRetries
    BY <1>11, ConstAssumption DEF ApplyCommit
  <2>3. saved' \in OpMode \cup {None}
    BY <1>11 DEF TypeOK, ApplyCommit, ToRestore
  <2>4. UNCHANGED <<aged, queue, admitted, fallback, opVars, topicVars, faults>>
    BY <1>11 DEF ApplyCommit
  <2> QED BY <2>1, <2>2, <2>3, <2>4 DEF TypeOK
<1>12. CASE Report
  <2>1. Current \in Mode
    BY DEF TypeOK, Current, Mode
  <2>2. /\ cached' \in Mode \cup {None} /\ shown' \in Mode \cup {None}
        /\ (cached' = cached \/ cached' # None)
    BY <1>12, <2>1, ConstAssumption DEF TypeOK, Report
  <2>3. refused' \in BOOLEAN
    BY <1>12 DEF Report
  <2>4. gaveUp' \in BOOLEAN
    <3>1. gaveUp' = gaveUp \/ gaveUp' = FALSE
      BY <1>12 DEF Report
    <3> QED BY <3>1 DEF TypeOK
  <2>5. /\ wpc' = "idle" /\ target' \in Mode /\ code' = None
        /\ tries' \in 1..WriteRetries
    BY <1>12, ConstAssumption DEF Report, Done, Mode
  <2>6. UNCHANGED <<stateVars, aged, queue, admitted, fallback, link, replay, opVars,
                    faults>>
    BY <1>12 DEF Report
  <2> QED BY <2>2, <2>3, <2>4, <2>5, <2>6 DEF TypeOK
<1>13. CASE ReportRefused
  <2>1. faults' \in 0..MaxFaults
    BY <1>13, FaultType DEF ReportRefused, TypeOK
  <2>2. /\ wpc' = "idle" /\ target' \in Mode /\ code' = None
        /\ tries' \in 1..WriteRetries /\ refused' = TRUE
    BY <1>13, ConstAssumption DEF ReportRefused, Done, Mode
  <2>3. UNCHANGED <<stateVars, aged, queue, admitted, fallback, link, replay, gaveUp,
                    cached, shown, opVars>>
    BY <1>13 DEF ReportRefused
  <2> QED BY <2>1, <2>2, <2>3 DEF TypeOK
<1>14. CASE LinkFails
  BY <1>14, FaultType DEF TypeOK, LinkFails
<1>15. CASE LinkDrops
  BY <1>15 DEF TypeOK, LinkDrops
<1>16. CASE Reconnect
  <2>1. replay' \in BOOLEAN /\ gaveUp' \in BOOLEAN
    BY <1>16 DEF Reconnect
  <2>2. (replay' => cached' # None) /\ shown' \in Mode \cup {None} /\ link' = "up"
    BY <1>16 DEF TypeOK, Reconnect
  <2>3. UNCHANGED <<stateVars, aged, queue, admitted, fallback, workerVars, cached,
                    refused, opVars, faults>>
    BY <1>16 DEF Reconnect
  <2> QED BY <2>1, <2>2, <2>3 DEF TypeOK
<1>17. CASE Republish
  <2>1. gaveUp' \in BOOLEAN
    <3>1. gaveUp' = gaveUp \/ gaveUp' = (link = "up")
      BY <1>17 DEF Republish
    <3> QED BY <3>1 DEF TypeOK
  <2>2. shown' \in Mode \cup {None}
    BY <1>17 DEF TypeOK, Republish
  <2>3. replay' \in BOOLEAN /\ ~replay'
    BY <1>17 DEF Republish
  <2>4. UNCHANGED <<stateVars, aged, queue, admitted, fallback, workerVars, link,
                    cached, refused, opVars, faults>>
    BY <1>17 DEF Republish
  <2> QED BY <2>1, <2>2, <2>3, <2>4 DEF TypeOK
<1>18. ASSUME NEW m \in OwnModes, OperatorSets(m)
       PROVE  TypeOK'
  <2>1. op' \in OpMode /\ own' \in OpMode
    BY <1>18 DEF TypeOK, OperatorSets, OpMode
  <2>2. stranded' \in BOOLEAN
    <3>1. stranded' = FALSE \/ stranded' = stranded
      BY <1>18 DEF OperatorSets
    <3> QED BY <3>1 DEF TypeOK
  <2>3. UNCHANGED stateVars /\ UNCHANGED workerVars /\ UNCHANGED topicVars
        /\ UNCHANGED <<aged, queue, admitted, fallback, faults>>
    BY <1>18 DEF OperatorSets
  <2> QED BY <2>1, <2>2, <2>3 DEF TypeOK
<1>19. CASE Evict
  <2>1. Tail(queue) \in Seq(Mode) /\ Len(Tail(queue)) <= QueueCap
    BY <1>19, ConstAssumption DEF TypeOK, Evict
  <2> QED BY <1>19, <2>1, FaultType DEF TypeOK, Evict
<1>20. CASE Restart
  <2>1. /\ mode' \in Mode \cup {"unset"} /\ admitted' \in Mode \cup {None}
        /\ saved' \in OpMode \cup {None} /\ code' \in OpMode \cup {None}
        /\ target' \in Mode /\ cached' \in Mode \cup {None}
    BY <1>20 DEF Restart, Forgotten, Mode
  <2>2. aged' \in BOOLEAN /\ fallback' \in BOOLEAN /\ stranded' \in BOOLEAN
    BY <1>20 DEF Restart, Forgotten
  <2>3. /\ replay' \in BOOLEAN /\ (replay' => cached' # None)
        /\ refused' \in BOOLEAN /\ gaveUp' \in BOOLEAN
    BY <1>20 DEF Restart, Forgotten
  <2>4. queue' \in Seq(Mode) /\ Len(queue') <= QueueCap /\ tries' \in 1..WriteRetries
    BY <1>20, ConstAssumption DEF Restart, Forgotten
  <2>5. wpc' = "report" /\ link' = "up" /\ UNCHANGED <<op, own, shown>>
    BY <1>20 DEF Restart, Forgotten
  <2>6. faults' \in 0..MaxFaults
    BY <1>20, FaultType DEF Restart
  <2> QED BY <2>1, <2>2, <2>3, <2>4, <2>5, <2>6 DEF TypeOK
<1>21. CASE UNCHANGED vars
  BY <1>21 DEF TypeOK, vars
<1> QED
  BY <1>1, <1>2, <1>3, <1>4, <1>5, <1>6, <1>7, <1>8, <1>9, <1>10, <1>11, <1>12,
     <1>13, <1>14, <1>15, <1>16, <1>17, <1>18, <1>19, <1>20, <1>21 DEF Next, Apply

\* With no answer lost, every step keeps the operator's mode: on the inverter
\* while the battery is normal, remembered otherwise.
LEMMA OwnStep ==
    ASSUME ~AnswersLost, Inv, [Next]_vars
    PROVE  RestoresOwn' /\ Undisturbed'
<1> DEFINE Kept == RestoresOwn' /\ Undisturbed'
<1>t. TypeOK /\ RestoresOwn /\ Undisturbed
  BY DEF Inv
<1>s. ASSUME UNCHANGED <<mode, saved, wpc, target, code, op, own, stranded>>
      PROVE  Kept
  BY <1>t, <1>s DEF RestoresOwn, SavesOwn, Undisturbed, Current
<1>i. ASSUME UNCHANGED <<mode, saved, op, own, stranded>>,
             wpc # "commit", wpc' \in {"idle", "read"}
      PROVE  Kept
  BY <1>t, <1>i DEF RestoresOwn, SavesOwn, Undisturbed, Current
<1> USE DEF stateVars, workerVars, topicVars, opVars
<1>1. ASSUME NEW m \in Mode, OnEVCCSet(m)
      PROVE  Kept
  BY <1>1, <1>s DEF OnEVCCSet
<1>2. CASE QueueAdmitted \/ Age \/ WatchdogExpires \/ WatchdogQueues \/ Evict
  BY <1>2, <1>s DEF QueueAdmitted, Age, WatchdogExpires, WatchdogQueues, Evict
<1>3. CASE LinkFails \/ LinkDrops \/ Reconnect \/ Republish
  BY <1>3, <1>s DEF LinkFails, LinkDrops, Reconnect, Republish
<1>4. CASE WorkerTake \/ Report \/ ReportRefused
  BY <1>4, <1>i DEF WorkerTake, Report, ReportRefused, Done
<1>5. CASE ApplyRead
  BY <1>t, <1>5 DEF ApplyRead, Done, RestoresOwn, SavesOwn, Undisturbed, Current
<1>6. CASE ApplyReadFails
  <2>1. wpc' \in {"idle", "read"}
    BY <1>6, <1>t, RetryType DEF ApplyReadFails
  <2> QED BY <1>6, <2>1, <1>i DEF ApplyReadFails
<1>7. CASE ApplyWrite
  <2>0. /\ wpc = "write" /\ wpc' = "commit" /\ code = op /\ target # Current
        /\ op' = (IF Want # code THEN Want ELSE op)
        /\ UNCHANGED <<mode, saved, target, code, own, stranded>>
    BY <1>t, <1>7 DEF ApplyWrite, Undisturbed
  <2>1. op' = Want /\ Current' = Current
    BY <2>0 DEF Current
  <2>2. CASE Current = "normal"
    <3>1. code = own \/ stranded
      BY <1>t, <2>0, <2>2 DEF RestoresOwn
    <3>2. RestoresOwn'
      BY <2>0, <2>1, <2>2 DEF RestoresOwn, SavesOwn
    <3>3. Undisturbed'
      BY <2>0, <2>1, <2>2, <3>1 DEF Undisturbed
    <3> QED BY <3>2, <3>3
  <2>3. CASE Current # "normal"
    <3>1. saved = own \/ (stranded /\ saved # None)
      BY <1>t, <2>3 DEF RestoresOwn, SavesOwn
    <3>2. saved # None
      BY <1>t, <3>1, ConstAssumption DEF TypeOK
    <3>3. target = "normal" => Want = saved
      BY <2>3, <3>2 DEF Want, ToRestore
    <3>4. RestoresOwn'
      BY <2>0, <2>1, <2>3, <3>1 DEF RestoresOwn, SavesOwn
    <3>5. Undisturbed'
      BY <2>0, <2>1, <2>3, <3>1, <3>3 DEF Undisturbed
    <3> QED BY <3>4, <3>5
  <2> QED BY <2>2, <2>3
<1>8. CASE ApplyWriteFails
  <2>1. wpc' \in {"idle", "read"}
    BY <1>8, <1>t, RetryType DEF ApplyWriteFails
  <2>2. op' = op
    BY <1>8 DEF ApplyWriteFails
  <2> QED BY <1>8, <2>1, <2>2, <1>i DEF ApplyWriteFails
<1>9. CASE ApplyCommit
  <2>1. Current' = target
    BY <1>t, <1>9 DEF ApplyCommit, Current, TypeOK, Mode
  <2>2. ToRestore = own \/ (stranded /\ ToRestore # None)
    <3>1. CASE Current = "normal"
      <4>1. (code = own \/ stranded) /\ code # None
        BY <1>t, <1>9, <3>1, ConstAssumption DEF ApplyCommit, Undisturbed, TypeOK
      <4> QED BY <3>1, <4>1 DEF ToRestore
    <3>2. CASE Current # "normal"
      BY <1>t, <3>2 DEF ToRestore, RestoresOwn, SavesOwn
    <3> QED BY <3>1, <3>2
  <2>3. target = "normal" => op = own \/ stranded
    BY <1>t, <1>9 DEF ApplyCommit, Undisturbed
  <2>4. wpc' = "report" /\ UNCHANGED <<op, own, stranded>>
    BY <1>9 DEF ApplyCommit
  <2>5. target # "normal" => saved' = ToRestore
    BY <1>9 DEF ApplyCommit
  <2>6. RestoresOwn'
    BY <2>1, <2>2, <2>3, <2>4, <2>5 DEF RestoresOwn, SavesOwn
  <2>7. Undisturbed'
    BY <2>4 DEF Undisturbed
  <2> QED BY <2>6, <2>7
<1>10. ASSUME NEW m \in OwnModes, OperatorSets(m)
       PROVE  Kept
  BY <1>t, <1>10 DEF OperatorSets, RestoresOwn, SavesOwn, Undisturbed, Current
<1>11. CASE Restart
  <2>1. /\ mode' = "unset" /\ wpc' = "report" /\ stranded' = (op # own)
        /\ UNCHANGED <<op, own>>
    BY <1>11 DEF Restart, Forgotten
  <2>2. Current' = "normal" /\ (op' = own' \/ stranded')
    BY <2>1 DEF Current
  <2> QED BY <2>1, <2>2 DEF RestoresOwn, SavesOwn, Undisturbed
<1>12. CASE UNCHANGED vars
  BY <1>12, <1>s DEF vars
<1> QED
  BY <1>1, <1>2, <1>3, <1>4, <1>5, <1>6, <1>7, <1>8, <1>9, <1>10, <1>11,
     <1>12 DEF Next, Apply

\* Every step keeps the cache on the mode in force and the broker on the
\* cache, up to what is due or was refused.
LEMMA ReplayableStep ==
    ASSUME TypeOK, Replayable, [Next]_vars
    PROVE  Replayable'
<1> USE DEF stateVars, workerVars, topicVars, opVars
<1>s. ASSUME UNCHANGED <<mode, topicVars>>, wpc = "report" => wpc' = "report"
      PROVE  Replayable'
  BY <1>s DEF Replayable, Current
<1>1. CASE \E m \in Mode : OnEVCCSet(m)
  BY <1>1, <1>s DEF OnEVCCSet
<1>2. CASE \E m \in OwnModes : OperatorSets(m)
  BY <1>2, <1>s DEF OperatorSets
<1>3. CASE QueueAdmitted \/ Age \/ WatchdogExpires \/ WatchdogQueues \/ Evict
  BY <1>3, <1>s DEF QueueAdmitted, Age, WatchdogExpires, WatchdogQueues, Evict
<1>4. CASE \/ WorkerTake \/ ApplyRead \/ ApplyReadFails
           \/ ApplyWrite \/ ApplyWriteFails
  BY <1>4, <1>s DEF WorkerTake, ApplyRead, ApplyReadFails, ApplyWrite, ApplyWriteFails
<1>5. CASE ApplyCommit
  BY <1>5 DEF ApplyCommit, Replayable
<1>6. CASE Report
  <2>1. Current' = Current /\ cached' = Current
    BY <1>6 DEF Report, Current
  <2>2. CASE cached = Current
    BY <1>6, <2>1, <2>2 DEF Report, Replayable
  <2>3. CASE cached # Current
    BY <1>6, <2>1, <2>3 DEF Report, Replayable
  <2> QED BY <2>2, <2>3
<1>7. CASE ReportRefused
  BY <1>7 DEF ReportRefused, Replayable
<1>8. CASE LinkFails \/ LinkDrops
  BY <1>8 DEF LinkFails, LinkDrops, Replayable, Current
<1>9. CASE Reconnect
  BY <1>9 DEF Reconnect, Replayable, Current
<1>10. CASE Republish
  BY <1>10 DEF Republish, Replayable, Current
<1>11. CASE Restart
  BY <1>11 DEF Restart, Forgotten, Replayable
<1>12. CASE UNCHANGED vars
  BY <1>12, <1>s DEF vars
<1> QED
  BY <1>1, <1>2, <1>3, <1>4, <1>5, <1>6, <1>7, <1>8, <1>9, <1>10, <1>11,
     <1>12 DEF Next, Apply

\* Every reachable state is well typed, lost answers or not.
THEOREM TypeCorrect == Spec => []TypeOK
<1>1. Init => TypeOK
  BY InitType
<1>2. TypeOK /\ [Next]_vars => TypeOK'
  BY TypeStep
<1> QED BY <1>1, <1>2, PTL DEF Spec

\* With or without lost answers, dead links, brokers that forget and restarts,
\* the retained topic carries the battery mode in force (publishBatteryMode):
\* only the worker changes the mode and it publishes before it takes the next
\* command, and what a dead link swallowed the replay sends again.
THEOREM TopicFollows == Spec => []Reported
<1>1. Init => Replayable
  BY DEF Init, Replayable
<1>2. Replayable /\ TypeOK /\ [Next]_vars => Replayable'
  BY ReplayableStep
<1>3. Spec => []TypeOK
  BY TypeCorrect
<1>4. Replayable /\ TypeOK => Reported
  <2> SUFFICES ASSUME Replayable, TypeOK PROVE Reported
    OBVIOUS
  <2>1. Current # None
    BY ConstAssumption DEF TypeOK, Current, Mode
  <2> QED BY <2>1 DEF Replayable, Reported
<1> QED BY <1>1, <1>2, <1>3, <1>4, PTL DEF Spec

\* Over a transport that never loses the answer to an executed write, the
\* operator's operation mode survives every sequence of battery-mode
\* commands, retries, evictions and timeouts (applyBatteryMode); a restart in
\* hold or charge, which forgets it, is the only exception.
THEOREM OperatorModeSurvives ==
    ASSUME ~AnswersLost
    PROVE  Spec => []RestoresOwn
<1>1. Init => RestoresOwn /\ Undisturbed
  BY DEF Init, RestoresOwn, SavesOwn, Undisturbed, Current
<1>2. Init => TypeOK
  BY InitType
<1>3. Inv /\ [Next]_vars => Inv'
  BY TypeStep, OwnStep DEF Inv
<1>4. Inv => RestoresOwn
  BY DEF Inv
<1>5. Init => Inv
  BY <1>1, <1>2 DEF Inv
<1> QED BY <1>3, <1>4, <1>5, PTL DEF Spec
=============================================================================
