----------------------------- MODULE PollCycleProofs -----------------------------
(***************************************************************************)
(* The synthetic switch gives back the limit it took: Restores, for every  *)
(* range of limits and any number of commands, reconnects and failures.    *)
(***************************************************************************)
EXTENDS PollCycle, TLAPS

\* What a topic's value can be, by its key.
ValueOf(k) == (IF k = "limit" THEN Limit ELSE {"true", "false"}) \cup {None}

\* The three copies of the published values have exactly the two keys, and the
\* worker has a command whenever it is at work.
Shape ==
    /\ \A f \in {cache, retained, shown} :
        DOMAIN f = Key /\ \A k \in Key : f[k] \in ValueOf(k)
    /\ wpc = "idle" <=> cmd = "none"

\* Restores is not inductive: `on' writes what was chosen one step earlier, from
\* what a poll remembered of a register it read before that.  The inverter's
\* limit is zero or its newest setting; a cycle that could still overwrite the
\* memory read that setting too; so the memory is the setting, and a chosen
\* target is it.
Memory ==
    /\ limit \in {0, setting}
    /\ learned =>
        /\ setting > 0 /\ lastActive = setting
        /\ ppc = "apply" => got \in {0, setting}
        /\ cmd = "on" /\ wpc = "write" => target = setting

IInv == TypeOK /\ Shape /\ Memory

-----------------------------------------------------------------------------
(* Types *)

\* Every step keeps the variables in their types and the keys complete.
LEMMA TypeStep ==
    ASSUME TypeOK, Shape, [Next]_vars
    PROVE  TypeOK' /\ Shape'
<1> USE ConstAssumption DEF TypeOK, Shape, Key, Limit, Command, ValueOf
<1>1. CASE ReadGroup
  BY <1>1 DEF ReadGroup, Fail, vars, inverter, worker, poller, memory, plane, session
<1>2. CASE ApplyVirtualSwitches
  BY <1>2 DEF ApplyVirtualSwitches, vars, inverter, worker, poller, memory, plane, session
<1>3. CASE StoreUpdateGroup
  BY <1>3
     DEF StoreUpdateGroup, Processed, vars, inverter, worker, poller, memory, plane,
         session
<1>4. ASSUME NEW k \in Key, Publish(k)
      PROVE  TypeOK' /\ Shape'
  BY <1>4
     DEF Publish, PublishStatus, Processed, OnBroker, Fail, vars, inverter, worker,
         poller, memory, plane, session
<1>5. CASE HandleVirtualWrite
  BY <1>5
     DEF HandleVirtualWrite, ActiveTargetValue, vars, inverter, worker, poller, memory,
         plane, session
<1>6. CASE WriteRegister
  <2>1. learned' \in BOOLEAN
    <3>1. CASE WireWrite(target)
      BY <3>1, Zenon DEF WireWrite
    <3>2. CASE UNCHANGED <<inverter, learned>>
      BY <3>2
    <3> QED
      BY <1>6, <3>1, <3>2 DEF WriteRegister
  <2>2. limit' \in Limit /\ setting' \in Limit /\ target' \in Limit
    BY <1>6 DEF WriteRegister, WireWrite, Done, inverter
  <2>3. /\ wpc' \in {"idle", "dispatch"} /\ cmd' \in Command \cup {"none"}
        /\ wpc' = "idle" <=> cmd' = "none"
    BY <1>6 DEF WriteRegister, Done
  <2>4. /\ faults' \in 0..MaxFaults
        /\ UNCHANGED <<poller, lastActive, plane, session, shown, commands>>
    BY <1>6 DEF WriteRegister, Fail
  <2> QED
    BY <2>1, <2>2, <2>3, <2>4 DEF poller, plane, session
<1>7. ASSUME NEW v \in 1..MaxLimit, DispatchWrite("set", v)
      PROVE  TypeOK' /\ Shape'
  BY <1>7 DEF DispatchWrite, vars, inverter, worker, poller, memory, plane, session
<1>8. ASSUME NEW c \in {"on", "off"}, DispatchWrite(c, 0)
      PROVE  TypeOK' /\ Shape'
  BY <1>8 DEF DispatchWrite, vars, inverter, worker, poller, memory, plane, session
<1>9. ASSUME NEW k \in Key, Republish(k)
      PROVE  TypeOK' /\ Shape'
  <2>1. gaveUp' \in BOOLEAN
    BY <1>9, Zenon DEF Republish
  <2> QED
    BY <1>9, <2>1
       DEF Republish, OnBroker, Fail, vars, inverter, worker, poller, memory, plane,
           session
<1>10. CASE LinkDies
  BY <1>10 DEF LinkDies, vars, inverter, worker, poller, memory, plane, session
<1>11. CASE LinkDrops
  BY <1>11 DEF LinkDrops, vars, inverter, worker, poller, memory, plane, session
<1>12. CASE Reconnect
  BY <1>12
     DEF Reconnect, Nothing, Replayed, vars, inverter, worker, poller, memory, plane,
         session
<1>13. CASE Restart
  <2>1. learned' \in BOOLEAN /\ gaveUp' \in BOOLEAN
    BY <1>13, Zenon DEF Restart
  <2> QED
    BY <1>13, <2>1
       DEF Restart, Fail, Nothing, vars, inverter, worker, poller, memory, plane,
           session
<1>14. ASSUME NEW v \in Limit, OutsideChange(v)
       PROVE  TypeOK' /\ Shape'
  <2>1. learned' \in BOOLEAN
    BY <1>14, Zenon DEF OutsideChange, WireWrite
  <2>2. limit' \in Limit /\ setting' \in Limit /\ commands' \in 0..MaxCommands
    BY <1>14 DEF OutsideChange, WireWrite
  <2>3. UNCHANGED <<worker, poller, lastActive, plane, session, shown, faults>>
    BY <1>14 DEF OutsideChange
  <2> QED
    BY <2>1, <2>2, <2>3 DEF worker, poller, plane, session
<1>15. CASE UNCHANGED vars
  BY <1>15 DEF vars, inverter, worker, poller, memory, plane, session
<1> QED
  BY <1>1, <1>2, <1>3, <1>4, <1>5, <1>6, <1>7, <1>8, <1>9, <1>10, <1>11, <1>12, <1>13,
     <1>14, <1>15
  DEF Next, PollStep, WriteStep, ReplayStep

-----------------------------------------------------------------------------
(* Memory *)

\* Every step keeps Memory.
LEMMA MemoryStep ==
    ASSUME TypeOK, Shape, Memory, [Next]_vars
    PROVE  Memory'
<1> USE ConstAssumption DEF TypeOK, Shape, Memory, Limit, Command
<1>1. CASE ReadGroup
  BY <1>1 DEF ReadGroup, Fail, vars, inverter, worker, poller, memory, plane, session
<1>2. CASE ApplyVirtualSwitches
  BY <1>2 DEF ApplyVirtualSwitches, vars, inverter, worker, poller, memory, plane, session
<1>3. CASE StoreUpdateGroup
  BY <1>3
     DEF StoreUpdateGroup, Processed, vars, inverter, worker, poller, memory, plane,
         session
<1>4. ASSUME NEW k \in Key, Publish(k)
      PROVE  Memory'
  BY <1>4
     DEF Publish, PublishStatus, Processed, OnBroker, Fail, vars, inverter, worker,
         poller, memory, plane, session
<1>5. CASE HandleVirtualWrite
  BY <1>5
     DEF HandleVirtualWrite, ActiveTargetValue, vars, inverter, worker, poller, memory,
         plane, session
<1>6. CASE WriteRegister
  <2>1. /\ wpc = "write" /\ wpc' # "write"
        /\ UNCHANGED <<lastActive, ppc, got>>
        /\ WireWrite(target) \/ UNCHANGED <<limit, setting, learned>>
    BY <1>6 DEF WriteRegister, Done, inverter, poller
  <2>2. CASE WireWrite(target)
    <3>1. limit' \in {0, setting'}
      BY <2>2 DEF WireWrite
    <3>2. learned' => learned /\ setting' = setting
      BY <2>2, Zenon DEF WireWrite
    <3> QED
      BY <2>1, <3>1, <3>2
  <2> QED
    BY <2>1, <2>2
<1>7. ASSUME NEW v \in 1..MaxLimit, DispatchWrite("set", v)
      PROVE  Memory'
  BY <1>7 DEF DispatchWrite, vars, inverter, worker, poller, memory, plane, session
<1>8. ASSUME NEW c \in {"on", "off"}, DispatchWrite(c, 0)
      PROVE  Memory'
  BY <1>8 DEF DispatchWrite, vars, inverter, worker, poller, memory, plane, session
<1>9. ASSUME NEW k \in Key, Republish(k)
      PROVE  Memory'
  BY <1>9
     DEF Republish, OnBroker, Fail, vars, inverter, worker, poller, memory, plane,
         session
<1>10. CASE LinkDies
  BY <1>10 DEF LinkDies, vars, inverter, worker, poller, memory, plane, session
<1>11. CASE LinkDrops
  BY <1>11 DEF LinkDrops, vars, inverter, worker, poller, memory, plane, session
<1>12. CASE Reconnect
  BY <1>12
     DEF Reconnect, Nothing, Replayed, vars, inverter, worker, poller, memory, plane,
         session
<1>13. CASE Restart
  BY <1>13
     DEF Restart, Fail, Nothing, vars, inverter, worker, poller, memory, plane, session
<1>14. ASSUME NEW v \in Limit, OutsideChange(v)
       PROVE  Memory'
  <2>1. limit' \in {0, setting'}
    BY <1>14 DEF OutsideChange, WireWrite
  <2>2. learned' => learned /\ setting' = setting
    BY <1>14, Zenon DEF OutsideChange, WireWrite
  <2>3. UNCHANGED <<wpc, cmd, target, lastActive, ppc, got>>
    BY <1>14 DEF OutsideChange, worker, poller
  <2> QED
    BY <2>1, <2>2, <2>3
<1>15. CASE UNCHANGED vars
  BY <1>15 DEF vars, inverter, worker, poller, memory, plane, session
<1> QED
  BY <1>1, <1>2, <1>3, <1>4, <1>5, <1>6, <1>7, <1>8, <1>9, <1>10, <1>11, <1>12, <1>13,
     <1>14, <1>15
  DEF Next, PollStep, WriteStep, ReplayStep

\* The strengthened invariant holds initially and is kept.
LEMMA Inductive == Spec => []IInv
<1>1. Init => IInv
  <2> SUFFICES ASSUME Init
               PROVE  TypeOK /\ Shape /\ Memory
    BY DEF IInv
  <2>1. learned \in BOOLEAN /\ gaveUp \in BOOLEAN
    BY Zenon DEF Init
  <2>2. TypeOK
    BY <2>1, ConstAssumption DEF Init, TypeOK, Limit, Key, Nothing
  <2>3. Shape
    BY DEF Init, Shape, Nothing, ValueOf
  <2> QED
    BY <2>2, <2>3 DEF Init, Memory
<1>2. IInv /\ [Next]_vars => IInv'
  BY TypeStep, MemoryStep DEF IInv
<1> QED
  BY <1>1, <1>2, PTL DEF Spec

\* Limits stay in range and topics carry values of their own kind.
THEOREM TypeCorrect == Spec => []TypeOK
<1>1. IInv => TypeOK
  BY DEF IInv
<1> QED
  BY <1>1, Inductive, PTL

\* Whatever the switch was switched, how often, which writes failed or lost
\* their answer, and what was set elsewhere between, the write of an `on' never
\* changes the newest limit to another one, once a poll has seen that.
THEOREM RestoresHolds == Spec => Restores
<1>1. IInv => (learned /\ cmd = "on" /\ WriteRegister => setting' = setting)
  BY ConstAssumption DEF IInv, WriteRegister, WireWrite, Memory, TypeOK, Limit, inverter
<1>2. IInv /\ [Next]_vars
        => [learned /\ cmd = "on" /\ WriteRegister => setting' = setting]_vars
  BY <1>1
<1> QED
  BY <1>2, Inductive, PTL DEF Spec, Restores
=============================================================================
