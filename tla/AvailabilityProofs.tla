---------------------------- MODULE AvailabilityProofs ----------------------------
(***************************************************************************)
(* A daemon that stopped cleanly is shown as gone, and a reachable inverter*)
(* does not flicker, for any set of observers and any number of changes of *)
(* the Modbus link, reconnects and refused publishes.                      *)
(***************************************************************************)
EXTENDS Availability, TLAPS

\* OfflineUnlessReconnecting is not inductive: the will has published 0 for a
\* link that is down and nothing gets past it; and after PublishOffline nobody
\* is left who could publish - the pollers have returned, and a hook that is
\* still running, or starts again, is remembered in `late'.
Gone ==
    /\ link = "down" => connected = "0"
    /\ daemon = "stopped" <=> link = "closed"
    /\ daemon \in {"offline", "stopped"} =>
        /\ \A p \in Observer : opc[p] = "idle"
        /\ ~late => hook = "idle"
        /\ ~late /\ faults = 0 /\ link \in {"up", "closed"} => connected \in {"0", "none"}

IInv == TypeOK /\ Gone

-----------------------------------------------------------------------------
(* Types *)

\* Every step keeps the variables in their types.
LEMMA TypeStep ==
    ASSUME TypeOK, [Next]_vars
    PROVE  TypeOK'
<1> USE ConstAssumption DEF TypeOK
<1>1. ASSUME NEW p \in Observer, Observe(p)
      PROVE  TypeOK'
  BY <1>1 DEF Observe, vars, upstream, observers, hookVars, retained, session
<1>2. ASSUME NEW p \in Observer, ObserveStore(p)
      PROVE  TypeOK'
  BY <1>2 DEF ObserveStore, vars, upstream, observers, hookVars, retained, session
<1>3. ASSUME NEW p \in Observer, ObserveSet(p)
      PROVE  TypeOK'
  BY <1>3
     DEF ObserveSet, SetConnected, Level, OnBroker, Accepted, Refused, vars, upstream,
         observers, hookVars, retained, session
<1>4. ASSUME NEW p \in Observer, ObserveOnline(p)
      PROVE  TypeOK'
  BY <1>4
     DEF ObserveOnline, PublishDeviceOnline, Item, OnBroker, Accepted, Refused, vars,
         upstream, observers, hookVars, retained, session
<1>5. CASE HookSwap
  BY <1>5 DEF HookSwap, vars, upstream, observers, hookVars, retained, session
<1>6. CASE HookLoad
  BY <1>6 DEF HookLoad, vars, upstream, observers, hookVars, retained, session
<1>7. CASE HookStore
  BY <1>7 DEF HookStore, vars, upstream, observers, hookVars, retained, session
<1>8. CASE HookChoose
  BY <1>8 DEF HookChoose, Level, vars, upstream, observers, hookVars, retained, session
<1>9. CASE HookAnnounce
  BY <1>9
     DEF HookAnnounce, SetConnected, AnnounceOnline, OnBroker, Accepted, Refused, vars,
         upstream, observers, hookVars, retained, session
<1>10. CASE HookOnline
  BY <1>10
     DEF HookOnline, PublishDeviceOnline, Item, OnBroker, Accepted, Refused, vars,
         upstream, observers, hookVars, retained, session
<1>11. CASE HookRepublish
  BY <1>11
     DEF HookRepublish, OnBroker, Accepted, Refused, vars, upstream, observers,
         hookVars, retained, session
<1>12. CASE Cancel
  BY <1>12 DEF Cancel, vars, upstream, observers, hookVars, retained, session
<1>13. CASE PublishOffline
  BY <1>13
     DEF PublishOffline, AnnounceOffline, OnBroker, Accepted, Refused, vars, upstream,
         observers, hookVars, retained, session
<1>14. CASE Stop
  BY <1>14 DEF Stop, vars, upstream, observers, hookVars, retained, session
<1>15. CASE ModbusFlips
  BY <1>15 DEF ModbusFlips, vars, upstream, observers, hookVars, retained, session
<1>16. CASE SerialLearned
  BY <1>16 DEF SerialLearned, vars, upstream, observers, hookVars, retained, session
<1>17. CASE LinkDies
  BY <1>17 DEF LinkDies, vars, upstream, observers, hookVars, retained, session
<1>18. CASE LinkDrops
  BY <1>18 DEF LinkDrops, vars, upstream, observers, hookVars, retained, session
<1>19. CASE Reconnect
  BY <1>19 DEF Reconnect, vars, upstream, observers, hookVars, retained, session
<1>20. CASE UNCHANGED vars
  BY <1>20 DEF vars, upstream, observers, hookVars, retained, session
<1> QED
  BY <1>1, <1>2, <1>3, <1>4, <1>5, <1>6, <1>7, <1>8, <1>9, <1>10, <1>11, <1>12, <1>13,
     <1>14, <1>15, <1>16, <1>17, <1>18, <1>19, <1>20
  DEF Next, ObserverStep, HookStep

-----------------------------------------------------------------------------
(* Offline *)

\* Every step keeps Gone.
LEMMA GoneStep ==
    ASSUME TypeOK, Gone, [Next]_vars
    PROVE  Gone'
<1> USE ConstAssumption DEF TypeOK, Gone
<1>1. ASSUME NEW p \in Observer, Observe(p)
      PROVE  Gone'
  BY <1>1 DEF Observe, vars, upstream, observers, hookVars, retained, session
<1>2. ASSUME NEW p \in Observer, ObserveStore(p)
      PROVE  Gone'
  BY <1>2 DEF ObserveStore, vars, upstream, observers, hookVars, retained, session
<1>3. ASSUME NEW p \in Observer, ObserveSet(p)
      PROVE  Gone'
  BY <1>3
     DEF ObserveSet, SetConnected, Level, OnBroker, Accepted, Refused, vars, upstream,
         observers, hookVars, retained, session
<1>4. ASSUME NEW p \in Observer, ObserveOnline(p)
      PROVE  Gone'
  BY <1>4
     DEF ObserveOnline, PublishDeviceOnline, Item, OnBroker, Accepted, Refused, vars,
         upstream, observers, hookVars, retained, session
<1>5. CASE HookSwap
  BY <1>5 DEF HookSwap, vars, upstream, observers, hookVars, retained, session
<1>6. CASE HookLoad
  BY <1>6 DEF HookLoad, vars, upstream, observers, hookVars, retained, session
<1>7. CASE HookStore
  BY <1>7 DEF HookStore, vars, upstream, observers, hookVars, retained, session
<1>8. CASE HookChoose
  BY <1>8 DEF HookChoose, Level, vars, upstream, observers, hookVars, retained, session
<1>9. CASE HookAnnounce
  BY <1>9
     DEF HookAnnounce, SetConnected, AnnounceOnline, OnBroker, Accepted, Refused, vars,
         upstream, observers, hookVars, retained, session
<1>10. CASE HookOnline
  BY <1>10
     DEF HookOnline, PublishDeviceOnline, Item, OnBroker, Accepted, Refused, vars,
         upstream, observers, hookVars, retained, session
<1>11. CASE HookRepublish
  BY <1>11
     DEF HookRepublish, OnBroker, Accepted, Refused, vars, upstream, observers,
         hookVars, retained, session
<1>12. CASE Cancel
  BY <1>12 DEF Cancel, vars, upstream, observers, hookVars, retained, session
<1>13. CASE PublishOffline
  <2>1. /\ daemon = "stopping" /\ daemon' = "offline" /\ UNCHANGED <<link, hook, opc>>
        /\ \A p \in Observer : opc[p] = "idle"
    BY <1>13 DEF PublishOffline, vars, upstream, observers, hookVars, session
  <2>2. late' = (hook # "idle")
    BY <1>13 DEF PublishOffline
  <2>3. /\ link = "down" => connected' = "0"
        /\ faults' = 0 /\ link = "up" => connected' = "0"
    BY <1>13 DEF PublishOffline, AnnounceOffline, OnBroker, Accepted, Refused, retained
  <2> QED
    BY <2>1, <2>2, <2>3
<1>14. CASE Stop
  BY <1>14 DEF Stop, vars, upstream, observers, hookVars, retained, session
<1>15. CASE ModbusFlips
  BY <1>15 DEF ModbusFlips, vars, upstream, observers, hookVars, retained, session
<1>16. CASE SerialLearned
  BY <1>16 DEF SerialLearned, vars, upstream, observers, hookVars, retained, session
<1>17. CASE LinkDies
  BY <1>17 DEF LinkDies, vars, upstream, observers, hookVars, retained, session
<1>18. CASE LinkDrops
  BY <1>18 DEF LinkDrops, vars, upstream, observers, hookVars, retained, session
<1>19. CASE Reconnect
  BY <1>19 DEF Reconnect, vars, upstream, observers, hookVars, retained, session
<1>20. CASE UNCHANGED vars
  BY <1>20 DEF vars, upstream, observers, hookVars, retained, session
<1> QED
  BY <1>1, <1>2, <1>3, <1>4, <1>5, <1>6, <1>7, <1>8, <1>9, <1>10, <1>11, <1>12, <1>13,
     <1>14, <1>15, <1>16, <1>17, <1>18, <1>19, <1>20
  DEF Next, ObserverStep, HookStep

\* The strengthened invariant holds initially and is kept.
LEMMA Inductive == Spec => []IInv
<1>1. Init => IInv
  <2> SUFFICES ASSUME Init
               PROVE  TypeOK /\ Gone
    BY DEF IInv
  <2>1. {modbus, upstreamUp, serial, hookSaw, late} \subseteq BOOLEAN
    BY Zenon DEF Init
  <2>2. saw \in [Observer -> BOOLEAN]
    BY Zenon DEF Init
  <2>3. TypeOK
    BY <2>1, <2>2, ConstAssumption DEF Init, TypeOK
  <2> QED
    BY <2>3 DEF Init, Gone
<1>2. IInv /\ [Next]_vars => IInv'
  BY TypeStep, GoneStep DEF IInv
<1> QED
  BY <1>1, <1>2, PTL DEF Spec

\* Levels, items and control states stay what the code knows.
THEOREM TypeCorrect == Spec => []TypeOK
<1>1. IInv => TypeOK
  BY DEF IInv
<1> QED
  BY <1>1, Inductive, PTL

\* A daemon that stopped cleanly is shown as gone, unless a reconnect was
\* announcing it at that moment or the last publish was refused.
THEOREM OfflineHolds == Spec => []OfflineUnlessReconnecting
<1>1. IInv => OfflineUnlessReconnecting
  BY DEF IInv, Gone, OfflineUnlessReconnecting
<1> QED
  BY <1>1, Inductive, PTL

-----------------------------------------------------------------------------
(* No flicker *)

\* While all who hold an observation saw the inverter up, the only level they
\* can publish is 2; every other publication of the topic is the will's 0.
LEMMA OnlyTwo ==
    ASSUME [Next]_vars, AllSawUp, connected # "1"
    PROVE  connected' # "1"
<1> USE DEF AllSawUp
<1>1. ASSUME NEW p \in Observer, Observe(p)
      PROVE  connected' # "1"
  BY <1>1 DEF Observe, vars, upstream, observers, hookVars, retained, session
<1>2. ASSUME NEW p \in Observer, ObserveStore(p)
      PROVE  connected' # "1"
  BY <1>2 DEF ObserveStore, vars, upstream, observers, hookVars, retained, session
<1>3. ASSUME NEW p \in Observer, ObserveSet(p)
      PROVE  connected' # "1"
  BY <1>3
     DEF ObserveSet, SetConnected, Level, OnBroker, Accepted, Refused, vars, upstream,
         observers, hookVars, retained, session
<1>4. ASSUME NEW p \in Observer, ObserveOnline(p)
      PROVE  connected' # "1"
  BY <1>4
     DEF ObserveOnline, PublishDeviceOnline, Item, OnBroker, Accepted, Refused, vars,
         upstream, observers, hookVars, retained, session
<1>5. CASE HookSwap
  BY <1>5 DEF HookSwap, vars, upstream, observers, hookVars, retained, session
<1>6. CASE HookLoad
  BY <1>6 DEF HookLoad, vars, upstream, observers, hookVars, retained, session
<1>7. CASE HookStore
  BY <1>7 DEF HookStore, vars, upstream, observers, hookVars, retained, session
<1>8. CASE HookChoose
  BY <1>8 DEF HookChoose, Level, vars, upstream, observers, hookVars, retained, session
<1>9. CASE HookAnnounce
  BY <1>9
     DEF HookAnnounce, SetConnected, AnnounceOnline, OnBroker, Accepted, Refused, vars,
         upstream, observers, hookVars, retained, session
<1>10. CASE HookOnline
  BY <1>10
     DEF HookOnline, PublishDeviceOnline, Item, OnBroker, Accepted, Refused, vars,
         upstream, observers, hookVars, retained, session
<1>11. CASE HookRepublish
  BY <1>11
     DEF HookRepublish, OnBroker, Accepted, Refused, vars, upstream, observers,
         hookVars, retained, session
<1>12. CASE Cancel
  BY <1>12 DEF Cancel, vars, upstream, observers, hookVars, retained, session
<1>13. CASE PublishOffline
  BY <1>13
     DEF PublishOffline, AnnounceOffline, OnBroker, Accepted, Refused, vars, upstream,
         observers, hookVars, retained, session
<1>14. CASE Stop
  BY <1>14 DEF Stop, vars, upstream, observers, hookVars, retained, session
<1>15. CASE ModbusFlips
  BY <1>15 DEF ModbusFlips, vars, upstream, observers, hookVars, retained, session
<1>16. CASE SerialLearned
  BY <1>16 DEF SerialLearned, vars, upstream, observers, hookVars, retained, session
<1>17. CASE LinkDies
  BY <1>17 DEF LinkDies, vars, upstream, observers, hookVars, retained, session
<1>18. CASE LinkDrops
  BY <1>18 DEF LinkDrops, vars, upstream, observers, hookVars, retained, session
<1>19. CASE Reconnect
  BY <1>19 DEF Reconnect, vars, upstream, observers, hookVars, retained, session
<1>20. CASE UNCHANGED vars
  BY <1>20 DEF vars, upstream, observers, hookVars, retained, session
<1> QED
  BY <1>1, <1>2, <1>3, <1>4, <1>5, <1>6, <1>7, <1>8, <1>9, <1>10, <1>11, <1>12, <1>13,
     <1>14, <1>15, <1>16, <1>17, <1>18, <1>19, <1>20
  DEF Next, ObserverStep, HookStep

\* While the inverter is reachable and known to be, nothing, reconnects
\* included, publishes a 1 that a 2 then overwrites.
THEOREM NoFlickerHolds == Spec => NoFlicker
<1>1. [Next]_vars => (AllSawUp /\ connected # "1" => connected' # "1")
  BY OnlyTwo
<1> QED
  BY <1>1, PTL DEF Spec, NoFlicker
=============================================================================
