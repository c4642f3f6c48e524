--------------------------- MODULE AnnouncementProofs ---------------------------
(***************************************************************************)
(* Proofs about the two announcements of the daemon, which tell an audience*)
(* to look again: the store's wakeups to the web clients (module Store, for*)
(* any sets of writers, clients and keys) and the device document to Home  *)
(* Assistant (module Discovery, for any number of reconnects, births and   *)
(* refused publishes).  The two share no variable.  In both the change and *)
(* its announcement are separate steps of several goroutines.              *)
(*                                                                         *)
(* NoLostWakeup and OpenChannels are not inductive alone: that a poked     *)
(* channel is open, and that finishing a notify leaves nobody unpoked,     *)
(* follows from what a channel's life and a notify's progress allow        *)
(* (Discipline).                                                           *)
(***************************************************************************)
EXTENDS Store, Discovery, TLAPS

\* A client is registered exactly between Subscribe and cancel; only a notify
\* in progress has anyone left to poke, and then only registered clients.
Discipline ==
    /\ \A c \in Client :
        /\ c \in subs <=> cpc[c] \notin {"new", "gone"}
        /\ c \in closed => cpc[c] = "gone"
    /\ \A w \in Writer :
        /\ todo[w] \subseteq subs
        /\ wpc[w] # "notifying" => todo[w] = {}

\* The parts of TypeOK the steps below argue from.
LEMMA Types ==
    ASSUME TypeOK
    PROVE  /\ version \in Nat
           /\ wpc \in [Writer -> {"idle", "changed", "notifying"}]
           /\ todo \in [Writer -> SUBSET Client]
           /\ cpc \in [Client -> {"new", "subscribed", "sending", "waiting", "woken", "gone"}]
           /\ seen \in [Client -> 0..MaxVersion]
           /\ subs \subseteq Client /\ closed \subseteq Client /\ pending \subseteq Client
BY ConstAssumption DEF TypeOK

\* Every step keeps every variable in its type.
LEMMA TypeStep ==
    ASSUME TypeOK, [Next]_vars
    PROVE  TypeOK'
<1>1. ASSUME NEW w \in Writer, Change(w)
      PROVE  TypeOK'
  <2>1. version + 1 \in 0..MaxVersion
    BY <1>1, ConstAssumption DEF TypeOK, Change
  <2>2. values' \in [Key -> 0..MaxVersion]
    BY <1>1, <2>1 DEF TypeOK, Change, Merge
  <2>3. wpc' \in [Writer -> {"idle", "changed", "notifying"}]
    BY <1>1 DEF TypeOK, Change
  <2> QED BY <1>1, <2>1, <2>2, <2>3 DEF TypeOK, Change
<1>2. ASSUME NEW w \in Writer, Notify(w)
      PROVE  TypeOK'
  BY <1>2 DEF TypeOK, Notify
<1>3. ASSUME NEW w \in Writer, NotifyDone(w)
      PROVE  TypeOK'
  BY <1>3 DEF TypeOK, NotifyDone
<1>4. ASSUME NEW w \in Writer, NEW c \in Client, Poke(w, c)
      PROVE  TypeOK'
  BY <1>4 DEF TypeOK, Poke
<1>5. ASSUME NEW c \in Client, Subscribe(c)
      PROVE  TypeOK'
  BY <1>5 DEF TypeOK, Subscribe
<1>6. ASSUME NEW c \in Client, Receive(c)
      PROVE  TypeOK'
  BY <1>6 DEF TypeOK, Receive
<1>7. ASSUME NEW c \in Client, Snapshot(c)
      PROVE  TypeOK'
  BY <1>7 DEF TypeOK, Snapshot
<1>8. ASSUME NEW c \in Client, Sent(c)
      PROVE  TypeOK'
  BY <1>8 DEF TypeOK, Sent
<1>9. ASSUME NEW c \in Client, Cancel(c)
      PROVE  TypeOK'
  BY <1>9 DEF TypeOK, Cancel
<1>10. CASE UNCHANGED vars
  BY <1>10 DEF TypeOK, vars
<1> QED
  BY <1>1, <1>2, <1>3, <1>4, <1>5, <1>6, <1>7, <1>8, <1>9, <1>10
     DEF Next, WriterStep, ClientStep

\* Every step keeps the discipline.
LEMMA DisciplineStep ==
    ASSUME TypeOK, Discipline, [Next]_vars
    PROVE  Discipline'
<1>t. /\ wpc \in [Writer -> {"idle", "changed", "notifying"}]
      /\ todo \in [Writer -> SUBSET Client]
      /\ cpc \in [Client -> {"new", "subscribed", "sending", "waiting", "woken", "gone"}]
      /\ subs \subseteq Client /\ closed \subseteq Client
  BY Types
<1>1. ASSUME NEW w \in Writer, Change(w)
      PROVE  Discipline'
  BY <1>t, <1>1 DEF Discipline, Change
<1>2. ASSUME NEW w \in Writer, Notify(w)
      PROVE  Discipline'
  BY <1>t, <1>2 DEF Discipline, Notify
<1>3. ASSUME NEW w \in Writer, NotifyDone(w)
      PROVE  Discipline'
  BY <1>t, <1>3 DEF Discipline, NotifyDone
<1>4. ASSUME NEW w \in Writer, NEW c \in Client, Poke(w, c)
      PROVE  Discipline'
  BY <1>t, <1>4 DEF Discipline, Poke
<1>5. ASSUME NEW c \in Client, Subscribe(c)
      PROVE  Discipline'
  BY <1>t, <1>5 DEF Discipline, Subscribe
<1>6. ASSUME NEW c \in Client, Receive(c)
      PROVE  Discipline'
  BY <1>t, <1>6 DEF Discipline, Receive
<1>7. ASSUME NEW c \in Client, Snapshot(c)
      PROVE  Discipline'
  BY <1>t, <1>7 DEF Discipline, Snapshot
<1>8. ASSUME NEW c \in Client, Sent(c)
      PROVE  Discipline'
  BY <1>t, <1>8 DEF Discipline, Sent
<1>9. ASSUME NEW c \in Client, Cancel(c)
      PROVE  Discipline'
  <2>1. \A w \in Writer : todo[w] = {}
    BY <1>9 DEF Discipline, Cancel, Unlocked
  <2> QED BY <1>t, <1>9, <2>1 DEF Discipline, Cancel
<1>10. CASE UNCHANGED vars
  BY <1>10 DEF Discipline, vars
<1> QED
  BY <1>1, <1>2, <1>3, <1>4, <1>5, <1>6, <1>7, <1>8, <1>9, <1>10
     DEF Next, WriterStep, ClientStep

\* No step loses a wakeup: one that makes a snapshot out of date leaves its
\* writer about to poke, and one that ends a notify leaves nobody unpoked.
LEMMA WakeupStep ==
    ASSUME TypeOK, Discipline, NoLostWakeup, [Next]_vars
    PROVE  NoLostWakeup'
<1>t. /\ version \in Nat
      /\ wpc \in [Writer -> {"idle", "changed", "notifying"}]
      /\ todo \in [Writer -> SUBSET Client]
      /\ cpc \in [Client -> {"new", "subscribed", "sending", "waiting", "woken", "gone"}]
      /\ seen \in [Client -> 0..MaxVersion]
      /\ subs \subseteq Client
  BY Types
<1>1. ASSUME NEW w \in Writer, Change(w)
      PROVE  NoLostWakeup'
  <2>1. wpc'[w] = "changed"
    BY <1>t, <1>1 DEF Change
  <2> QED BY <2>1 DEF NoLostWakeup
<1>2. ASSUME NEW w \in Writer, Notify(w)
      PROVE  NoLostWakeup'
  <2>1. todo'[w] = subs' /\ subs' = subs
    BY <1>t, <1>2 DEF Notify
  <2> QED BY <2>1 DEF NoLostWakeup
<1>3. ASSUME NEW w \in Writer, NotifyDone(w)
      PROVE  NoLostWakeup'
  <2>1. \A v \in Writer : v # w => wpc'[v] = wpc[v]
    BY <1>t, <1>3 DEF NotifyDone
  <2> QED BY <1>3, <2>1 DEF NoLostWakeup, NotifyDone
<1>4. ASSUME NEW w \in Writer, NEW c \in Client, Poke(w, c)
      PROVE  NoLostWakeup'
  <2>1. \A v \in Writer : todo[v] \ {c} \subseteq todo'[v]
    BY <1>t, <1>4 DEF Poke
  <2> QED BY <1>4, <2>1 DEF NoLostWakeup, Poke
<1>5. ASSUME NEW c \in Client, Subscribe(c)
      PROVE  NoLostWakeup'
  <2>1. cpc'[c] = "subscribed" /\ \A d \in Client : d # c => cpc'[d] = cpc[d]
    BY <1>t, <1>5 DEF Subscribe
  <2> QED BY <1>5, <2>1 DEF NoLostWakeup, Subscribe
<1>6. ASSUME NEW c \in Client, Receive(c)
      PROVE  NoLostWakeup'
  <2>1. cpc'[c] = "woken" /\ \A d \in Client : d # c => cpc'[d] = cpc[d]
    BY <1>t, <1>6 DEF Receive
  <2> QED BY <1>t, <1>6, <2>1 DEF NoLostWakeup, Receive
<1>7. ASSUME NEW c \in Client, Snapshot(c)
      PROVE  NoLostWakeup'
  <2>1. /\ seen'[c] = version
        /\ \A d \in Client : d # c => seen'[d] = seen[d] /\ cpc'[d] = cpc[d]
    BY <1>t, <1>7 DEF Snapshot
  <2> QED BY <1>t, <1>7, <2>1 DEF NoLostWakeup, Snapshot
<1>8. ASSUME NEW c \in Client, Sent(c)
      PROVE  NoLostWakeup'
  <2>1. \A d \in Client : d # c => cpc'[d] = cpc[d]
    BY <1>t, <1>8 DEF Sent
  <2> QED BY <1>t, <1>8, <2>1 DEF NoLostWakeup, Sent
<1>9. ASSUME NEW c \in Client, Cancel(c)
      PROVE  NoLostWakeup'
  <2>1. \A d \in Client : d # c => cpc'[d] = cpc[d]
    BY <1>t, <1>9 DEF Cancel
  <2> QED BY <1>t, <1>9, <2>1 DEF NoLostWakeup, Cancel
<1>10. CASE UNCHANGED vars
  BY <1>10 DEF NoLostWakeup, vars
<1> QED
  BY <1>1, <1>2, <1>3, <1>4, <1>5, <1>6, <1>7, <1>8, <1>9, <1>10
     DEF Next, WriterStep, ClientStep

\* NothingVanishes speaks of two states; what it needs of the first is that no
\* value is newer than the store.
Dated == \A k \in Key : values[k] <= version

\* Only a change moves the values, and it dates what it read.
LEMMA DatedStep ==
    ASSUME TypeOK, Dated, [Next]_vars
    PROVE  /\ Dated'
           /\ \A k \in Key : values'[k] >= values[k]
<1>1. version \in Nat /\ \A k \in Key : values[k] \in Nat
  BY ConstAssumption DEF TypeOK
<1>2. CASE \E w \in Writer : Change(w)
  <2>1. PICK read \in SUBSET Key : Merge(read)
    BY <1>2 DEF Change
  <2>2. version' = version + 1
    BY <1>2 DEF Change
  <2>3. \A k \in Key : values'[k] = IF k \in read THEN version + 1 ELSE values[k]
    BY <2>1 DEF Merge
  <2> QED
    BY <1>1, <2>2, <2>3 DEF Dated
<1>3. CASE UNCHANGED <<version, values>>
  BY <1>1, <1>3 DEF Dated
<1>4. (\E w \in Writer : Change(w)) \/ UNCHANGED <<version, values>>
  BY DEF Next, WriterStep, ClientStep, Notify, NotifyDone, Poke, Subscribe, Receive,
         Snapshot, Sent, Cancel, vars
<1> QED
  BY <1>2, <1>3, <1>4

Inv == TypeOK /\ Discipline /\ NoLostWakeup /\ Dated

\* The invariant the two properties below rest on.
THEOREM StoreInvariant == Spec => []Inv
<1>1. Init => Inv
  BY ConstAssumption DEF Init, Inv, TypeOK, Discipline, NoLostWakeup, Dated
<1>2. Inv /\ [Next]_vars => Inv'
  BY TypeStep, DisciplineStep, WakeupStep, DatedStep DEF Inv
<1> QED BY <1>1, <1>2, PTL DEF Spec

\* Readers, writers and subscriptions keep to the values they may have.
THEOREM TypeCorrect == Spec => []TypeOK
<1>1. Inv => TypeOK
  BY DEF Inv
<1> QED BY <1>1, StoreInvariant, PTL

\* A subscriber that has not seen the newest state always has a wakeup under
\* way (notify against Receive, Snapshot and cancel).
THEOREM NoWakeupIsLost == Spec => []NoLostWakeup
<1>1. Inv => NoLostWakeup
  BY DEF Inv
<1> QED BY <1>1, StoreInvariant, PTL

\* notify never sends on a channel that cancel has closed.
THEOREM ChannelsStayOpen == Spec => []OpenChannels
<1>1. Inv => OpenChannels
  BY DEF Inv, TypeOK, Discipline, OpenChannels
<1> QED BY <1>1, StoreInvariant, PTL

\* A partial read never takes a register away that was shown before, nor back to
\* what it held earlier.
THEOREM NothingVanishesHolds == Spec => NothingVanishes
<1>1. Inv /\ [Next]_vars => [\A k \in Key : values[k] # 0 => values'[k] >= values[k]]_vars
  BY DatedStep DEF Inv
<1> QED BY <1>1, StoreInvariant, PTL DEF Spec, NothingVanishes

-----------------------------------------------------------------------------
(* The device document *)

\* The hook of the current connection has replaced the runtime and moved the
\* generation on.
Renewed == hook \in {"idle", "clear"}

\* Counters are one behind while the hook still has to move them.
Counted ==
    /\ gen + (IF hook \in {"swap", "bump"} THEN 1 ELSE 0) <= connects + 1 + births
    /\ runtime + (IF hook = "swap" THEN 1 ELSE 0) <= connects + 1

\* Announced is not inductive.  A runtime that has declared the document has
\* done so to the broker that is there, unless its hook is still to replace
\* it; so a pass whose generation is current publishes through the current
\* runtime, and what it concludes - that the document is there, or that it is
\* too large - is true of this connection until the hook or a birth moves the
\* generation, which the last check or `raced' shows.
Grounds ==
    /\ runtime \in declared /\ link = "up" /\ hook # "swap" => retained
    /\ pub = "build" => bundle = "none" /\ ~sent
    /\ pub # "idle" /\ sent => bundle # "built"
    /\ pub = "send" /\ gen = sampled /\ Renewed => rt = runtime
    /\ pub = "check" /\ gen = sampled /\ Renewed /\ link = "up" => retained
    /\ pub = "mark" /\ ~raced /\ Renewed /\ link = "up" => retained
    /\ pub = "withhold" /\ ~raced /\ Renewed => ~fits
    /\ hook = "idle" /\ Reachable /\ sent /\ ~raced => retained

Documented == DiscoveryTypeOK /\ Counted /\ Grounds

-----------------------------------------------------------------------------
(* Types *)

\* Every step keeps the variables in their types and the counters in step.
LEMMA DocumentTypeStep ==
    ASSUME DiscoveryTypeOK, Counted, [DiscoveryNext]_discoveryVars
    PROVE  DiscoveryTypeOK' /\ Counted'
<1> USE DiscoveryBounds DEF DiscoveryTypeOK, Counted
<1>1. CASE BuildBundle
  BY <1>1 DEF BuildBundle, discoveryVars, flags, pass, plane, broker, counts
<1>2. CASE PubSample
  <2>1. raced' \in BOOLEAN
    BY <1>2, Zenon DEF PubSample
  <2>2. /\ pub' \in {"fits", "idle"} /\ sampled' \in {sampled, gen}
        /\ UNCHANGED <<bundle, sent, gen, rt, runtime, declared, hook, birth, link,
                      retained, fits, connects, births, faults>>
    BY <1>2 DEF PubSample, discoveryVars, flags, pass, plane, broker, counts
  <2> QED
    BY <2>1, <2>2
<1>3. CASE PubFits
  BY <1>3 DEF PubFits, discoveryVars, flags, pass, plane, broker, counts
<1>4. CASE PubWithhold
  BY <1>4 DEF PubWithhold, discoveryVars, flags, pass, plane, broker, counts
<1>5. CASE PubCapture
  BY <1>5 DEF PubCapture, discoveryVars, flags, pass, plane, broker, counts
<1>6. CASE PubSend
  <2>1. retained' \in BOOLEAN
    BY <1>6, Zenon DEF PubSend
  <2>2. /\ pub' = "check" /\ declared' \subseteq 0..runtime
        /\ UNCHANGED <<bundle, sent, gen, sampled, rt, runtime, hook, birth, link,
                      fits, connects, births, faults, raced>>
    BY <1>6 DEF PubSend, flags, counts
  <2> QED
    BY <2>1, <2>2
<1>7. CASE PubSendFails
  <2>1. faults' \in 0..MaxFaults
    BY <1>7 DEF PubSendFails
  <2>2. /\ pub' = "idle" /\ sent' \in BOOLEAN
        /\ UNCHANGED <<bundle, gen, sampled, rt, runtime, declared, hook, birth, link,
                      retained, fits, connects, births, raced>>
    BY <1>7, Zenon DEF PubSendFails, plane, broker
  <2> QED
    BY <2>1, <2>2
<1>8. CASE PubCheck
  <2>1. sent' \in BOOLEAN /\ pub' \in {"idle", "mark"}
    BY <1>8, Zenon DEF PubCheck
  <2>2. UNCHANGED <<bundle, gen, sampled, rt, runtime, declared, hook, birth, link,
                    retained, fits, connects, births, faults, raced>>
    BY <1>8, Zenon DEF PubCheck, plane, broker, counts
  <2> QED
    BY <2>1, <2>2
<1>9. CASE PubMark
  BY <1>9 DEF PubMark, discoveryVars, flags, pass, plane, broker, counts
<1>10. CASE Republish
  BY <1>10 DEF Republish, discoveryVars, flags, pass, plane, broker, counts
<1>11. CASE HookSwap
  BY <1>11 DEF HookSwap, discoveryVars, flags, pass, plane, broker, counts
<1>12. CASE HookBump
  <2>1. raced' \in BOOLEAN
    BY <1>12, Zenon DEF HookBump, Bump, InWindow
  <2>2. /\ gen' = gen + 1
        /\ hook = "bump" /\ hook' = "clear" /\ UNCHANGED <<birth, connects, births, faults>>
        /\ UNCHANGED <<bundle, sent, pub, sampled, rt, runtime, declared, link,
                      retained, fits>>
    BY <1>12, Zenon DEF HookBump, Bump, pass, plane, broker, counts
  <2> QED
    BY <2>1, <2>2
<1>13. CASE HookClear
  <2>1. /\ hook = "clear" /\ hook' = "idle" /\ sent' \in BOOLEAN
        /\ UNCHANGED <<bundle, gen, pub, sampled, rt, runtime, declared, birth, link,
                      retained, fits, connects, births, faults, raced>>
    BY <1>13, Zenon DEF HookClear, pass, plane, broker, counts
  <2> QED
    BY <2>1
<1>14. CASE BirthBump
  <2>1. raced' \in BOOLEAN
    BY <1>14, Zenon DEF BirthBump, Bump, InWindow
  <2>2. /\ gen' = gen + 1
        /\ birth' = "clear" /\ births < MaxBirths /\ births' = births + 1
        /\ UNCHANGED <<hook, connects, faults>>
        /\ UNCHANGED <<bundle, sent, pub, sampled, rt, runtime, declared, link,
                      retained, fits>>
    BY <1>14, Zenon DEF BirthBump, Bump, pass, plane, broker, counts
  <2> QED
    BY <2>1, <2>2
<1>15. CASE BirthClear
  <2>1. /\ birth' = "idle" /\ sent' \in BOOLEAN
        /\ UNCHANGED <<bundle, gen, pub, sampled, rt, runtime, declared, hook, link,
                      retained, fits, connects, births, faults, raced>>
    BY <1>15, Zenon DEF BirthClear, pass, plane, broker, counts
  <2> QED
    BY <2>1
<1>16. CASE LinkDies
  BY <1>16 DEF LinkDies, discoveryVars, flags, pass, plane, broker, counts
<1>17. CASE LinkDrops
  BY <1>17 DEF LinkDrops, discoveryVars, flags, pass, plane, broker, counts
<1>18. CASE Reconnect
  <2>1. connects' \in 0..MaxConnects /\ connects' = connects + 1
    BY <1>18 DEF Reconnect, discoveryVars, flags, pass, plane, broker, counts
  <2>2. retained' \in BOOLEAN /\ fits' \in BOOLEAN
    BY <1>18 DEF Reconnect
  <2>3. /\ gen' \in 0..(connects' + 1 + births') /\ runtime' \in 0..(connects' + 1)
        /\ Counted'
    BY <1>18, <2>1 DEF Reconnect, discoveryVars, flags, pass, plane, broker, counts
  <2> QED
    BY <1>18, <2>1, <2>2, <2>3
       DEF Reconnect, discoveryVars, flags, pass, plane, broker, counts
<1>19. CASE UNCHANGED discoveryVars
  BY <1>19
     DEF discoveryVars, flags, pass, plane, broker, counts
<1> QED
  BY <1>1, <1>2, <1>3, <1>4, <1>5, <1>6, <1>7, <1>8, <1>9, <1>10, <1>11, <1>12, <1>13,
     <1>14, <1>15, <1>16, <1>17, <1>18, <1>19
     DEF DiscoveryNext, PubStep, HookStep

-----------------------------------------------------------------------------
(* Grounds *)

\* Every step of the pass, the hook, a birth or the broker keeps Grounds.
LEMMA GroundsStep ==
    ASSUME Documented, [DiscoveryNext]_discoveryVars
    PROVE  Grounds'
<1> USE DEF Documented, DiscoveryTypeOK, Counted, Grounds, Renewed, Reachable
<1>1. CASE BuildBundle
  BY <1>1 DEF BuildBundle, discoveryVars, flags, pass, plane, broker, counts
<1>2. CASE PubSample
  BY <1>2 DEF PubSample, discoveryVars, flags, pass, plane, broker, counts
<1>3. CASE PubFits
  BY <1>3 DEF PubFits, discoveryVars, flags, pass, plane, broker, counts
<1>4. CASE PubWithhold
  BY <1>4 DEF PubWithhold, discoveryVars, flags, pass, plane, broker, counts
<1>5. CASE PubCapture
  BY <1>5 DEF PubCapture, discoveryVars, flags, pass, plane, broker, counts
<1>6. CASE PubSend
  BY <1>6 DEF PubSend, discoveryVars, flags, pass, plane, broker, counts
<1>7. CASE PubSendFails
  BY <1>7 DEF PubSendFails, discoveryVars, flags, pass, plane, broker, counts
<1>8. CASE PubCheck
  BY <1>8 DEF PubCheck, discoveryVars, flags, pass, plane, broker, counts
<1>9. CASE PubMark
  BY <1>9 DEF PubMark, discoveryVars, flags, pass, plane, broker, counts
<1>10. CASE Republish
  BY <1>10 DEF Republish, discoveryVars, flags, pass, plane, broker, counts
<1>11. CASE HookSwap
  BY <1>11 DEF HookSwap, discoveryVars, flags, pass, plane, broker, counts
<1>12. CASE HookBump
  <2>1. gen' # sampled' /\ raced' = (raced \/ pub \in {"mark", "withhold"})
    BY <1>12
       DEF HookBump, Bump, InWindow, discoveryVars, flags, pass, plane, broker, counts
  <2> QED
    BY <1>12, <2>1 DEF HookBump, discoveryVars, flags, pass, plane, broker, counts
<1>13. CASE HookClear
  BY <1>13 DEF HookClear, discoveryVars, flags, pass, plane, broker, counts
<1>14. CASE BirthBump
  BY <1>14
     DEF BirthBump, Bump, InWindow, discoveryVars, flags, pass, plane, broker, counts
<1>15. CASE BirthClear
  BY <1>15 DEF BirthClear, discoveryVars, flags, pass, plane, broker, counts
<1>16. CASE LinkDies
  BY <1>16 DEF LinkDies, discoveryVars, flags, pass, plane, broker, counts
<1>17. CASE LinkDrops
  BY <1>17 DEF LinkDrops, discoveryVars, flags, pass, plane, broker, counts
<1>18. CASE Reconnect
  BY <1>18 DEF Reconnect, discoveryVars, flags, pass, plane, broker, counts
<1>19. CASE UNCHANGED discoveryVars
  BY <1>19
     DEF discoveryVars, flags, pass, plane, broker, counts
<1> QED
  BY <1>1, <1>2, <1>3, <1>4, <1>5, <1>6, <1>7, <1>8, <1>9, <1>10, <1>11, <1>12, <1>13,
     <1>14, <1>15, <1>16, <1>17, <1>18, <1>19
     DEF DiscoveryNext, PubStep, HookStep

-----------------------------------------------------------------------------
(* The theorems *)

\* The strengthened invariant holds initially and is kept.
LEMMA DocumentInvariant == DiscoverySpec => []Documented
<1>1. DiscoveryInit => Documented
  <2> SUFFICES ASSUME DiscoveryInit
               PROVE  Documented
    OBVIOUS
  <2>1. DiscoveryTypeOK
    <3>1. sent \in BOOLEAN /\ raced \in BOOLEAN
      BY Zenon DEF DiscoveryInit
    <3> QED
      BY <3>1, DiscoveryBounds DEF DiscoveryInit, DiscoveryTypeOK
  <2>2. Counted
    BY DEF DiscoveryInit, Counted
  <2>3. Grounds
    BY DEF DiscoveryInit, Grounds, Renewed, Reachable
  <2> QED
    BY <2>1, <2>2, <2>3 DEF Documented
<1>2. Documented /\ [DiscoveryNext]_discoveryVars => Documented'
  BY DocumentTypeStep, GroundsStep DEF Documented
<1> QED
  BY <1>1, <1>2, PTL DEF DiscoverySpec

\* The goroutines' control states, the counters and the runtimes stay in
\* range: no pass publishes through a runtime that never was.
THEOREM DocumentTypeCorrect == DiscoverySpec => []DiscoveryTypeOK
<1>1. Documented => DiscoveryTypeOK
  BY DEF Documented
<1> QED
  BY <1>1, DocumentInvariant, PTL

\* discoverySent is never wrong for the connection at hand, whatever the order
\* of passes, reconnects, births and lost publishes.
THEOREM AnnouncedHolds == DiscoverySpec => []Announced
<1>1. Documented => Announced
  BY DEF Documented, Grounds, Announced, AtRest
<1> QED
  BY <1>1, DocumentInvariant, PTL
=============================================================================
