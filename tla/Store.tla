--------------------------------- MODULE Store ---------------------------------
(***************************************************************************)
(* state.Store, the live cache behind the web UI: the poll goroutines and  *)
(* the write worker update it, one SSE client per subscription is woken    *)
(* through a channel of capacity one and reads a snapshot.                 *)
(*                                                                         *)
(* A writer changes the values under the write lock and pokes the          *)
(* subscribers under the read lock, afterwards; Subscribe and its cancel   *)
(* take the write lock.  The values of one group are kept, per key, as the *)
(* number of the change that wrote them.                                   *)
(***************************************************************************)
EXTENDS Naturals

CONSTANTS
    Writer,     \* goroutines that call UpdateGroup or SetStatic
    Client,     \* subscriptions, each with a channel of its own
    Key,        \* registers of one polling group
    MaxVersion  \* bound: changes to the store

ASSUME ConstAssumption == MaxVersion \in Nat

VARIABLES
    version,  \* history: changes so far
    values,   \* GroupView.Values: 0 for a key that is absent
    subs,     \* Store.subs
    closed,   \* channels cancel has closed
    pending,  \* channels with a wakeup in the buffer
    wpc,      \* control state of each writer
    todo,     \* subscribers its notify has still to poke
    cpc,      \* control state of each client (external)
    seen      \* history: version of the client's last snapshot

vars == <<version, values, subs, closed, pending, wpc, todo, cpc, seen>>

TypeOK ==
    /\ version \in 0..MaxVersion
    /\ values \in [Key -> 0..MaxVersion]
    /\ subs \subseteq Client
    /\ closed \subseteq Client
    /\ pending \subseteq Client
    /\ wpc \in [Writer -> {"idle", "changed", "notifying"}]
    /\ todo \in [Writer -> SUBSET Client]
    /\ cpc \in [Client -> {"new", "subscribed", "sending", "waiting", "woken", "gone"}]
    /\ seen \in [Client -> 0..MaxVersion]

Init ==
    /\ version = 0
    /\ values = [k \in Key |-> 0]
    /\ subs = {}
    /\ closed = {}
    /\ pending = {}
    /\ wpc = [w \in Writer |-> "idle"]
    /\ todo = [w \in Writer |-> {}]
    /\ cpc = [c \in Client |-> "new"]
    /\ seen = [c \in Client |-> 0]

\* mu.Lock is free: no notify is under way.  The other critical sections are
\* one step each.
Unlocked == \A w \in Writer : wpc[w] # "notifying"

-----------------------------------------------------------------------------
(* Writers *)

\* MUTANT: a read replaces the group instead of being merged into it.
Replace(read) == values' = [k \in Key |-> IF k \in read THEN version + 1 ELSE 0]

\* MUTANT: the map of the group becomes the map of the read.
StoreRead(read) == values' = [k \in read |-> version + 1]

\* maps.Copy over the previous values: a partial read keeps the others.
Merge(read) ==
    values' = [k \in Key |-> IF k \in read THEN version + 1 ELSE values[k]]

\* MUTANT: SetStatic returns without a notify.
ChangeStaticQuietly(w) ==
    /\ wpc[w] = "idle" /\ Unlocked /\ version < MaxVersion
    /\ \E read \in SUBSET Key :
        /\ Merge(read)
        /\ wpc' = IF read = {} THEN wpc ELSE [wpc EXCEPT ![w] = "changed"]
    /\ version' = version + 1
    /\ UNCHANGED <<subs, closed, pending, todo, cpc, seen>>

\* UpdateGroup, or with nothing read SetStatic, up to the unlock.
Change(w) ==
    /\ wpc[w] = "idle" /\ Unlocked /\ version < MaxVersion
    /\ \E read \in SUBSET Key : Merge(read)
    /\ version' = version + 1
    /\ wpc' = [wpc EXCEPT ![w] = "changed"]
    /\ UNCHANGED <<subs, closed, pending, todo, cpc, seen>>

\* notify takes the read lock.
Notify(w) ==
    /\ wpc[w] = "changed"
    /\ wpc' = [wpc EXCEPT ![w] = "notifying"]
    /\ todo' = [todo EXCEPT ![w] = subs]
    /\ UNCHANGED <<version, values, subs, closed, pending, cpc, seen>>

\* MUTANT: an unbuffered channel, which only a client in its receive hears.
PokeUnbuffered(w, c) ==
    /\ wpc[w] = "notifying" /\ c \in todo[w]
    /\ pending' = IF cpc[c] = "waiting" THEN pending \cup {c} ELSE pending
    /\ todo' = [todo EXCEPT ![w] = @ \ {c}]
    /\ UNCHANGED <<version, values, subs, closed, wpc, cpc, seen>>

\* The non-blocking send: a wakeup that is already in the buffer is enough.
Poke(w, c) ==
    /\ wpc[w] = "notifying" /\ c \in todo[w]
    /\ pending' = pending \cup {c}
    /\ todo' = [todo EXCEPT ![w] = @ \ {c}]
    /\ UNCHANGED <<version, values, subs, closed, wpc, cpc, seen>>

NotifyDone(w) ==
    /\ wpc[w] = "notifying" /\ todo[w] = {}
    /\ wpc' = [wpc EXCEPT ![w] = "idle"]
    /\ UNCHANGED <<version, values, subs, closed, pending, todo, cpc, seen>>

-----------------------------------------------------------------------------
(* Subscriptions *)

Subscribe(c) ==
    /\ cpc[c] = "new" /\ Unlocked
    /\ subs' = subs \cup {c}
    /\ cpc' = [cpc EXCEPT ![c] = "subscribed"]
    /\ UNCHANGED <<version, values, closed, pending, wpc, todo, seen>>

\* The client takes the wakeup out of its channel, ...
Receive(c) ==
    /\ cpc[c] = "waiting" /\ c \in pending
    /\ pending' = pending \ {c}
    /\ cpc' = [cpc EXCEPT ![c] = "woken"]
    /\ UNCHANGED <<version, values, subs, closed, wpc, todo, seen>>

\* ... reads the store, as it does right after subscribing, ...
Snapshot(c) ==
    /\ cpc[c] \in {"subscribed", "woken"}
    /\ seen' = [seen EXCEPT ![c] = version]
    /\ cpc' = [cpc EXCEPT ![c] = "sending"]
    /\ UNCHANGED <<version, values, subs, closed, pending, wpc, todo>>

\* ... and sends what it read, slowly perhaps, before it waits again.
Sent(c) ==
    /\ cpc[c] = "sending"
    /\ cpc' = [cpc EXCEPT ![c] = "waiting"]
    /\ UNCHANGED <<version, values, subs, closed, pending, wpc, todo, seen>>

\* MUTANT: cancel closes the channel without the lock.
CancelUnlocked(c) ==
    /\ cpc[c] \notin {"new", "gone"}
    /\ subs' = subs \ {c}
    /\ closed' = closed \cup {c}
    /\ cpc' = [cpc EXCEPT ![c] = "gone"]
    /\ UNCHANGED <<version, values, pending, wpc, todo, seen>>

\* The cancel func: the channel is closed under the lock.
Cancel(c) ==
    /\ cpc[c] \notin {"new", "gone"} /\ Unlocked
    /\ subs' = subs \ {c}
    /\ closed' = closed \cup {c}
    /\ cpc' = [cpc EXCEPT ![c] = "gone"]
    /\ UNCHANGED <<version, values, pending, wpc, todo, seen>>

-----------------------------------------------------------------------------
WriterStep(w) ==
    \/ Change(w) \/ Notify(w) \/ NotifyDone(w)
    \/ \E c \in Client : Poke(w, c)

ClientStep(c) ==
    Subscribe(c) \/ Receive(c) \/ Snapshot(c) \/ Sent(c) \/ Cancel(c)

Next ==
    \/ \E w \in Writer : WriterStep(w)
    \/ \E c \in Client : ClientStep(c)

\* A writer that has changed the store goes on; a client that was woken
\* reads.  Nothing makes a client subscribe or a value change.
Fairness ==
    /\ \A w \in Writer :
        /\ WF_vars(Notify(w))
        /\ WF_vars(NotifyDone(w))
        /\ \A c \in Client : WF_vars(Poke(w, c))
    /\ \A c \in Client : WF_vars(Receive(c) \/ Snapshot(c) \/ Sent(c))

Spec == Init /\ [][Next]_vars /\ Fairness

-----------------------------------------------------------------------------
(* Properties *)

\* No wakeup is lost: a subscriber whose last snapshot is out of date is
\* about to take another, or has a wakeup in its channel, or some writer has
\* still to poke it.
NoLostWakeup ==
    \A c \in subs :
        cpc[c] \in {"sending", "waiting"} /\ seen[c] < version =>
            \/ c \in pending
            \/ \E w \in Writer : wpc[w] = "changed" \/ c \in todo[w]

\* No send on a closed channel, and no channel closed twice: notify only ever
\* pokes channels that are still subscribed.
OpenChannels ==
    /\ subs \cap closed = {}
    /\ \A w \in Writer : todo[w] \subseteq subs

\* A slow client skips versions but always ends on the newest.
EventuallySeen ==
    \A c \in Client : [](c \in subs => <>(seen[c] = version \/ c \notin subs))

\* A register once shown does not vanish again, however partial the reads.
NothingVanishes ==
    [][\A k \in Key : values[k] # 0 => values'[k] >= values[k]]_vars
=============================================================================
