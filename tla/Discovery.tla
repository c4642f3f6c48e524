------------------------------- MODULE Discovery -------------------------------
(***************************************************************************)
(* Announcing the device document to Home Assistant.                       *)
(*                                                                         *)
(* publishDiscovery runs on one goroutine at a time: first on Run, then on *)
(* discoveryRepublisher, which makes another pass whenever discoverySent   *)
(* is false.  Two others clear discoverySent: onMessage when Home          *)
(* Assistant announces its birth, and the connect hook PublishOnline,      *)
(* which first replaces the publisher.Runtime, whose memory of what it has *)
(* published belongs to one broker connection.  discoveryGen is meant to   *)
(* keep a pass that was already under way from setting discoverySent over  *)
(* them.                                                                   *)
(*                                                                         *)
(* The broker may come back from an outage without its retained messages   *)
(* and with another packet limit; the runtime and the connection are       *)
(* external and modelled from their use.                                   *)
(***************************************************************************)
EXTENDS Naturals

CONSTANTS
    MaxConnects,  \* bound: reconnects
    MaxBirths,    \* bound: Home Assistant births
    MaxFaults     \* bound: publishes refused although the link is up

ASSUME DiscoveryBounds == {MaxConnects, MaxBirths, MaxFaults} \subseteq Nat

VARIABLES
    bundle,    \* haBundle: "none" before buildBundle, "built", "failed"
    sent,      \* discoverySent
    gen,       \* discoveryGen
    pub,       \* control state of publishDiscovery and its callers
    sampled,   \* gen as publishDiscovery sampled it
    rt,        \* the runtime publishDiscovery publishes through
    runtime,   \* haRuntime: the current runtime, numbered by replacement
    declared,  \* runtimes that have declared the document
    hook,      \* control state of PublishOnline
    birth,     \* control state of onMessage
    link,      \* broker link: "up", "dead" (lost, not noticed), "down"
    retained,  \* the broker holds the document
    fits,      \* the document fits the broker's packet limit
    connects, births, faults,  \* history: counts for the bounds
    raced      \* history: gen moved between the last check and the store

flags == <<sent, gen>>
pass  == <<pub, sampled, rt>>
plane == <<runtime, declared>>
broker == <<link, retained, fits>>
counts == <<connects, births, faults>>
discoveryVars == <<bundle, flags, pass, plane, hook, birth, broker, counts, raced>>

DiscoveryTypeOK ==
    /\ bundle \in {"none", "built", "failed"}
    /\ sent \in BOOLEAN
    /\ gen \in 0..(connects + 1 + births)
    /\ pub \in {"build", "sample", "fits", "capture", "send", "check", "mark",
                "withhold", "idle"}
    /\ sampled \in 0..gen
    /\ runtime \in 0..(connects + 1)
    /\ rt \in 0..runtime
    /\ declared \subseteq 0..runtime
    /\ hook \in {"idle", "swap", "bump", "clear"}
    /\ birth \in {"idle", "clear"}
    /\ link \in {"up", "dead", "down"}
    /\ retained \in BOOLEAN
    /\ fits \in BOOLEAN
    /\ connects \in 0..MaxConnects
    /\ births \in 0..MaxBirths
    /\ faults \in 0..MaxFaults
    /\ raced \in BOOLEAN

\* The lifecycle has connected for the first time and Run has learned the
\* serial; the first connect's hook may still be running.
DiscoveryInit ==
    /\ bundle = "none"
    /\ sent = FALSE
    /\ gen = 0
    /\ pub = "build"
    /\ sampled = 0
    /\ rt = 0
    /\ runtime = 0
    /\ declared = {}
    /\ hook \in {"idle", "swap"}
    /\ birth = "idle"
    /\ link = "up"
    /\ retained \in BOOLEAN
    /\ fits \in BOOLEAN
    /\ connects = 0
    /\ births = 0
    /\ faults = 0
    /\ raced = FALSE

-----------------------------------------------------------------------------
(* buildBundle, publishDiscovery, discoveryRepublisher *)

\* A document that cannot be rendered or does not validate is withheld, and
\* discoverySent left true.
BuildBundle ==
    /\ pub = "build"
    /\ pub' = "sample"
    /\ \/ bundle' = "built" /\ UNCHANGED sent
       \/ bundle' = "failed" /\ sent' = TRUE
    /\ UNCHANGED <<gen, sampled, rt, plane, hook, birth, broker, counts, raced>>

\* publishDiscovery begins: without a document it returns at once.
PubSample ==
    /\ pub = "sample"
    /\ IF bundle = "built"
       THEN pub' = "fits" /\ sampled' = gen
       ELSE pub' = "idle" /\ UNCHANGED sampled
    /\ raced' = FALSE
    /\ UNCHANGED <<bundle, flags, rt, plane, hook, birth, broker, counts>>

\* bundleFitsBroker compares with the limit of the connection it finds.
PubFits ==
    /\ pub = "fits"
    /\ pub' = IF fits THEN "capture" ELSE "withhold"
    /\ UNCHANGED <<bundle, flags, sampled, rt, plane, hook, birth, broker, counts, raced>>

\* Too large for this connection: discoverySent is set, nothing published.
PubWithhold ==
    /\ pub = "withhold"
    /\ sent' = TRUE
    /\ pub' = "idle"
    /\ UNCHANGED <<bundle, gen, sampled, rt, plane, hook, birth, broker, counts, raced>>

\* c.ha()
PubCapture ==
    /\ pub = "capture"
    /\ rt' = runtime
    /\ pub' = "send"
    /\ UNCHANGED <<bundle, flags, sampled, plane, hook, birth, broker, counts, raced>>

\* PublishBundle succeeds.  A runtime that has declared the document writes
\* nothing; a write to a dead link is accepted and lost.
PubSend ==
    /\ pub = "send"
    /\ \/ rt \in declared /\ UNCHANGED <<declared, retained>>
       \/ /\ rt \notin declared /\ link # "down" /\ fits
          /\ declared' = declared \cup {rt}
          /\ retained' = (retained \/ link = "up")
    /\ pub' = "check"
    /\ UNCHANGED <<bundle, flags, sampled, rt, runtime, hook, birth, link, fits,
                   counts, raced>>

\* MUTANT: a failed publish is not tried again.
PubSendFailsForGood ==
    /\ pub = "send" /\ rt \notin declared
    /\ \/ link = "down" \/ ~fits \/ rt # runtime
       \/ faults < MaxFaults
    /\ faults' = IF faults < MaxFaults THEN faults + 1 ELSE faults
    /\ sent' = TRUE
    /\ pub' = "idle"
    /\ UNCHANGED <<bundle, gen, sampled, rt, plane, hook, birth, broker, connects,
                   births, raced>>

\* PublishBundle fails: no link, over the limit, a closed runtime, or an open
\* circuit breaker, which the bound covers.
PubSendFails ==
    /\ pub = "send" /\ rt \notin declared
    /\ \/ (link = "down" \/ ~fits \/ rt # runtime) /\ UNCHANGED faults
       \/ faults < MaxFaults /\ faults' = faults + 1
    /\ sent' = FALSE
    /\ pub' = "idle"
    /\ UNCHANGED <<bundle, gen, sampled, rt, plane, hook, birth, broker, connects,
                   births, raced>>

\* MUTANT: no generation check.
PubCheckNever ==
    /\ pub = "check"
    /\ pub' = "mark"
    /\ UNCHANGED <<bundle, flags, sampled, rt, plane, hook, birth, broker, counts, raced>>

\* The generation has moved: leave it to another pass.
PubCheck ==
    /\ pub = "check"
    /\ IF gen # sampled
       THEN sent' = FALSE /\ pub' = "idle"
       ELSE pub' = "mark" /\ UNCHANGED sent
    /\ UNCHANGED <<bundle, gen, sampled, rt, plane, hook, birth, broker, counts, raced>>

PubMark ==
    /\ pub = "mark"
    /\ sent' = TRUE
    /\ pub' = "idle"
    /\ UNCHANGED <<bundle, gen, sampled, rt, plane, hook, birth, broker, counts, raced>>

\* discoveryRepublisher finds discoverySent false.
Republish ==
    /\ pub = "idle" /\ ~sent
    /\ pub' = "sample"
    /\ UNCHANGED <<bundle, flags, sampled, rt, plane, hook, birth, broker, counts, raced>>

-----------------------------------------------------------------------------
(* PublishOnline and onMessage *)

\* The pass under way has made its last check and will set discoverySent.
InWindow == pub \in {"mark", "withhold"}

Bump ==
    /\ gen' = gen + 1
    /\ raced' = (raced \/ InWindow)

\* resetHAPlane
HookSwap ==
    /\ hook = "swap"
    /\ runtime' = runtime + 1
    /\ hook' = "bump"
    /\ UNCHANGED <<bundle, flags, pass, declared, birth, broker, counts, raced>>

HookBump ==
    /\ hook = "bump"
    /\ Bump
    /\ hook' = "clear"
    /\ UNCHANGED <<bundle, sent, pass, plane, birth, broker, counts>>

HookClear ==
    /\ hook = "clear"
    /\ sent' = FALSE
    /\ hook' = "idle"
    /\ UNCHANGED <<bundle, gen, pass, plane, birth, broker, counts, raced>>

\* onMessage, in its two stores.
BirthBump ==
    /\ birth = "idle" /\ link = "up" /\ births < MaxBirths
    /\ births' = births + 1
    /\ Bump
    /\ birth' = "clear"
    /\ UNCHANGED <<bundle, sent, pass, plane, hook, broker, connects, faults>>

BirthClear ==
    /\ birth = "clear"
    /\ sent' = FALSE
    /\ birth' = "idle"
    /\ UNCHANGED <<bundle, gen, pass, plane, hook, broker, counts, raced>>

-----------------------------------------------------------------------------
(* The broker connection: external *)

LinkDies ==
    /\ link = "up"
    /\ link' = "dead"
    /\ UNCHANGED <<bundle, flags, pass, plane, hook, birth, retained, fits, counts, raced>>

LinkDrops ==
    /\ link # "down"
    /\ link' = "down"
    /\ UNCHANGED <<bundle, flags, pass, plane, hook, birth, retained, fits, counts, raced>>

\* The lifecycle reconnects and runs its hook, one hook at a time.
Reconnect ==
    /\ link = "down" /\ hook = "idle" /\ connects < MaxConnects
    /\ connects' = connects + 1
    /\ link' = "up"
    /\ retained' \in {retained, FALSE}
    /\ fits' \in BOOLEAN
    /\ hook' = "swap"
    /\ UNCHANGED <<bundle, flags, pass, plane, birth, births, faults, raced>>

-----------------------------------------------------------------------------
PubStep ==
    \/ BuildBundle \/ PubSample \/ PubFits \/ PubWithhold \/ PubCapture
    \/ PubSend \/ PubSendFails \/ PubCheck \/ PubMark \/ Republish

HookStep == HookSwap \/ HookBump \/ HookClear

DiscoveryNext ==
    \/ PubStep
    \/ HookStep
    \/ BirthBump \/ BirthClear
    \/ LinkDies \/ LinkDrops \/ Reconnect

\* The goroutines run; nothing is assumed of the broker.
DiscoveryFairness ==
    /\ WF_discoveryVars(PubStep)
    /\ WF_discoveryVars(HookStep)
    /\ WF_discoveryVars(BirthClear)

DiscoverySpec == DiscoveryInit /\ [][DiscoveryNext]_discoveryVars /\ DiscoveryFairness

-----------------------------------------------------------------------------
(* Properties *)

AtRest == pub = "idle" /\ hook = "idle" /\ birth = "idle"

Reachable == link = "up" /\ fits /\ bundle = "built"

\* discoverySent is never wrong for the connection at hand: once every
\* goroutine is at rest and it says the document is announced, the broker
\* holds it, whatever reconnects, births and lost publishes there were -
\* provided the generation did not move after the pass's last check.
Announced == AtRest /\ Reachable /\ sent /\ ~raced => retained

\* A reachable broker gets the document, however often publishing failed.
Delivered == <>[]Reachable => []<>(retained \/ raced)
=============================================================================
