# A TLA+ model of mtec2mqtt

mtec2mqtt reads an M-TEC inverter over Modbus TCP, publishes what it reads as
retained MQTT messages (with a Home Assistant discovery document and an evcc
profile), serves the same values to a small web UI, and writes the inverter's
registers on command. It is one Go process with some ten goroutines that share
a handful of atomics, mutexes and one channel, between two links that break
independently: the inverter's and the broker's.

This directory holds TLA+ modules of the parts of it where order matters, TLC
configurations that check them on small instances, and TLAPS proofs of what
matters most. Line numbers below and in `PROJECT.json` refer to `src/`.

## Inventory

| component | state | operations | talks to |
|---|---|---|---|
| Command path (`coordinator.go`, `web.go`, `virtual.go`) | `writeQueue` (32), `writeWorkerUp` | `onSet`, `enqueueWrite`, `writeWorker`, `dispatchWriteRetrying`, `Write` | router callback, HTTP handlers, watchdog, Modbus |
| evcc battery mode (`evcc.go`) | mode in force, mode to restore, time of the last command | `onEVCCSet`, `applyBatteryMode`, `evccWatchdog` | command path, inverter's operation-mode register |
| Discovery (`coordinator.go`) | `discoverySent`, `discoveryGen`, runtime, bundle | `buildBundle`, `publishDiscovery`, `discoveryRepublisher`, birth handler | connect hook, broker |
| Availability (`coordinator.go`, `main.go`) | `upstreamUp`, runtime level | `updateUpstream`, `PublishOnline`, `PublishOffline` | pollers, connect hook, will |
| Poll cycle and switches (`poll.go`, `virtual.go`, `process.go`) | `lastActive`, publish cache (library) | `publishGroupOnce`, `handleVirtualWrite` | reader, store, broker |
| Live store (`state/store.go`) | groups, subscribers | `UpdateGroup`, `SetStatic`, `Snapshot`, `Subscribe`, cancel | pollers, SSE handlers |
| Register reads (`registers/cluster.go`, `modbus/reader.go`) | none | `Clusterize`, `ReadGroup` | Modbus client |
| Catalog (`registers/load.go`, `register.go`) | the indexes | `parse`, `FindByMQTT`, `ByGroup` | reader, writer, pollers |
| Codec (`registers/decode.go`, `reader.go`, `process.go`) | none | `Decode`, `ParseWriteValue`, `decodeCode`, `wireValue` | reader, writer |
| Derived values (`pseudo.go`, `evcc/evcc.go`) | none | `PseudoRegisters`, `Derive` | poll cycle |
| Lifecycle (`main.go`, `Run`, `install.sh`) | contexts, error groups, exit status | start, cancel, restart, respawn | everything |
| Configuration (`config/*.go`) | `raw`, `Config` | `Load`: overrides, renamed keys, binding, defaults, `Validate` | everything, once |
| Home Assistant document (`hass/*.go`) | none | `NewEntities`, the topic templates, value templates, bounds | catalog, Discovery, routes |
| Web server, utilities | none of their own | routing, rendering, I/O | |

The goroutines: `Run` and its error group (one poller per group or group
rotation, `writeWorker`, `modbusWatchdog`, `evccWatchdog`,
`discoveryRepublisher`), the MQTT library's command router (one callback at a
time), its connect hook, one goroutine per HTTP request and SSE stream, and
the signal handler.

What is hard about it, and what would make it wrong:

* **Command path.** Four kinds of producers race for one bounded channel that
  drops its oldest entry; a caller may wait for an answer two parties owe it;
  the worker starts late and leaves early. Correct: each accepted command is
  settled once, in order, the newest of a burst survives, and a caller is told
  what happened.
* **Battery mode.** Commands are compared with the mode in force, applied by
  another goroutine, retried after lost answers, and undone by a watchdog.
  Correct: the operator's own setting comes back, a silent evcc does not
  leave the battery locked, and the topic shows the mode in force.
* **Discovery, availability.** A flag, a generation counter, a library runtime
  and the broker's retained store are updated by the pollers, the connect
  hook, a callback and the broker itself (the will). Correct: they agree in
  the end, and a stale observation does not win.
* **Poll cycle.** Publish-on-change means a value wrongly believed published
  is never sent again. Correct: broker and web UI end on the inverter's values.
* **Store.** Changing and announcing are two lock regions; channels are closed
  while others poke them. Correct: no lost wakeup, no send on a closed channel.
* **Reads, catalog, codec.** Boundaries: overlapping registers, holes, limits,
  partial reads, two spellings of an address, integers at the end of their
  width, labels in two languages.
* **Configuration.** Two sources, keys in any case, zeros that are settings, keys
  that were renamed. Correct: what is accepted is what was asked for, above all
  TLS.
* **Document.** Registers, synthetic switches and evcc's battery mode share one
  name space of write keys, and state topics, command topics, routes and polls
  are written down in different places. Correct: a control drives what it shows.
* **Lifecycle.** A stop, a restart command or a failure may strike at any stage,
  while peers are being retried and goroutines are in the middle of a cycle.
  Correct: the process exits, with an honest status, and says `0` last.

## Modules

Every module names its Go counterparts action by action; `PROJECT.json` gives
the lines. The library code that is not in the repository (go-mqtt, go-hamqtt,
go-modbus, go-bridgeui) is modelled from how the code uses it and marked
external: a QoS 0 publish on a link that is dead but not noticed is accepted and
lost; a publish on a closed link, or one the breaker refuses, returns an error;
`publisher.Runtime` publishes transitions of its level; `StatePublisher` caches
what was accepted and replays it; a failed Modbus write may have been executed.

**WriteQueue** - the command path. `phase` follows `Coordinator.Run`, `wpc` the
worker, `pc` each command's producer. The non-blocking send, the drop of the
oldest entry, and the loop around them are separate steps (`EnqueueSend`,
`EnqueueDrop`), as are loading `writeWorkerUp` (`Write`) and acting on it. A
command is an identity; all write one register. History variables (`accepted`,
`outcomes`, `written`, `ahead`) record what the properties compare.

**CommandPath** - what the command path promises, as a specification of its own:
one register that commands overwrite one at a time, each accepted command
settled once, an order that respects the order of the calls, and what a caller
may be told. It has no channel, worker or retry loop. WriteQueue implements it
(`ImplementsCommandPath`): `accepted` and the register are its own, `pending` is
what lies in the channel or in the worker's hands, `busy` what the worker holds,
`stage` and `fate` come from the producers' program counters and the first
outcome (`stageBar`, `fateBar`). What the abstract path leaves open - which
command has to make way, how often an execution is repeated - is what the
queue's own properties are about.

**BatteryMode** - one queue entry per battery command; `Apply*` are the steps of
`applyBatteryMode`: read the operation mode, choose, write, commit, report. A
process publishes the mode when it starts and after each change
(`publishBatteryMode`), through the publish cache (`cached`) and a link that is
up, dead or down; a dead link takes the report and loses it, and the next
connection's replay sends what the cache holds. `shown` is the retained topic;
`refused` and `gaveUp` record a report and a replay that the link turned down,
which nobody repeats. Commands arrive only while the link is up. The
operator changes the mode between the worker's transactions (commands are
serialised by WriteQueue). `own` is the operation mode the profile owes back: a
restart leaves it and the inverter as they are and forgets everything else, and
`stranded` records that it did so while the inverter was not on the operator's
mode. `Evict` is another burst dropping an entry. `AnswersLost` lets a
failed write have been executed; `TimeoutOn` configures the watchdog.

**Discovery** - a publish pass is `PubSample`, `PubFits`, `PubCapture`,
`PubSend`, `PubCheck`, `PubMark`; the connect hook and the birth handler run
between any two of them.

**Availability** - `updateUpstream` on several goroutines (`Observe` to
`ObserveOnline`), `PublishOnline` (`Hook*`), `PublishOffline` and the final
disconnect, over a link that is up, dead, down or closed.

**PollCycle** - `publishGroupOnce` for one register and the synthetic switch
derived from it, switch commands, publish-on-change, replay, restarts. Somebody
else may set the limit between any two steps (`OutsideChange`).

**Store** - the lock regions of `Store` as steps; a client's channel is a
pending flag (it has one slot). A value is the version that wrote it.

**Config** - `config.Load`, step by step over maps from spelled keys to scalars:
`ApplyEnvOverrides`, `CheckRenamedKeys`, `Unmarshal`, `ApplyDefaults`,
`Validate`; and what the broker connection is then made of. A key is spelled in
the case of its tag or in another. Binding a scalar to a field is the YAML
library's (`Fits`, `Decoded`): a number with a fraction fits an integer field,
without its fraction. The texts that parse, trim or validate are
constants; `MCConfig` gives them and the sources: the required keys with one or
two more words, in the file, the environment or both.

**CatalogLoad** - `parse`'s loop; `Complaints` lists what it can find wrong, in
its order, `Add` enters the three indexes. The loader takes every numeric key for
an address (`HasAddress`), `IsModbus` a zero only when it is spelled `0`
(`Modbus`), so `00` is an address that nobody reads or writes.

**ReadGroup** - `Clusterize` as a loop over the registers by address, then
`ReadGroup` over its windows, each of which may fail. It extends CatalogLoad:
the registers are those of a group the loader let through. `Divides` is the
reference that the greedy division into windows is compared with.

**Document** - what a catalog amounts to, as operators over its indexes: the
entities (`NewEntities`, `Renders`, `Components`), the web UI's items, state and
command topics as sequences of levels, what polls publish there
(`PublishedTo`: what was read, unless a computed value of the same key replaces
it, and what is computed for a register without an address - `Valued`, by the
fixed keys of `PseudoRegisters`), the two routes, and the register a routed command writes
(`Routed`, `DispatchWrite`).

**Setup** composes the four: the command loads a configuration, then a catalog,
then a poll cycle reads a group of it; a refusal of either file ends it.
`MCSetup` has the catalogs - all of up to three of 15 entries that differ in
what `parse` tells apart, all groups of registers of up to three words at seven
addresses, and the shipped kind with up to two of 20 additions, among them keys
that collide with a synthetic switch, with evcc's write key or with a computed
value, and registers without an address.

**Values** - the codec and the formulas as operators: `Decode` from words to
values, `Wire` and `Processed` from values to what the broker and the web UI
show, `ParseWriteValue` and `CodeForLabel` back from a payload to a word, with
`SetValue` before them for what comes from the broker; `EnumValueTemplate`,
`BitFieldValueTemplate`, `Options` and `NumberBounds` are Home Assistant's side
of it,
`Pseudos` and `Derive` over a partial read. A state is one group of registers
that is polled in part (`Poll`), changes, and is written (`Write`). Widths are
constants: words of 5 bits, a Go `int` of 10 (two words, as on the 32-bit
builds), an int64 of 12, a float that keeps 12 bits and scales of up to 4, so
that overflow and rounding happen within what TLC enumerates. A float is an
integer number of grid units (`One` to the unit), rounded to the nearest with
ties to even; powers of two are a table (`TwoTo`). What the codec relies on of
a catalog is stated as assumptions: `GroupsAssumption` for what is read,
`WritableAssumption` for what is written. `BYTE`, `DAT` and `STR`, firmware
and equipment names are text layout and left out. `MCValues` has the registers:
every integer type, plain and scaled, a two-word fault field, the kinds of
writable registers the catalog has, and both groups with formulas.

**Lifecycle** - `main` follows `run` of the command, `run` follows
`Coordinator.Run`, `task` its goroutines, `web` the web server. `Done` is the
context of the error group: a signal, a restart command, or the first error of
a member. `Attempt` and `Backoff` are `retryWithBackoff`, instantiated by its
three callers. `Signal` cancels the context; `Killed` is the SIGTERM that ends the
process at once, before `NotifyContext` has been called or after a restart
command, whose `Shutdown` is the function that unregisters the handlers.
`Respawn` is the service manager, by the policy `Policy`.

## Runs

| run | bounds | shows |
|---|---|---|
| WriteQueueContention | one command per kind of producer, queue 1, 2 attempts, 2 tries | exactly-once, order, truthful answers, a web write returns; all of it is the abstract command path |
| BatteryMode | 2 operator modes, queue 1, 2 tries, 1 fault (a failed request, refusal, eviction, restart or lost link) | the operator's mode survives and silence releases, a restart in hold or charge excepted; the topic follows the mode over lost links and restarts; a steady evcc gets its mode |
| BatteryModeLostAnswer | queue 2, 1 lost answer | *violation*: the retry commits hold with the profile's own mode saved as the operator's |
| Discovery | 2 reconnects, 1 birth, 1 refusal | the flag is right at rest; the document gets there |
| Availability | 2 observers, 2 link changes, 1 reconnect, 1 refusal | no flicker, offline at exit, truth in the end |
| PollCycle | limits 0..2, 2 commands or outside changes, 1 reconnect, 1 fault or restart | `on` gives back what `off` took; broker and UI end on the truth |
| Store | 2 writers, 2 clients, 2 keys, 2 versions | no lost wakeup, no send on a closed channel, nothing vanishes |
| Setup | some 6,600 configurations, 20,000 catalogs; reads of 4 words in 8 addresses, holes of 1 | what is accepted is what was asked for, TLS included; the indexes agree, first definition wins; legal, complete, disjoint and fewest windows, and a failed one costs its own; controls write what they show, entities show what is read or computed |
| ConfigSpelling | the same configurations | *violation*: a key in lower case suppresses its default but is not bound |
| Values | words of 5 bits, every word or every edge, 2 logged values | what is shown is what the words say and can be written back from the web UI, the broker and Home Assistant; nothing wraps, no fault hides, no formula guesses |
| Lifecycle | 2 goroutines, policy `always`, 1 restart, 2 failures, with and without the web UI | the daemon exits from every stage, with an honest status, after a last word unless killed |
| LifecycleSystemd | policy `on-failure`, 1 restart | *violation*: under the unit that `install.sh` writes, a honoured restart command is a stop |

Why the bounds are enough: a queue of one or two is full at once, so every path
through `enqueueWrite` is taken; three producers are one more than its drop
loop can tell apart; two tries distinguish first, last and middle failure from
success; one fault, one restart or one reconnect at any point is where the
order of two steps matters, and two observers are what a stale observation
needs. Counters that would grow without limit (`MaxConnects`, `MaxBirths`,
`MaxFlips`, `MaxFaults`, `MaxCommands`, `MaxVersion`, `MaxRestarts`,
`MaxFailures`) are bounds of the model and guard the environment's actions only.
In Lifecycle two goroutines are one that has ended and one that has not. Deadlock
checking is off where the system may stop: a stopped daemon, an exhausted
environment, a file that has been read. BatteryMode never stops and is
checked for deadlock.

## Fairness

Only steps a runnable goroutine takes are fair: the worker, a producer inside
its call, a publish pass, the connect hook, recurring polls and ticks. Go's
scheduler and the tickers justify weak fairness. Nothing forces a command to
come, a link to break or mend, a client to give up or the daemon to stop; the
liveness properties say what they need of those (`<>[]` of a link that stays
up). evcc is not ours to schedule either: that it falls silent and time passes
(`Silent`), or that it re-sends one mode within the timeout (`Steady`), are
premises of `Released` and `Converges`, not fairness of the specification. Failures are bounded by a
budget, so none of them repeats for ever - except in Lifecycle, where an attempt
to reach a peer may fail for ever. There a goroutine's select may
have both a tick and the context ready; Go picks at random, which is strong
fairness of `Leave`: it does not lose the draw for ever.

## Limits of the properties

Some properties name what they assume, because without it the code breaks them:

* `Announced` and `Delivered` (Discovery) except a generation that moves after
  a pass's last check: between the comparison at `coordinator.go:982` and the
  store at 988 a reconnect's or birth's clearing of `discoverySent` is
  overwritten, and the new connection is taken for announced.
  The comment at 654-657 says that a birth cannot be lost there.
* `Truthful` (Availability) assumes that no live link refuses a publish: a
  fresh runtime is at level 1, so if its announcement of 1 is refused, later
  `SetConnected(1)` calls are no transition and nothing repeats it.
* `NoFlicker` speaks of steps at which every observation in hand says up; what a
  stale one does is left to `Truthful`, which says that it does not last.
* `OfflineUnlessReconnecting` excepts a connect hook still running when the
  daemon publishes its last 0: nothing waits for it, and it announces again.
* `Mirrors` (PollCycle) excepts a replay refused on a live link: the cache
  says published, and an unchanging value is not sent again.
* `Restores` holds once a poll has seen the limit and while it is not set again:
  a limit set after the last config poll, by whomever, is unknown to the switch,
  and `on` writes the older one. A restart forgets the limit altogether.
* `LastWins` is about bursts of the router alone; with a web write dispatched
  inline before the worker starts, a queued older command is written over it.
* `WriteReturns` excepts a stop. `Write` loads `writeWorkerUp` and enqueues
  later, and the worker's select may choose the end of its context over a
  request (`coordinator.go:1112`): a request left in the channel then is
  answered by nobody, and the handler blocks until its client goes away, which
  `web.go:172-174` means to prevent.
* No property asks the republisher to rest: `publishDiscovery` returns at
  `coordinator.go:966` before it sets `discoverySent` when there is no bundle,
  so a document that could not be built is an empty pass every 5 s, although
  the comment at 924-926 says it does not spin.
* `Converges` needs evcc to repeat itself: `normal` sent while `hold` waits in
  the queue equals the mode in force, is dropped, and `hold` is applied.
* `RestoresOwn` and `Released` except a restart in hold or charge (`stranded`):
  the new process believes in normal and remembers nothing, so the watchdog
  never fires and the inverter stays in economic or UPS until somebody sets
  another mode. `evcc.go:29-31` documents it.
* `Reported` excepts a report that the link refused, until the next change or
  restart, and a refused replay, until the next change or connection: nobody
  repeats either.
* `Honoured` speaks of keys under their tags. A key in another case is
  `ConfigSpelling`'s subject: `rawHasKey` ignores case and suppresses the
  default, `yaml.v3` binds exactly, so `hass_birth_gracetime: 30` is accepted
  as 0, where `defaults.go:71-73` says both spellings are the same. A number
  with a fraction is cut toward zero where an integer is wanted, from the file or
  the environment: `MTEC_REFRESH_NOW=10.5` is 10, and half a second of
  `EVCC_BATTERYMODE_TIMEOUT` is 0, which switches the watchdog off. A numeral
  that YAML itself rewrites (an unquoted `MQTT_PASSWORD: 007`) is lost before
  `Load` sees it.
* `NeverPlain` covers the old names of the TLS keys in every case, and the current
  ones as documented; `mqtt_tls` in another case is `AnySpelling`'s subject.
* `ControlsWhatItShows` and `ShownWhereItIsPolled` promise nothing for a key or
  group with a `/`, a register named like a synthetic switch, one without an
  MQTT key, or one whose name is another's key: the loader keeps them, and the
  shipped catalog has none with a command. `ShownWhereItIsPolled` leaves out the
  entities nothing is published for, which the loader lets through: a register
  without an address whose key no formula computes, one with an address under a
  computed key, a zero spelled `00`, a group that is not polled. Two entities under one key withhold
  the whole document.
* `FirstWins` excepts an address noted by an entry that is then skipped
  (`load.go:307`): a usable second definition of it is lost.
* `WriteBack` is about catalogs like the shipped one: writable registers are
  unsigned words, labels are distinct in each language and across both, the
  precision shown covers the scale, and the scale has at most two bits in
  binary, as 1 and 10 have. With scale 100 two binary roundings and a
  truncation make 0.29 write 28. Letter case of tokens, a percentage's own range
  in Home Assistant and a switch that holds neither of its payloads are left out.
* `NothingHidden` ends where the log does: `noteUnmapped` remembers 256 values.
* `LastWord` excepts a refused UNSUBSCRIBE, which is only logged, and a boot
  that `checkCommandDisjoint` refuses with the command plane up. It does not
  see the goroutine of `instance.RunStats`, which nothing waits for. A process
  killed by a signal (`Killed`) has no last word; the broker's will speaks for it.
  A start-up that ends before the serial number is known leaves `Run` with the
  command plane up (`coordinator.go:444`); `LastWord` asks nothing of it, because
  no `set` command is let in without the serial number.
* `HonestStatus` says a failure is behind every 1 and a request behind every 0;
  when a failure races a stop, either status is honest.

## Proofs

TLAPS checks these for every value of the constants that satisfies the
modules' assumptions (sets of commands, observers, writers and clients of any
size, any capacity, any bound, any set of configurations and catalogs). Each
module proves one invariant by induction (AnnouncementProofs one for either
component), to which its theorems are corollaries; what makes it inductive is:

* **WriteQueueProofs** - `TypeCorrect`, `ExactlyOnceHolds`, `InOrderHolds`,
  `TruthfulAnswerHolds`. `ExactlyOnce` is not inductive: the strengthening
  `Custody` adds that a command whose call has not entered the channel has no
  outcome and is not accepted, so that a send cannot put a second copy of it
  there. `Order` adds to `InOrder` that what was ahead of a queued command
  stands before it in the channel or in the worker's hands, and `Truth` adds
  where a superseded or settled command can be. `WorkerShape` ties the worker's
  control state to what it holds. Facts about `Head`, `Tail` and `Append` of a
  channel without duplicates are lemmas of their own.
  `Implementation`: WriteQueue implements CommandPath, from these invariants and
  two more: who waits for a reply has been accepted (`Waiting`), and the
  register holds a command that was written (`Held`). Each group of actions has
  a lemma that maps it to one action of the abstract path or to a stutter.
  `NewestSurvives`: `LastWins`, for bursts of any length over a channel of any
  capacity, if `MaxAttempts > 1`. One drop is enough for a single producer: the
  room it makes is still there when it comes round to send (`Newest`), and
  nothing comes to stand behind the newest command in the channel (`Kept`). No
  run checks `LastWins`.
* **BatteryModeProofs** - `TypeCorrect`, with or without lost answers, and
  `OperatorModeSurvives`: `RestoresOwn` is an invariant if no executed write
  loses its answer. The strengthening `Undisturbed` says what the worker may
  rely on between its read and its commit. `TopicFollows`: `Reported` is an
  invariant, with or without lost answers. `Replayable` says why: the cache holds
  the mode in force unless that is still to be published or was refused, and the
  broker of a live link holds the cache unless the replay is due or was refused.
  The run BatteryModeLostAnswer shows
  that the assumption is needed.
* **AvailabilityProofs** - `TypeCorrect`, `OfflineHolds`, `NoFlickerHolds`.
  `OfflineUnlessReconnecting` needs `Gone`: once the last 0 is out, every
  observer has returned and a hook still running is remembered in `late`; and a
  link that is down has had its will published. `NoFlicker`, an action
  property, needs no invariant: while everybody who holds an observation saw
  the inverter up, no step of any actor can publish a 1 (`OnlyTwo`).
* **PollCycleProofs** - `TypeCorrect`, `RestoresHolds`. `Memory`: the inverter's
  limit is zero or its newest setting; once a poll has seen that setting, any
  cycle that could still overwrite the memory has read it too, so the memory
  and a chosen target are the setting. A change made outside between any two
  steps makes the memory stale and says so (`learned`). `Shape` is the keys and kinds of the
  published values.
* **AnnouncementProofs** - Store and Discovery, which share no variable.
  Store: `TypeCorrect`, `NoWakeupIsLost`, `ChannelsStayOpen` and
  `NothingVanishesHolds`. `Discipline`: a client is subscribed exactly between
  `Subscribe` and cancel, and only a notify in progress has channels left to
  poke, all of them open. `Dated`: no value is newer than the version counter,
  so an update never takes one back.
  Discovery: `DocumentTypeCorrect` and `AnnouncedHolds`. `Announced` looks at a
  daemon at rest; `Grounds` says what a publish pass may rely on at each of its
  steps: a runtime that has declared the document has done so to the broker
  that is there, unless its hook is still to replace it, and a pass whose
  generation is current publishes through the current runtime (`Renewed`).
  `Counted` bounds generations and runtimes by reconnects and births.
* **LifecycleProofs** - `TypeCorrect`, `LastWordHolds`, `HonestStatusHolds`, for
  any set of goroutines and either policy. `LastWord` needs to know which stages
  of `Run` and `run` go together (`Shape`) and when the command plane can be up
  (`Plane`); `HonestStatus` needs that a context is only done, and an error only
  noted, for a reason (`Reasons`). A killed process has a status of its own, and
  only an operator's stop behind it.
* **SetupProofs** - all eight invariants of the run Setup. `ConfigInv` says what
  each stage of `Load` has established about the map it hands on
  (`HonouredHolds`, `NeverPlainHolds`). `CatalogInv` says that the indexes hold
  the same registers, no two of which share a key, an address or an MQTT key
  (`Indexed`), and that whatever is noted as seen was read, and why
  (`Remembered`): `WritesWhereItReadsHolds`, `FirstWinsHolds`. Over such a
  catalog `Covered` says that every window is a legal read that ends with its
  farthest member, that `curEnd` is the last one's end, and that what is left to
  place begins no earlier (`WindowsHold`). `Sparing` is why no division needs
  fewer reads (`FewestHolds`): windows begin and end in order, and the register
  a window begins with could not have been read with the window before it
  (`NoReadCoversTwo`). So to map each window to the last one of any other
  division that begins no later is an injection, and the cardinalities follow.
  Document has no steps: that a control drives what it shows, and an entity
  what is read or computed under its key (`ControlsHold`, `ShownHolds`), follows from `CatalogInv`
  and the lemmas about levels of topics.
* **ValuesProofs** - all five invariants of the run Values, for words, integers
  and mantissas of any width (an int64 wider than two words, a mantissa that
  holds two words), which include the real ones. The invariant is small:
  beside `NeverWraps` itself, registers hold words of their types (`Shape`), what was read is what some
  legal words decode to (`Read`), and every value without a label is logged
  while there is room (`Logged`). The work is in the operators:
  the table of powers of two adds and grows (`TwoToSum`, `TwoToGrows`, by
  least-number arguments, since induction over an operator is out of reach);
  division to the nearest is monotone and off by half at most (`NearestFacts`,
  `NearestMonotone`), and so is rounding to a float (`RoundError`,
  `RoundMonotone`). `FaithfulHolds` needs no more. `NeverWrapsHolds` needs that
  the bound on the payload comes before the product (`ScaleInt`) and that a
  truncated float below the bound is off by less than one (`AcceptedFraction`).
  `WriteBackHolds` rests on `TwoBitsExact`: for a scale of one or two bits, a word
  divided by it and multiplied again is the same word, although both operations
  round. The error of the quotient, times the scale, is at most half a unit in
  the last place of the product (`QuotientExponent`, `ProductExponent`), and it
  is no tie (`NoTie`). Then a value that is shown, and rounded to its decimals,
  spells the same float (`ScaledShown`), and a label of either language leads to
  its own code only (`LabelWritesBack`). `NothingHiddenHolds` is about the bits of
  a code and the masks of the labels (`BitLabels`), over fields of any width, and about codes with and without a label
  (`CodesShown`);
  `NoGuessHolds` about formulas that only read what they ask for.

The assumptions on constants say no more than the code or its libraries fix: a
Modbus address fits its type, a text with a `/` has at least two levels, the
synthetic switches (a literal in `virtual.go`) have keys of their own without a
`/`, a number or a boolean of a configuration is never spelled as the empty
text. Those of Values are about the catalog: the shipped `registers.yaml` keeps
to them (its writable registers are nine `U16` with scale 1 or 10, and every
integer type has the words it needs), the loader does not enforce all of them.
TLC evaluates each of them for the values of every run.

The inductive invariants were checked with TLC on the instances of the runs before
they were proved. Only model-checked are all liveness properties (`WriteReturns`,
`Released`, `Converges`, `Delivered`, `Truthful`, `Mirrors`, `EventuallySeen`,
`Terminates`: the prover does not reason about fairness and ENABLED) and the
three runs that refute a claim. Every invariant and every action property that a
run checks without refuting it is a theorem.

## Not modelled

HTTP routing and rendering of rows, the search for the configuration file, names
and layout of the discovery document's fields, the health check, the Modbus
client's wrapper, the command line tool `mtec-util` and tables of names are
sequential code over data, or pure I/O. `checkCommandDisjoint` compares status
topics with `set` filters, which differ at a fixed level. The external libraries
are environments, not subjects.

## Plan

1. *Done:* WriteQueue with proofs; CommandPath and the refinement with its proof;
   BatteryMode with proofs; Discovery; Availability; Store with proofs;
   PollCycle; Config, CatalogLoad, ReadGroup, Document and their composition
   Setup; Values; Lifecycle.
2. *Done:* proofs for every component: each safety property of the passing runs.
3. *Left:* BatteryMode and PollCycle over CommandPath rather than over their own queue.
