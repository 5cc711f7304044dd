# Formal model of spice-agent

TLA+ modules beside the Go code under `src/`: what its concurrent and durable
parts do, what TLC checks of them on small instances, and what TLAPS proves of
them for every instance.

## 1. The system

spice-agent runs language-model agents. A *run* executes turns inside an
engine, emits an ordered event log, calls tools that may come from runtime
plugins, and can be suspended into a signed snapshot that another process may
import. A daemon hosts runs for clients that come, go and reconnect; a client
finds a daemon through an endpoint record in the user's directory, or starts
one.

| part (source) | module | what makes it hard |
|---|---|---|
| Event log (`event/log.go`) | `EventLog`, `EventStream` | a consumer takes an event while its queue is dropped; eviction against two limits and two classes of events |
| Run kernel (`agent/agent.go`, `prepared_execution.go`, `local_resume.go`) | `AgentRun` | callers of Suspend and Resume meet the turn loop at its boundaries; every event may fail |
| Tool plans, guards and tool events (`stage`, `agent/tool_*.go`) | `ToolDispatch` | a guard is any code: it may keep its continuation, call it twice or on another goroutine |
| Run host, idempotency, run identities (`daemon/run_host_*.go`, `idempotency.go`, `agent/run_identity.go`) | `RunHost` | every step of several can fail, and retries must learn what happened |
| Durable run authority (`daemon/internal/runauthority`) | `RunAuthority` | processes die at any point; a write may fail after it took effect |
| Pending hub (`daemon/pending.go`) | `PendingHub` | four ways to complete a call; bounded watcher queues; fences |
| Session store (`daemon/session*.go`) | `SessionStore` | a reconnect fences everything the old owner holds; any waiter may be cancelled; a missed signal strands a caller |
| Session negotiation (`grpcserver/session_registry.go`, `initialization_attempts.go`, `grpcclient/client.go`) | `Negotiation` | a lost answer is replayed while the first attempt may still run |
| Initialize contract (`engine/v1`, `common/v1`) | `Contract`, `Status` | two sides compute the same agreement from different data |
| Unary calls (`grpcserver/lifecycle*.go`, `grpcclient/session.go`) | `EngineCall`, `Status` | what the caller is told of an operation whose answer was lost |
| Observation streams (`grpcserver/stream_*.go`, `grpcclient/streams.go`) | `StreamLink` | page and tail, flow control, lease, fence, lifetime and shutdown at once |
| Managed client (`client/managed`) | `ManagedStart` | ownership of a daemon that was started and may or may not serve |
| Local client (`client/localclient`) | `LocalClient` | connectors and sessions that close while they are opened |
| Endpoint record (`daemon/endpoint`, `userstorage`) | `Endpoint` | three advisory locks, one file, crashes |
| Runtime plugin host (`plugin/host/host.go`, `recovery.go`) | `PluginHost` | activations supersede each other while a crash, a recovery and Close are in progress |
| Plugin candidates (`plugin/host/launcher.go`, `candidate.go`, `remote_tool.go`) | `PluginLink` | what is known of a call when its process is gone; containment before release |
| Plugin protocol (`plugin/v1`) | `PluginContract` | truncated and damaged records; limits negotiated from two sides |
| Plugin sockets (`localendpoint`, `localipc`) | `LocalIPC` | cleaning an address without taking another's socket |
| Verified executables (`process`) | `Executable` | a file that others rewrite while it is checked and copied |
| Logging (`logging/processor.go`, the observer of `event/event.go`) | `AgentLogging` | counters under two locks, a consumer that must not miss a drop |

`PROJECT.json` lists every part with its status, and every hazard at its line.

## 2. How the modules correspond to the code

One action is one critical section of the component's mutex, or the code a
goroutine runs between two of them when it touches shared state. A goroutine is
a record with a program counter (`at`, `pc` or `phase`); what it read under a
lock and uses after it is in that record. Contexts are cancelled at any point.
Error values, identities, encodings and times are left out unless a property
depends on them. Each module begins with the abstractions that are its own.

* `EventLog`: `entries`, `bytes`, `lastSequence`, `closed` are the fields of
  `Log`; `sub` holds a `Subscription` with its delivery goroutine (`loop`,
  `select` on the channel send, `sent` but not yet locked again, `done`).
  `EventStream` is what a consumer may rely on: an ordered stream without gaps
  that ends cleanly only when everything was delivered.
* `AgentRun`: `run` are the fields of `Run` under `stateMu`, `exec` the
  goroutine that executes it, event by event; `todo` are the failure events owed
  on an error path. `log.open` counts starts minus terminals. The model begins
  with the result of `PrepareStart` or `PrepareResumeSnapshot`. A cancelled
  `Suspend` resumes whatever boundary the run is at, as the code does.
* `ToolDispatch`: one round of tool calls under one plan lease; `guard` holds
  the frames of nested guards, `effects` what really ran.
* `RunHost`: `call` are goroutines in a mutating method, `ledger` the
  idempotency entries, `run` what the host holds of a run, `effects` what was
  really done. Authority, kernel and hub appear as the host uses them.
* `RunAuthority`: `disk` and `lock` are shared by all processes, `store` is the
  memory of one and dies with it. A write is `written`, `late` (an error although
  the record was replaced) or `lost`. A signature is what it binds.
* `PendingHub`: `part` is a client's partition, `caller` a goroutine in
  `Request`, `observer` a subscription with its delivery goroutine.
* `SessionStore`: `gate` is the `sessionState` of a client, `call` a goroutine
  in `AcquireMutationCommit`, `acquireStream` or `ReconnectContext` and then the
  lease it returned. A waiter is `asleep` on the change channel it read under the
  lock; `Signal` wakes the client's sleepers.
* `Negotiation`: `caller` is `Connector.Initialize`, `handler` one RPC on the
  server, `reg` the registry with its attempts and gates, `store` the session
  store reduced to its epochs.
* `Contract` and `PluginContract` follow one exchange through the functions of
  both sides, over the cases listed in `ContractCases` and
  `PluginContractCases`. `Status` holds the well-formed statuses and the typed
  errors made of them.
* `EngineCall`, `StreamLink`: one RPC or one stream from the caller through an
  unreliable transport to the handler and back.
* `ManagedStart`, `LocalClient`, `Endpoint`, `LocalIPC`, `Executable`: the
  operating system answers as its interface allows, each failure a *fault*, whose
  number is bounded.
* `PluginHost`: `gen` are the generations by sequence number, each standing for
  its candidate set; `host` the fields under `host.mu`; `act` the goroutines in
  `Activate` and the recovery controller, which share `stage`. `PluginLink` is one
  candidate with its process, calls, health observer and closes.
* `AgentLogging`: `box` is the mailbox, `stats` the processor's counters, `cons`
  the consumer, `watch` the snapshots, `seen` a history of what was offered and
  told.

`EventLog`'s subscriptions, `SessionStore`'s epochs, `RunAuthority`'s records and
`AgentRun`'s kernel are used by `StreamLink`, `Negotiation`, `RunHost` and
`EngineCall` in a reduced form: each of those modules says which of the other's
operations it keeps.

The operators called *Mutant of X* are defective variants of an operation; no
specification uses them. Each shows that a property can fail.

## 3. Runs

The passing runs put several modules beside each other: `focus` says which one a
behaviour is about and the others stand still, so the states of a run are the
sum of its parts and not their product. Each `...MC` module instantiates the
components with small sets.

| run | parts and bounds | shows |
|---|---|---|
| `plugin_system` | host: two activators, one lease holder, two retained and two staged generations, two recovery attempts, two Close calls; link: two calls of a read-only and a mutating tool, one slot, two closes, one fault | generations have owners, publications are current, a candidate is contained before it is released, callers are told the truth about effects |
| `session_system` | store: one client, three callers, two waiters, two streams, three epochs; registry: two peers, two clients and one fault, with two attempts and two calls, and with one attempt and three calls | gates sound and matched by their callers, reconnects fence, attempts mutate once |
| `run_system` | authority: two processes with two transactions each, two payloads, three generations; host: two calls, two operations, one slot; hub: two askers and two observers with one queue entry, with two runs and with one run and one more revision; tools: two calls, guards two deep, two attempts | owners know the durable record, history is one, executions are authorized and answers true, views and counters exact, tools only under guards |
| `edge_system` | ten parts, each with one or two of everything and one or two faults; streams of two items, and of one item with a fault | what the two sides of each edge believe of each other is true |
| `agent_system` | run: two turns with one tool call, two callers of Suspend, one local resume, one interaction; host: two calls of one operation; plugins: one activator, one lease holder | runs are accounted for and quiet after the end; requests, host calls, closes and recoveries end |
| `daemon_progress` | log: one consumer, a log imported at sequence 1 and up to five, window of 4 events and 6 bytes, queue of 2; two callers of the store; hub with two observers; mailbox of one | the log is exact and implements `EventStream`; subscriptions end, reconnects are decided, drops are told |
| `link_progress` | two callers of Initialize; two managed callers and two shutdowns; one stream | every Initialize returns, managed calls and streams end |
| `event_log_clean_completion`, `plugin_host_recovery_armed`, `run_authority_retry`, `agent_run_event_pairs`, `managed_start_terminal` | the same modules, smaller | findings 1 to 5 |

The bounds are the smallest at which every action fires and each conflict has
all its parties: an evicting append needs a window smaller than the sequence, a
fenced reconnect needs a commit holder, a stream and a queued waiter, a
superseded activation two activators and a generation to lose, a failed recovery
and its retry two staged generations, a stale snapshot a second generation and a
second transaction, a second suspension a second turn and a second caller, a
replayed attempt two RPCs and a lost answer. Calls, faults, offers and sequence
numbers are bounded by the constants `Max...`; a component that has used them up
stops, and closed hosts, stores and finished runs stop too, so deadlock is not
checked. Symmetry is used in the runs of safety properties only, over sets of
model values that no module tells apart (activators, processes with payloads and
slots, peers, attempts).

### Fairness

Weak fairness of a goroutine's own steps is the Go scheduler's. Beyond that:
`EventLog` assumes nothing of consumers (`SubscriptionsEnd` states its condition
itself); `SessionStore` assumes that holders close leases whose stream context
was cancelled and that commits end; `PluginHost` assumes that staging and
cleanup end, both of which run under deadlines, and that leases are released;
`AgentRun` and `RunHost` assume that providers, tools and brokers return once
their context ended, and that whoever holds a paused run or a prepared local
resume decides it, which the comments of both types demand; `ManagedStart` and
`Negotiation` assume that a timeout that is set fires; `StreamLink` that a
transport that is hung up fails both ends. No fairness is assumed of
cancellations, crashes, new calls, reads or responses. In the composed runs the
fairness of the part in focus is the premise of its property, and properties of
the form "it always comes to an end" are stated as `[]<>` of the states in which
nothing is left to do.

## 4. Findings

1. *A clean end that lost its tail* (`event/log.go:598`). A context cancelled
   after `Close` makes the delivery goroutine leave with events queued, and
   `Wait` still returns nil.
2. *A crash that recovery never sees* (`plugin/host/host.go:323`). A candidate
   that stops after its generation was published and before that `Activate` ended
   is marked unhealthy while scheduling is suppressed; a successful end schedules
   nothing and a marked generation is never scheduled again.
3. *A retry past the uncertainty fence* (`runauthority/store.go:277`). `Start`
   and `PrepareImport` look at the fence before they own the run's lock and not
   again under it. `HistoryIsOne` still holds: the record on disk decides.
4. *A start without its terminal* (`agent/agent.go:892`). A run cancelled
   between the end of a model stream and `ModelCompleted`, or before
   `TurnCompleted`, leaves `ModelStarted` or `TurnStarted` unended, against RFC
   0002. Runs, tools and interactions are always ended.
5. *A non-retryable join that is repeated* (`client/managed/managed.go:257`).
   After a join that may not be repeated, a later `Initialize` that proves the
   daemon absent finds the retained candidate exited and cleans it up again.

## 5. Proofs

Everything below is proved for every value of the constants that satisfies the
assumptions named with it, which TLC evaluates for the instances it checks. Each proof module
states an inductive invariant `IInv` that implies the property, proves that the
initial states satisfy it, has one lemma per action, and combines them in the
theorem.

### `SessionStoreProofs`

- `GatesStaySound` (`Spec => []GatesAreSound`): types and the last epoch; a
  lease belongs to the current epoch; at most one commit; a sleeping caller is
  blocked by the state it would see; the store reports drained only when nobody
  is inside.
- `ReconnectsAreFences` (`Spec => ReconnectsFence`): an epoch changes only by a
  reconnect that named it, when no lease of it is left; no lease is granted past
  a registered reconnect or past the head of its queue.

Assumed: the bounds are natural numbers, at least one epoch, and `None` is not
a caller (`BoundsAssumption`). `IInv` adds `Registered`: what a caller's local
state says of the gate (`Fits`: a waiter is in the queue of its kind, a holder is
the active commit or among the streams). Two lemmas carry the argument for
everyone else: `UnsignalledStep` (nobody is woken, so whoever sleeps must still
be blocked) and `SignalledStep` (everybody of the client is woken, so nobody
sleeps). Lemmas about `Dequeue`, `Append` and `Tail` say which members a queue
keeps; `GrantMoves` and `GrantedBy` say which steps can grant a lease at all.

### `SessionGateProofs`

- `GatesMatchCallers` (`Spec => []GateMatchesCallers`): the two queues, the stream
  waiters, the active lease and the stream set of a gate hold exactly the callers
  that wait and hold, each once, and neither capacity is exceeded.

Assumed: `BoundsAssumption` only; there may be infinitely many callers, and that the
counted sets are finite is part of the invariant. `IInv` states the property
caller by caller: `InPlace` relates one caller to one gate, so a step has to be
examined only for the caller that takes it (`OneMoves`, `TokenStep`) and for the
others it wakes, whose tokens stay (`SignalAlike`). `Bounded` is about the gate
alone: queues without repetition and the two capacities. `Sound` says what a
caller's record excludes by itself, for instance that one past its check is a
reconnect that still waits. `DequeueExact`, `AppendExact` and `TailExact` say that
a queue without repetition stays one and loses or gains exactly one token.

### `RunAuthorityProofs`

- `RecordsStayKnown` (`Spec => []RecordsAreKnown`): an owner without an
  uncertain write holds the lock alone and knows the durable record; an issued
  snapshot stays the record until it is left; generations stay in range; a store
  closes exactly after its last lease.
- `HistoryStaysOne` (`Spec => HistoryIsOne`): records move forward only, a
  tombstone is final, a snapshot is continued at most once.

Assumed: at least one generation (`GenAssumption`), `None` is neither a
transaction nor a payload (`NoneAssumption`), and a process has finitely many
transactions (`SlotsAssumption`), since leases are counted. `OwnerKnowsRecord` and
`IssuedIsDurable` are strengthened by the shape of handles that have no lock yet
and by `ContinuedIsPast`: the record of a continued generation `g` is at least
active at `g + 1`. The weaker "its generation is larger than `g`" is not enough,
because a consumed import is at `g + 1` before it is activated. `Later` is the
order in which one record may follow another; it preserves `Durable` and `Past`,
so one lemma, `OwnedStep`, serves every write. A second invariant, `LInv`, says
that the counter of leases is the number of open transactions; every action
opens one, closes one or leaves the set alone.

### `AgentRunProofs`

- `RunsAreAccounted` (`Spec => []RunIsAccounted`): a suspended run stands at its
  boundary with no interaction active; the plan lease, the engine's entry and the
  identity follow the run and are given back at its end; every committed start of
  the run, of a tool and of an interaction has its terminal unless the log refused
  an event, and in a run that completed those of turns and models have too.
- `SettledRunsAreQuiet` (`Spec => QuietWhenSettled`): after the terminal event, in
  an aborted preparation and between suspension and resumption no event is
  committed.

Assumed: at least one turn (`TurnsAssumption`), `None` is nobody
(`NobodyAssumption`) and an interaction is not one of the names of the other
spans (`SpansAssumption`). `IInv` has seven parts. `Placed` makes the place of the
goroutine determine the preparation, its gate, the lease, the engine's entry and
the identity. `Stands` is what keeps a standing run still: it is parked or its
resume was latched, a prepared local resume is exactly the status
`resume-pending`, and nothing revives a run that is ending. `Active` equates the
set of active interactions with the goroutines inside `Interact` and confines
them to a run that is not finalized; without it an interaction could commit
after the terminal event. `Begun`, `Spanned` and `Talked` give the number of open
starts of each kind at each place of the goroutine, including how many failure
events an error path still owes. That a turn or a model may stay open (finding 4)
is visible in `Spanned`: it says nothing of them in a run that leaves without
completing. `Wrote` describes an append that is accepted, refused or not tried, so
each action is examined once for all three.

### `ToolDispatchProofs`

- `ToolsRunUnderGuards` (`Spec => []ToolRunsUnderGuards`): a tool executes only
  inside its dispatch, under a lease that is not being released and with every
  guard's continuation invoked; a dispatcher executes at most once per entry.
- `RecordsStayTrue` (`Spec => []RecordsAreTrue`): one start and one terminal per
  call; the facts in a terminal are those the tool returned, and agree with the
  tool's definition about retry and outcome.
- `ReleaseStaysOne` (`Spec => []ReleaseIsOne`): one release callback, one answer to
  all callers.

Each has the hypothesis `Depth \in Nat`: the number of guards is any number, where
TLC has two. Nothing is assumed of tools, plans, IDs or `None`. A guard may answer
anything, keep its continuation, invoke it twice or let it run on after the guard
returned, and decorators may dispatch again; the invariant says what survives
that. `Stacked` is about the activations at once: whatever runs below a guard,
however deep, runs while that guard's continuation does. The relation between
neighbours alone would need an induction over the depth. `Counted` says that a
continuation that is still open leaves an execution to be made, which bounds
executions by entries. `Answering` follows the facts of a failure from the tool
through every guard to the terminal event: an answer carries none or those
`Execute` returned for the active call. `InRound` says which calls of the round
have which events and that every other ID is settled; `Serving` ties the lease to
the run until its release.

### `AgentLoggingProofs`

- `AccountsBalance` (`Spec => []LogAccountsBalance`, where `None` is not a
  watcher): each offered event is refused, filtered, dropped, waiting, in hand,
  suppressed or processed, and in one account only; each processed event and each
  report of drops is one record; a snapshot that says closed is final.

`IInv` adds the order of Close (mailbox, consumer, accounts), that reports exist
only once a drop was seen, and that a snapshot that holds the lock between its two
reads already has the final first half.

### `EventLogProofs`

- `LogIsStream` (`Spec => LogImplementsStream`): the refinement of `EventStream`.
- `CursorsStayExact` (`Spec => []CursorExact`): when a subscription is over, its
  `LastDelivered` and the cursor in an exhaustion error name the last event its
  consumer took.
- `NothingIsSkipped`: the window ends at `lastSequence` without a gap, and a live
  queue continues the cursor up to it.

Assumed: nothing of the constants beyond `ValidLimits`, the conditions that
`NewLogAfter` checks and that `Init` states. `IInv` is `Window` (the
retained entries are numbered consecutively and end at `lastSequence`) and, for
each consumer, `Sound`, which says what a subscription may hold in each state of
its delivery goroutine (`Holding`). The entry in the goroutine's hand is still at
the head of the queue until the cursor moves, and a receive and a cancellation can
both be ready; `Holding` relates hand, queue, cursor and consumer for those
points. For the refinement one lemma per action shows that the step maps to
`Publish`, `Close`, `Take`, `CatchUp`, `Reset` or `End` of the stream or to a
stutter. Which
entries are evicted depends on the sum of the encoded sizes, a fold over a
sequence; nothing of it is needed.

### `PluginHostProofs`

- `GenerationsStayOwned` (`Spec => []GenerationsAreOwned`): leases are counted
  exactly and a leased generation is owned and not being cleaned up; the current
  generation is owned, available and runs the desired set until Close; a recovery
  episode is about the current generation and somebody serves it; a host that
  reported a successful Close has no generation, lease or activation left.
- `PublicationsStayCurrent` (`Spec => PublicationsAreCurrent`): what becomes
  current was staged and runs the same set or a later one; the last explicit
  activation to fail leaves an unhealthy current generation with an episode.

Assumed (`HostAssumption`): finitely many activators and lease holders, the
controller is not an activator, `None` is neither an actor nor an episode, and the
bounds are natural numbers. `IInv` has six parts, each an operator on the
variables it reads: `Typed`; `Leased` (the counts, and a cleanup only of an owned
generation); `Staged` (every staged generation belongs to exactly one goroutine,
which has its revision, the activation token is that of the goroutine that is
starting candidates, and later generations are untouched); `Current`; `Episode`;
`Stopped`. Two of them are stronger than the property for a reason. `Episode`
says that an episode *matches* as long as it exists (no explicit activation, same
generation, set and revision), so an attempt that finds its episode gone cannot
leave another one unserved, and that the backoff of an attempt is interrupted
only by whoever took its episode away. `Staged` is what makes a successful Close
final: when nobody stages, nothing is staged. Frame lemmas (`LeasedFrame`,
`StagedKept`, `StagedLeft`, `EpisodeFrame`, ...) carry the parts a step does not
touch; `Scheduled` and `Queued` are the lemmas about `Schedule` and
`QueueCleanup`.


### Only model-checked

Every liveness property (`SubscriptionsEnd`, `RequestsEnd`, `HostProgress`,
`PluginsProgress`, `SessionsProgress`, `HubProgress`, `DropsAreTold`,
`EveryInitializeReturns`, `ManagedProgress`, `StreamsEnd`): liveness under
fairness is outside what the provers do here. The agreements of `Contract` and
`PluginContract` are functions checked over listed cases. The parts of
`LogIsExact` that bound the window and the queues in bytes are sums, folded over a
sequence, which the provers cannot reason about by induction. The safety
properties of `PluginLink`, `RunHost`, `PendingHub`, `Negotiation`, `EngineCall`,
`StreamLink`, `ManagedStart`, `LocalClient`, `Endpoint`, `LocalIPC` and `Executable`
have no theorem: TLC checks them within the bounds of section 3. The findings are
counterexamples, and what they refute has no theorem either.

## 6. Not modelled

The parts listed as `not_modelled` in `PROJECT.json`, each with its reason:
validation and encoding of values, authentication and wire conversion (no
state), health and descriptions (reads only), process launching and the Windows
platform (operating-system calls; the Unix side is modelled through what its
callers rely on), generated code, fixtures, tooling and experiments.
