# gori in TLA+

Specifications of [gori](../src/README.md), a Go library and command for LLM
agents: the agent loop, multi-agent orchestration, the A2A (agent-to-agent)
task server, an event bus inside a process and over the network, MCP over
JSON-RPC, the adapters to model providers, and the configuration that ties them
together.  The modules are translated from the Go source; `PROJECT.json` names,
for every definition, the lines it stands for.

    tlc -workers 2 -config MCTaskBroker.cfg MCTaskBroker.tla      # model-check
    tlapm TaskBrokerProofs.tla                                    # check proofs

## 1. The system

| Component | State | Operations | Called by, calls |
|---|---|---|---|
| **Task store** `a2a/taskstore.go` | `tasks`, `inFlight`, `brokers`, `terminalAt`, `seq`, all under one mutex; a WaitGroup | `Send`, `SendStream`, `SendAsync`, `Subscribe`, `Get`, `List`, `Cancel`, `Shutdown`; eviction inside each begin | the HTTP and gRPC bindings; runs a `Handler` on a context it can cancel |
| **Task broker** `a2a/taskstore.go` | replay buffer, subscriber channels, `done`, an overflow flag per subscriber | `publish`, `close`, `subscribe`, unsubscribe, `emitFinal` | one goroutine publishes, any number of `Subscribe` calls read |
| **gRPC binding** `a2a/grpc` | none of its own | `SubscribeToTask`, `SendMessage`, `SendStreamingMessage`, `ListTasks`, ..., and a client that reassembles a streamed text | the store |
| **HTTP binding** `a2a/server.go`, `a2a/client.go` | none | JSON-RPC methods, SSE framing, `AgentHandler`; a client with the same assembler | the store; a clone of an agent |
| **Network bus** `netbus/hub.go`, `netbus/client.go` | hub: event ring with numbers, subscribers, shutdown flag. Bridge: last number seen | publish, subscribe with replay, `CloseAll`; bridge, reconnect | bridges connect a local `Bus` to the hub |
| **In-process bus** `bus.go` | subscriptions, closed flag, drop counter | `Subscribe`, `Publish`, `Close` | agents publish, observers and bridges read |
| **Agent** `agent.go`, `session.go`, `tool.go` | session history, usage; the registry of tools | `Run`, `Stream`, `Clone`; `Append`, `Trim`, `History`, `Save`, `Load` | a provider; tools; the bus |
| **Orchestrator** `orchestrator.go` | agents, roles, usage of delegations | `Add`, `WireDelegation`, the delegation tools | runs clones of sub-agents as tools of the main agent |
| **JSON-RPC** `internal/rpc` | client: pending calls, closed flag. Server: semaphore | `Call`, `Notify`, read loop; `Serve` | `mcp` |
| **MCP** `mcp` | the child process, initialisation | `ListTools` (paged), `CallTool`, `Close` | JSON-RPC |
| **HTTP retry, SSE** `httpretry`, `internal/sse` | none | attempts with back-off; byte and line scanner | providers, bridge |
| **Configuration** `config.go`, `cmd/gori/config.go` | a JSON file of providers, agents, servers, remote agents | `gori config ...`, `Validate`, `Load`, `Save` | the command; `internal/build` makes agents and teams of it |
| **Providers** `provider/*` | none | `Complete`, `Stream` | external services, command line programs |
| **Command** `cmd/gori/main.go` | the goroutines of a run | `--orchestrate`, servers, MCP servers | everything above |

What is hard in it:

* *Interleaving.*  The store's calls run on goroutines of their own; a `Cancel`,
  a `Shutdown` and the handler's own end race for a task's outcome.  A
  subscriber joins while events are published.  Parallel tools finish in any
  order.  An RPC answer races the time-out of its call and the end of the read loop.
* *Bounded buffers that never block the writer.*  The broker, the hub and the bus
  drop for a reader that does not keep up; what it is told then is the interesting part.
* *State read under one lock and used under the next.*  `SubscribeToTask` reads
  the store three times, the hub registers a subscriber before it reads the ring,
  the RPC read loop sends on a channel after it has let go of the table.
* *Unreliable connections.*  A bridge reconnects and resumes; the hub forgets
  its numbers when it is restarted; an answer breaks off half way.
* *Partial failure.*  Provider calls, attempts, tools, sinks, posts and the start of
  a team fail half way through.
* *Ending.*  `Shutdown`, `CloseAll`, `close`, `Serve` and the command's exit must reach
  everything that waits, and what comes while they run.
* *Foreign formats.*  What a provider streams comes in fragments whose order the
  adapter does not choose, and what it is sent must be what its API accepts.

What makes each part correct, in a sentence: a **store** gives each task one
outcome, tells it to every caller, and evicts no task that is busy; a **broker**
gives every subscriber a gapless stretch of events and ends every stream; a
**binding** returns a whole answer or an error; a **hub** and its bridges lose only
what the hub gives up, and repeat nothing; a **bus** never sends on a closed channel,
and every event of a run is delivered or counted; an **agent** asks its provider only
well-formed histories and comes to an end; an **orchestrator** accounts for every
delegation; an **RPC client** gives every call its own answer, once, or an error;
an **adapter** keeps the turns of a conversation, and tells its callback what it then
returns; a **retry** closes every body and waits no longer than allowed; the
**configuration** always loads, and what loads can be built.

## 2. Modules

    TaskFeed            what a broker promises (abstract)
    TaskBroker          the broker, its publisher, Subscribe calls   -- implements TaskFeed
      SubscribeClient   the text a gRPC client makes of the events
      TaskBrokerProofs
    TaskStore           the store: calls, Cancel, Shutdown, eviction
      SubscribeToTask   the gRPC handler beside a running store
      TaskStoreProofs
    NetHub              the hub and its bridges;  NetHubProofs
    Requests            what an RPC client and a server promise (abstract)
    JsonRpc             both, over pipes, with mcp's Close           -- implements Requests
    EventBus            the bus and the orchestrator command;  EventBusProofs
    HttpRetry           one provider call over HTTP
    Exchange            one A2A message over HTTP or gRPC
      CallProofs        of JsonRpc, HttpRetry and Exchange: one call and its answer
    Wire                what the adapters send of a conversation;  WireProofs
    ProviderStream      what they make of a streamed reply
    SseScanner          bytes to lines to events
      StreamProofs      of both (on the lemmas of WireProofs)
    Config              the file, the commands, starting a team
    Session, AgentLoop  the agent's loop over its session, with delegation
      AgentProofs       of Config and AgentLoop
    MC*                 the instances that are model-checked

**TaskBroker.**  `log` is everything ever published (history); `buf`, `live`,
`done` are the broker's fields; per subscriber, `todo` is what is left of the copy
of the buffer, `chan`, `shut` and `overflow` its channel, `got` and `coda` what its
sink was given from the stream and from `emitFinal`.  `publish`, `close`, `subscribe`
and the unsubscribe function hold the broker's mutex and are one action each; the
task's goroutine goes through `AnnounceWorking`, `EmitDelta`, `FinishWithout` or
`EmitLastChunk` and `AnnounceCompleted`, `Close` and `FinishAsync`; a `Subscribe`
call through `Lookup`, `Attach`, `Replay`, `Receive`, `Finish` or `FinishSlow` and
`Unsubscribe`, with a failing sink and a canceled context at every point the code
looks at them.  An event is a status or an artifact; its position stands for its text.

**TaskFeed** knows no buffer, channel or lock.  A reader joins at some position,
reads on without a gap, and is sent away at the end of a sealed feed or where it
was cut off, which takes `Lag` unread events.  `TaskBroker!Feed` maps the broker to
it: `seen` is `got`, and a reader was cut off where its channel ends.

**SubscribeClient** is a pure function from the events sent to the text returned
(`Assembled`): the lastChunk artifact if there is one, else the chunks.

**TaskStore.**  One element of `Tasks` is one call with the task it creates: begin
(with eviction), for an asynchronous call the listing of the broker and the
counting of the goroutine (two further steps, as in the code), the handler's
return, the report, the end.  `Cancel`, `ShutdownCancels` and `ShutdownReturns` act
beside them.  The clock ticks `Second` times a second.  What the store keeps of a time is
an RFC 3339 stamp, which has no fraction (`Timestamp`); the cutoff for `MaxAge` has
one, so a task may be evicted up to a second early.
Eviction for `MaxTasks` sorts by an unstable order, so among equals any choice is
allowed.  `SubscribeToTask` adds the gRPC handler's three reads.

**Exchange** is one message of an A2A client: sent or streamed, over either binding,
to this server or a foreign one.  A foreign server does what this one never does: it settles a task
more than once, with a text, a status message, both or neither (`ForeignSettles`), sends the last chunk
of an artifact as one to be appended or an empty one (`ForeignFinishes`), answers with a message or with
nothing (`ForeignAnswers`).  The two bindings read a task differently (`TaskText`): the HTTP client falls
back to the status message's text, the gRPC client does not.  `Begins`, `Makes`, `HandlerFails`, `HandlerAnswers`
are the handler and its sink, with the store cut to the one task, and another client
that `Cancels` it; `wire` is what the client has still to read, `Breaks` cuts it;
`ReadEvent`, `ReadResponse` and `ConnectionLost` are the client with its
`StreamAssembler`.

**NetHub.**  `Accept` (number and ring, one lock) and `Broadcast` (subscribers,
another lock) are the two halves of a publish under `Hub.pub`; a stream goes
`requested`, `added`, `live`, `returned`.  A bridge reads one stream at a time
(`Read` holds its two filters: numbers not above the last, and its own origin),
reconnects with `Connect`, and posts what its bus carries with `Forward`.  `wire` is
the connection: a write stalls when it is full, and a break loses what is in it.

**EventBus.**  `Publish` takes the read lock, makes one `Offer` for each subscriber and
`Unlock`s; `Subscribe`, `Unsubscribe` and `CloseBus` need the lock free (`Locked`).
Around it is `gori --orchestrate`: the printer (`Trace`), the bridge (from `BridgeBegins`
to `BridgeEnds`), and the command itself, which closes the bus when the run is over,
waits for the printer, and for the bridge until a timer fires.

**JsonRpc.**  A message is the number of its call.  A call is `new`, `writing`,
`waiting`, `done`, with a writer of its own; the read loop's look-up (`Match`, under the
lock) and its send (`HandOver`, without it) are two steps.  The server reads, takes a
slot (`Dispatch`), and on the end of its input goes through `GraceEnds` and `Unwound`.
`Close`, `Kill` and `Reaped` are `mcp.Client.Close`.  The child may `Crash`, a foreign one
may repeat its answers (`Noise`).  **Requests** has none of that: a call is asked,
carried out at most once, and returns once.

**HttpRetry.**  `Call`, then `Fails` or `Responds`, `Decide`, `Elapsed`, as often as the
policy has attempts, then `Post` (bad statuses become errors) and `Consume`.  `Wrapped`
is Go's arithmetic on a `time.Duration` of `Width` bits.

**Wire** and **ProviderStream** are the two directions of the adapters.  In `Wire` a
session grows by turns, may be saved and loaded, and each adapter turns all of it into
messages (`AnthropicWire`, `OpenAIWire`, `GoogleWire`, `CliWire`).  In `ProviderStream` frames come in
the order a vendor sends them, `Emit` gives events to a callback that may fail, and
`StreamEnds` returns the message `Assembled`.  A fragment is the number of its frame.  The message is not
always what was told: Anthropic's adapter puts `{}` for a call's input that is empty or not JSON
(`BlockContent`; `valid` are the calls whose input is JSON so far), and the CLI's returns its output
`Trimmed`, though it has told all of it.

**SseScanner** reads a stream byte by byte (`ReadByte`, `EndOfLine`, `AtEnd`); `Events` is the
definition it is held against.

**Config.**  A command reads the file, changes what it read and saves it: `WriteTemp` and
`Rename` are two steps, and it may die at any point.  `Edit` saves a draft, lets an editor
write it, checks it and moves it.  `StartAgent`, `StartTeam` and `ServeTeam` load the file and build what
it names; a team dials its MCP server, lists its tools and is given them
(`Dial`, `ListTools`, `Equip`).

**Session, AgentLoop.**  A message is its role and the numbers of the tool calls it
makes or answers.  A run is `next` (the head of the loop), `asking` (the provider has
the history), `acting` (tools run), and `idle`.  The tools are slots, begun in order
or, with `ParallelTools`, all at once; a delegation counts the provider calls of its
clone and adds them to the orchestrator's account in a step of its own.

## 3. What is checked

All bounds are constants of the modules.  Deadlock checking is off because every one
of these systems may come to rest: all calls made, all events emitted.

| Run | Instance | Shows |
|---|---|---|
| `broker` | 2 subscribers, buffer 2, channel 2, 2 chunks (5 events) | `Gapless`, `NothingMissed`, `ClosedStreamIsComplete`, `AnswerIsWhole`, `SummaryAfterCloseIsFinal`, `SubscribersReturn`, and that the broker `ImplementsFeed` |
| `store` | 2 calls, `MaxTasks` 1, 1 watcher | `TerminalIsFinal`, `ReportIsTheOutcome`, `BooksAgree`, `CanceledIsInterrupted`, `ShutdownWaitsForCounted`, `LateWatcherSeesOutcome`, `InterruptedTasksEnd` |
| `retention` | 3 synchronous calls, `MaxTasks` 2, 2 ticks a second, `MaxAge` 3 ticks, clock to 5 | `Retention`: who is evicted, by age and by count, to within the second that a stamp is short of |
| `hub` | 1 bridge, 2 streams, ring 1, channel 1, 3 events of 2 topics, one bridged | `CrossesOnce`, `HeardInOrder`, `OnlyExcusedAreMissed`, `EventuallyHeard`, `ShutdownEndsStreams` |
| `parts` | nine components, one after the other | see below |
| `broker_slow`, `shutdown_drains`, `fallback`, `hub_order`, `hub_restart`, `rpc_full`, `config_edit` | | a disagreement each, see below |

The nine components of `parts` share no state.  `MCParts` puts them side by side in one
specification: a first state chooses a component, and only that one steps.  So their
state spaces add up and do not multiply, and each component is explored on its own in
all its interleavings.

| Component | Instance | Shows |
|---|---|---|
| `JsonRpc` | 2 calls, one of them with a handler that never returns, 2 slots, pipes of 1, 1 message of noise | `ImplementsRequests`, `ReadLoopNeverStalls`, `CallsReturn` |
| `EventBus` | 1 agent with 2 events, 1 event of the hub, channels of 1 | `SendsOnlyOnOpen`, `RunIsAccounted`, `CommandExits` |
| `HttpRetry` | up to 4 attempts, durations of 6 bits | `BodiesAreClosedOnce`, `DelayIsBounded` |
| `Wire` | 5 messages, 2 tools | `WireKeepsTheTurns`, `WireIsAcceptable` |
| `ProviderStream` | a text and 2 calls in 4 frames | `StreamTellsTheMessage`, `StreamIsWhole` |
| `SseScanner` | all streams of up to 5 bytes, events of 4 | `ScannerTellsTheStream` |
| `Config` | 3 commands, one may edit, one may start agents | `FileLoads`, `TeamsAreSound` |
| `Exchange` | 3 pieces of text; foreign tasks that settle, fail or go on | `AnswerCrosses` |
| `AgentLoop` | 3 runs, 2 steps, 2 calls, windows of 1 and 3 (of 1 with parallel tools) | `RequestsAreWellFormed`, `TurnsAreWhole`, `DelegationsAreAccounted`, `RunsEnd` |

Why these bounds are enough for the cases that matter:

* *broker*: five events overflow both the buffer and the channel, so that a
  subscriber can join before, during and after trimming and be dropped at any
  point; two subscribers, so that one is dropped beside one that is not.
* *store*: with `MaxTasks` 1 the second begin evicts; the clock stands still, so
  all stamps are equal and every order of eviction is possible.  `retention` has the
  clock, and three tasks, so that there is a choice of whom to evict; with two ticks
  in a second a stamp may be cut down by one, and with `MaxAge` no whole number of
  seconds the cutoff lies within one.
* *hub*: with a channel and a ring of one event, three events overflow either
  and leave a gap.  Two streams are one broken connection and one replay.  Events are
  posted by the bridge and from outside, so that its own can come back to it.
* *JsonRpc*: two calls, so that an answer could reach the wrong one; a handler that
  never returns, so that the drain is needed; pipes that are full with one message.
* *EventBus*: two events overflow a channel of one while a third is offered.
* *HttpRetry*: two doublings of the larger base overflow six bits; policies with no
  attempts, no base or no cap take the defaults.
* *Wire*: five messages hold two replies with calls, so that ids repeat.
* *ProviderStream*: four frames are two fragments of an input with its start and the end
  of the reply, or an output that has white space in front, inside and behind.
* *Exchange*: three pieces are two chunks and a settled text, or a text settled three times;
  there is one foreign state of each kind the clients tell apart.
* *Config*: one command is in the middle of saving while another starts and a third edits.
* *AgentLoop*: a turn is up to five messages long, so windows of one and three fall
  inside it, and three runs let failed turns pile up under a window.  Tools that run in
  parallel leave the same history as those that run in order, and are tried with the
  window of one.

Three properties say less than one would like, because the code does less:

* `Retention` puts bounds of a second around `MaxAge` and around who is the older of two.
* `StreamTellsTheMessage` and `StreamIsWhole` except the white space around a CLI's output and
  the inputs of Anthropic's calls that are not JSON, of which the message has nothing, and so
  never a part.
* `AnswerCrosses` is for this repository's server exact over either binding.  Of a foreign one, a client
  returns what it has `Heard`: of a text whose last chunk was appended to others that
  chunk alone (a2a/client.go:263-266, a2a/grpc/grpc.go:380-383), and over gRPC nothing of a status message.

Each property is paired, in `PROJECT.json`, with a mutant: a changed definition,
such as a dropped guard or a swapped order, under which TLC finds it violated.

### Where the code and its comments disagree

Seven runs check what a comment, a test or the README says and find a counterexample.

* `shutdown_drains` - *`Shutdown` waits for async handlers to drain.*  `SendAsync`
  makes the task known to `Shutdown` in `begin` and counts its goroutine only
  afterwards (taskstore.go:304, 311).  A `Shutdown` in between cancels the task,
  finds nothing to wait for and returns with the goroutine still to be started.
  What holds instead is `ShutdownWaitsForCounted`.
* `broker_slow` - *a dropped subscriber is given the broker's final events.*  If it
  reaches its closed channel while the handler is still running, the latest status in the
  buffer is "working" and its stream ends on that.  What holds instead is
  `SummaryAfterCloseIsFinal`.
* `fallback` - *a stored task yields its terminal state.*  A task with no broker
  (a synchronous call, or an asynchronous one just begun) is reported as "working",
  marked final.  What holds instead is `LateWatcherSeesOutcome`.
* `hub_order` - *the hub delivers in the order of its numbers.*  An event that reaches
  a new subscriber's channel and is pushed out of the ring before the replay is read
  goes out after younger ones; the bridge then drops it.  The instance has a ring
  longer than the channel, as the code has (256 and 64): what is needed is that
  more events are posted in that window than the ring holds.  `OnlyExcusedAreMissed`
  counts such an event as given up, because it has left the ring.
* `hub_restart` - *only replayed duplicates are discarded.*  A restarted hub numbers
  from 1 again, and a bridge discards all events up to its old number.  `Restart` is
  part of `RestartSpec` only; the other runs are about one life of the hub.
* `rpc_full` - *`Serve` returns within a bound after the transport closes.*  With every
  slot taken by a handler that does not return, the loop waits for a slot and never
  reads the end of its input, so the drain does not start (server.go:94).  In
  `mcp-server` under gori's own client the client's kill after `CloseGrace` hides it.
  With a slot to spare the drain abandons the handler, as `parts` shows for the calls.
* `config_edit` - *no command saves a broken config.*  Two `gori config edit` use one
  draft path; the second editor can write between the first one's check and its
  rename (cmd/gori/config.go:237-258).  With one editor at a time the promise holds, and
  is proved (`ConfigBrokenIsNotSaved`).

### Fairness

Safety needs none.  For the liveness properties the specifications assume weak
fairness of what the Go scheduler runs - a goroutine that can take its next step
takes it - and nothing about what the environment may or may not do:

* `TaskBroker`: the publisher and each `Subscribe` call keep running.  A sink need
  not fail and a context need not be canceled.
* `TaskStore`: goroutines keep running, and a handler *whose context is canceled*
  returns.  That is the contract of a `Handler` (`agentHandler` passes the context to
  every provider call); without cancellation it need not return at all.
  `Shutdown`'s own timeout is possible, never necessary.
* `NetHub`: a publish that has begun completes, handlers and receivers go on.
  Nothing has to be emitted, no connection has to break.  The bound on streams would
  let a bridge run out of them, so the last connection does not break and does not
  stall; `EventuallyHeard` is therefore about finitely many failures.
* `JsonRpc`: writers, calls, the read loop, `Serve` and the handlers that are not
  `Stubborn` keep running, and the drain's timers fire.  No context has to end, nobody has
  to close, crash or kill.
* `EventBus`: a `Publish` goes on once it has the lock (it never blocks), the printer and the
  command keep running, the timer fires.  The bridge need not: a post to the hub may never end.
* `AgentLoop`: the provider and the tools return.  The code sets no deadline of its own
  ("deadlines come from ctx").

## 4. What is proved

For all values of the constants, from the named assumptions of the modules: positive
sizes, natural bounds, a finite set of agents; for `Config` that the commands that edit
or start agents are commands and that a draft is a configuration; for `Wire` that hosts and
observers put no calls, results or thinking into a user's message and no provider replies with a
tool's result (`WireAssumption`); for `ProviderStream` that a reply is a sequence of blocks.  Every
safety invariant the passing runs check is stated by a theorem.  The theorems are of the form
`Spec => []Inv` or `Spec => [][A]_vars`, by an inductive invariant; two are refinements.  `OneEditor`,
a hypothesis of two theorems about `Config`, is the only other assumption.

**TaskBrokerProofs** - `BrokerTypeOK`, `BrokerGapless`, `BrokerNothingMissed`,
`BrokerClosedStreamIsComplete`, `BrokerSummaryIsFinal`, `BrokerAnswerIsWhole`,
`BrokerImplementsFeed`.  The invariant is

    IInv == TypeOK /\ BufIsTail /\ Outside /\ Closings /\ Gapless /\ NothingMissed

`BufIsTail` (the buffer is the tail of the log) is what makes the copy taken at
`subscribe` a stretch of the log; `Outside` says that a subscriber that has not
joined holds nothing, so joining starts from scratch; `Closings` ties closed
channels, the overflow flag and `done` together.  `Gapless` alone is not
inductive: that the next event to arrive continues the stream needs `NothingMissed`
(a registered subscriber has everything up to the end of the log).
For complete streams `CompleteInv` adds that the buffer is as full as the log allows, so
whoever joins is given the last event and, in a buffer of two, the one before it; that a finished
task's log ends on a final status; and that a stream stopped by the broker has reached the
end of the log.  The summary needs `LongEnough` besides: a task ends with two events at least.
The answer needs to know what the log may hold (`AnswerInv`): at most one lastChunk artifact, the last
event or the last but the final status, and that status nowhere before the end.  What a client is sent
is a stretch of the log and a summary taken from the same log (`FromLog`), so the lastChunk artifact
it finds there is that one, and who was dropped and told the final status was told it too (`ToldAll`).
For the refinement of `TaskFeed` it is enough to add `DroppedHoldEvents`: a dropped subscriber
had a full channel, so the place it was cut off at is not 0, which stands for "not cut off".
Each action is then one of the feed (a publish is a `Write` that cuts off the full, an end of
the stream a `SendAway`) or a stutter.

**TaskStoreProofs** - `StoreBooksAgree`, `StoreReportIsTheOutcome`, `StoreTerminalIsFinal`,
`StoreCanceledIsInterrupted`, `StoreShutdownWaits`, `StoreRetention`, `WatcherSeesOutcome`.  The
invariant relates each call's program counter to the four maps, its status and the WaitGroup.  The point
where it is needed is eviction: only a settled task that is not in flight goes, so nothing another call
still relies on is lost.  Who goes is settled in the step itself
(`EvictRetains`); what that says of ages needs that a stamp is less than a second short of the time it
was taken at (`TimestampTruncates`).  `WatcherSeesOutcome`
adds the watchers' reads: a task that had a broker when the handler first looked and has none at its
second look is settled, because the broker is unlisted only after the outcome is decided.

**NetHubProofs** - `HubCrossesOnce`, `HubHeardInOrder`, `HubOnlyExcusedAreMissed`, for `Spec`, that is for
one life of the hub.  `OwnAreFresh` and `LogIsOfEvents` say that an event that names no origin is on the bus
of one client only and has not been posted yet, so no event is posted twice; `NoEchoes` that
no bridge has heard what names itself or nobody; `Remembers` that the number a client
remembers is not below any it heard, so the filter on it keeps the order and drops what is
replayed.  Neither the ring, the channel nor the connection matters to the first two: they may
lose and reorder, and the filter makes it good.  They are all that matters to the third.  `MissInv`
says of an event that a client has neither heard nor been excused from that the client has not
passed it and that it is still on its `Way`: no younger event comes before it (`Behind`) on the wire,
in the replay or in the channel, and once the stream is live it is in one of the three, or its
broadcast is still to come.  The invariant needs that the log's numbers are its places and the
ring is in order (`LogInv`), and where each stream is between subscription and snapshot (`StreamInv`).

**EventBusProofs** - `BusSendsOnlyOnOpen`, `BusRunIsAccounted`.  What a `Publish` has still to offer its
event to is registered, and a registered channel is open; nobody takes the lock in between.  For the
account every event is followed from `Publish` to its reader: it is `Pending`, in the reader's channel,
in hand or told, or among the `Unprinted` (`Unposted`), of which there are never more than were counted
lost (or failed).  At the exit nothing is pending and no channel holds anything (`Stands`), so an event
is told or counted.  That what is told is in order needs that all that waits comes after it (`Orderly`).

**CallProofs** - `RpcReadLoopNeverStalls`, `RpcImplementsRequests`, `RetryBodiesAreClosedOnce`,
`RetryDelayIsBounded`, `ExchangeAnswerCrosses`.  The invariant of `JsonRpc` says that the call whose
answer is taken, and every call still in the table, has an empty and open channel: a call is taken out of
the table under the lock before its channel is used, and so once only.  For the refinement it is enough,
besides, that what is in a channel, on the wire or in hand is the number of a call that was carried out;
each action of the code is then a step of `Requests` or none.  Of a call of `HttpRetry`, at most the
response in hand has an open body, and it is given up only together with its close.  For the delay,
whatever a wrapped product may be, it is used only between zero and the cap. The invariant of `Exchange`
says what the rest of the wire is worth: as long as nothing is lost, reading it makes of the client's
assembler one that holds what the server has told (`StreamInv`).  Something is lost only where the
connection breaks, and then the end of the stream is lost with it, for it is the last event (`EndInv`); a
client that has read the end has therefore read everything, and of that its assembler holds the last
settled text as `Heard` says, and what was streamed since a chunk restarted it.  Reading a sequence (`Reads`) is stated by
the assemblers it goes through, not by a fold, so that one event more at the end, or one less at the
front, is a lemma without induction.

**AgentProofs** - `ConfigFileLoads`, `ConfigBrokenIsNotSaved`, `ConfigTeamsAreSound`,
`AgentRequestsAreWellFormed`, `AgentTurnsAreWhole`, `AgentDelegationsAreAccounted`.  The first two are
under `OneEditor` (no two commands may edit), which `config_edit` shows is needed.  What a command is
about to write is valid; what it has checked only it can change.  `ConfigTeamsAreSound` needs no such
hypothesis: what a command has loaded is its own copy.  Its invariant follows a team from `Dial` to
`Equip`: the tools registered so far have names of their own (`Unlike`), only an MCP tool may have the
main agent's (`EntryIsNoTool`), and they cover the sub-agents wired so far; a server is open only while
the team is being built or runs.

Of `AgentLoop`: the history is well formed up to its last message, which may be a call
still to be answered, and where the run stands says what that message is; results take the places of the
calls they answer, so that the tool message answers all of them whatever the order in which they end.
`Trim` keeps this because it cuts in front of a user's message (`FirstIsUserTurn`, by a least
counterexample).  For the account, what the clones have spent and not yet handed over is the sum over
the slots, stated as a sequence of partial sums so that a step at one slot moves the sums from there on.

**WireProofs** - `AdaptersKeepTheTurns`, `AdaptersAreAccepted`.  An invariant of the state is only needed
of the conversation (`WireIInv`: a reply that calls is followed by a tool message that answers the calls
of that reply and no other).  The rest is about what the adapters compute of such a conversation, all of
it at once and therefore by recursion over sequences (`SelectSeq`, `FlattenSeq`).  The prover has no
induction over data whose goal is a formula; here the goal is a set - of numbers or sequences for which
the claim holds - and a least element outside it is refuted (`NumbersByInduction`,
`SequencesByInduction`, from the well-foundedness of `<`).  From these come the laws the proofs use:
selection and flattening distribute over concatenation, a flattened sequence has the members of its
pieces, and what holds piece by piece holds of the whole (`OnlyPiecewise`).  Each adapter is then a claim
about one turn (`AnthropicSends`, `OpenAISends`, `GoogleSends`) and one about the seam between two
(`FollowUpOfFlatten`).  Google's results carry the name of the function and not its id, and ids start
again with every reply: the name is found by looking back for the last call of that id, and that this is
the right one is where the invariant is needed.

**StreamProofs** - `StreamReturnsAllOfIt`, `StreamSaysTheSame`, `ScannerDelivers`.  For what is returned,
`Gathered` relates the accumulators to what the server has meant so far, frame by frame and vendor by
vendor: a block's accumulator holds all that was sent of it or, of a call whose start is missing,
nothing; no fragment comes twice (`PartsAreOwn`), and `order` names no block twice.  Before the call
there is nothing (`Unborn`).  For what the callback is told, `Heard` says while the stream is open that
the texts of the events, concatenated, are those of the accumulators; that every call that has a start
has it once, ahead of every delta; that a stop comes after the deltas, and none follow it; and that
nothing is done.  When the stream ends, the message is built from the same accumulators, so the one
implies the other: a call's part of it is the accumulator, or has no input if that is not JSON
(`BlockContentIs`, `KeptIs`), and a CLI's text is the stretch of what was told between the first and the
last that is not blank (`TrimmedIs`); the other adapters leave nothing out (`AllIsTold`).  `StreamTellsTheMessage` alone is not inductive, for it says nothing of an open
stream. For the scanner, `SseInv` says that after `pos` bytes the line in hand is the definition's
`LineBefore`, and that the data, the type and the events delivered are what the lines before it make
(`After`).  One byte more extends the line (`LineAfter`) or completes it (`LinesNext`), and one line more
extends a field or dispatches an event; a CR LF is one end of line and not two, also where the CR was
read alone (`AfterReturn`).  At an error the events delivered are a prefix of the stream's.

**Only model-checked**: liveness (`SubscribersReturn`, `InterruptedTasksEnd`, `EventuallyHeard`,
`ShutdownEndsStreams`, `CallsReturn`, `CommandExits`, `RunsEnd`), which is out of the prover's reach.
The properties of the runs that are to find a disagreement are false and have no theorem.

## 5. Limits of the models

* A data race is not modelled as such: every shared variable of the modelled code is
  guarded by a mutex or atomic, and each critical section is one action.
  `SendAsync`'s `wg.Add` concurrent with `wg.Wait` is the exception; the model gives it the
  outcome of the order in which the two are scheduled.
* *Broker*: `MaxBrokerEvents` = 1, for which the lastChunk artifact does not survive the
  final status, is excluded in the properties that speak of that artifact.
* *Store*: `List` and `Get` only read.  `seq` and ids are not modelled: tasks are distinct.
  Paging over a changing list is not modelled.
  The clock does not move while the store's mutex is held, and of `terminalAt`
  only the keys are kept: the time is that of the task's status, set in the same step.
* *Exchange*: the text streamed by a foreign server is what came since the last chunk that did not
  append, whatever artifact it is of.  A foreign client of a foreign server is no business of this
  repository, and a streamed response without a payload, which both clients pass over, is left out.  The text of
  a part is opaque; the parts an agent is given are text, inline media, data or a file.
* *Hub*: authorisation, request limits and the heartbeat are left out, as is the length of
  the back-off.  A local bus that drops an event before the bridge sees it has the
  effect of a failed post, which is modelled.  The origin of an event that names none is
  `"none"` in the model and the empty string in the code.
* *Bus*: topics are left out: both readers of the command subscribe to all of them.
* *JsonRpc*: `drain` and `CloseGrace` are timers that may fire at any moment.  The encoding of
  a line and the limit on its length are left out, as are requests of the server's to the client.
* *HttpRetry*: a cap equal to the largest duration is excluded by an assumption.
  The random delay is any value it may take.
* *Wire*: audio, which the Anthropic adapter refuses with an error, is left out there.  Google's
  adapter leaves an image by URL out of what it sends, where the comment on content
  (content.go:20-23) has adapters return an error; the model does as the code does and no property
  is about it.
  A call's input that is no JSON, of a reply that was cut short, could not be encoded by the
  adapters that embed it; a turn without any part is not among the inputs.
* *ProviderStream*: that Anthropic sends a call's start after its deltas is left out, and that an
  OpenAI server renames a call whose start was told (openai.go:502-504): a call has one name.  `<<>>`
  stands for an input of `{}`.  White space is read as whole runes.  A reply
  that is not streamed is read field by field and not modelled.
* *SseScanner*: the byte order mark is left out, and of the fields `id` and `retry`.
* *Config*: commands that print are left out.  The user of an editor saves one of four drafts,
  chosen to be broken in different ways.  A team has at most one MCP server, and what an MCP
  server or remote agent answers later is `JsonRpc`'s and `Exchange`'s business.
* *Agent*: usage fields other than the account of delegations, `DropBefore` and the state map,
  and what is published on the bus are left out.  A provider that panics in a
  delegation would skip the account; panics are modelled for local tools only.
* *Not modelled*: HTTP debugging (formats output), the TUI, flags and terminal output
  (no state that anything depends on), the agent card (read-only), the cursor paging of
  MCP's `ListTools`, generated protobuf code.

## 6. Plan

What is left, in the order of its worth:

1. `ListTools`' cursor paging against a server that repeats a cursor, and `ListTasks` with
   tasks that come and go.
2. The order of `Serve`'s shutdown in the gRPC binding: `Shutdown` of the store before the
   server stops taking calls.
