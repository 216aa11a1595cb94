# A TLA+ model of chitchat

chitchat mocks and spies on a RabbitMQ broker: it consumes queues, records
what it sees in a ring buffer with an HTTP API, matches each message against
rules and publishes the responses they describe. It is a small program with a
lot of concurrency: HTTP handlers, a processing loop, one goroutine per
response, one per consumed queue, and a start, reload and stop that may come
from several of them at once. Around this core are a configuration with its own
routing analysis, a template language, and a process that has to come up and go
down in order. This directory holds TLA+ modules for these parts, the TLC runs that
check them, and the theorems proved with TLAPS.

## 1. Inventory

| Component | State | Operations | What makes it correct |
|---|---|---|---|
| Ring buffer (`pkg/spy/server.go`) | `messages`, `nextSeq`, `maxSize`, the change channel | `Record`, `Query`, `Clear`, `Count`, `Changed` | a gap-free window of the newest messages; numbers are never reused; everybody who waits is woken |
| Spy REST server (`pkg/spy/server.go`) | the hooks, the HTTP server, one goroutine per request | five routes, the long poll `wait_for`, `Start`, `Stop` | no lost wake-up, every request ends, shutdown ends |
| Engine (`pkg/engine/engine.go`) | `running`, `stopped`, `subscribed`, rules with counters, context, wait group, `msgChan` | `Start`, `Reload`, `Stop`, `processLoop`, `handleMessage`, `dispatch` | no message lost or answered twice, one rule set per message, the driver is not used once it is being closed, workers end first |
| Matcher (`pkg/engine/matcher.go`) | none | `MatchesRule`, `compareValues` | fires on equal values and on no others |
| Driver interface (`pkg/broker/driver.go`) | | `Connect`, `DeclareTopology`, `StartConsuming`, `Publish`, `Close` | `Close` returns after the last write to the channel |
| RabbitMQ driver (`pkg/broker/rabbitmq.go`) | `channel`, `closed`, context, read-write lock, consumer wait group | as above, and the consumer goroutines | keeps the interface's contract, hangs nowhere |
| Mock driver (`pkg/broker/mock_driver.go`) | `Consumers`, `Published`, `Closed`, the `done` channel, one lock | as above, `SimulateIncomingMessage`, the publish hook | `Close` returns and releases blocked senders |
| Configuration (`pkg/config`) | the decoded YAML | `ParseConfig`, overrides, `Validate`, `Warnings` | topic matching is AMQP's, loops are warned of, what is accepted works |
| Templates (`pkg/engine/template.go`) | none | `preprocessTemplate`, `RenderPayload`, `ValidateTemplates` | rewrites references and nothing else, validation predicts rendering, a message never changes the structure |
| Process (`cmd/chitchat/main.go`) | the current configuration, the reload mutex, two signal channels | start-up, reload hook, shutdown | takes down what it brought up, applies only checked files, ends on a signal |
| Logger (`pkg/logger`) | none | `InitLogger` | knows every level and format that validation accepts |

Interactions: `main` starts the spy server, connects the driver, starts the
engine, and then registers the engine's `RuleStats` and a reload function as
hooks of the spy server. Consumer goroutines of the driver write to the
engine's `msgChan`; the loop and the dispatches call `Record` on the ring
buffer and `Publish` on the driver; a `POST /_chitchat/reload` calls the
engine's `Reload` from an HTTP goroutine. On a signal `main` calls the engine's
`Stop`, which closes the driver, and then the spy server's `Stop`.

What is hard here, and hard to test, is listed with its lines under `hazards`
in `PROJECT.json`: wake-ups between a query and a select, a timer that
competes with steady traffic, eviction and clear under a `since` cursor, `Stop`
against `Reload`, draining before closing, a full channel with everybody
waiting, rules replaced under a message, a reload that fails half-way, a
channel that dies, numbers compared as text, a file that is edited during a
reload, a signal between two registrations, quotes and escapes in templates,
maps walked in random order, and integers at their limits.

Some behaviour is awkward but promised by nobody, and has no property: a long
poll may be answered 408 with a complete list when change and timer are ready
together (`server.go:474`); `since` with `limit` skips the older of the new
messages (`server.go:238`); a second `Stop` returns before the first is done
(`engine.go:321`); an engine or driver is not meant to be started again after a
failure (`engine.go:136`, `rabbitmq.go:63`), and `main` does not; an exchange that
is not declared is taken for a topic exchange (`validate.go:215`); a hook of a
test that calls the mock driver again waits for ever (`mock_driver.go:67`);
`random_int` panics when its bounds span more than an `int` (`template.go:47`).

## 2. Modules

| Module | Models | Uses |
|---|---|---|
| `SpyFilter` | the filter of `GET /_chitchat/messages`, its parsing, header normalisation (pure) | |
| `RingBuffer` | `spy.RingBuffer` | `SpyFilter` |
| `SpyServer` | `spy.Server`: handlers, long poll, life of the server | `RingBuffer` |
| `CaptureLog` | abstract: what following the traffic with `since` promises | |
| `SpyCursor` | clients that poll with `since`, over the ring buffer; implements `CaptureLog` | `RingBuffer` |
| `BrokerDriver` | the operations of `broker.Driver` as actions | |
| `DriverContract` | abstract: the contract as a specification | `BrokerDriver` |
| `Engine` | `engine.Engine` on a driver that keeps the contract | `BrokerDriver` |
| `RabbitMQDriver` | `broker.RabbitMQDriver`; implements `DriverContract` | |
| `Matcher` | `MatchesRule` and `compareValues` | |
| `Chitchat` | the process: engine, broker and spy server composed as `main` does | `Engine`, `SpyServer` (instance) |
| `Lifecycle` | `main.go`: start-up, reload hook, signals, shutdown | |
| `Config` | `pkg/config` and `InitLogger` (pure) | |
| `Template` | rewriting of the references in actions (pure) | |
| `Payload` | rendering and validation of payloads (pure) | |
| `MockDriver` | `broker.MockDriver` | |
| `Numbers` | `parseTimeout` on integers of a fixed width (pure) | |
| `Inputs` | calls of the functions without state, over bounded inputs | `Config`, `Template`, `Payload`, `Matcher`, `Numbers` |
| `SpyServerProofs` | theorems on the ring buffer and the long poll | `SpyServer` |
| `SpyCursorProofs` | theorems on polling with `since`, and its refinement of `CaptureLog` | `SpyCursor` |
| `EngineProofs` | theorems on `Start`, `Reload` and `Stop` | `Engine` |
| `EngineMessageProofs` | theorems on the way of a message through the engine | `EngineProofs` |
| `RabbitMQDriverProofs` | theorems on the driver, and its refinement of `DriverContract` | `RabbitMQDriver` |
| `ChitchatProofs` | theorems on the composed process | `Chitchat`, `EngineMessageProofs` |
| `LifecycleProofs` | theorems on start-up, reload and shutdown | `Lifecycle` |
| `InputsProofs` | theorems on the functions without state | `Config`, `Matcher`, `Numbers`, `Template`, `Payload` |
| `MC*` | small instances for TLC | |

The definitions named "Mutant" in a comment are faults seeded next to the
definition they replace; they belong to no specification and serve to confirm
that each property can fail.

### How state and steps correspond to the code

*Ring buffer.* Every method runs under `rb.mu` and is one action or state
function. The change channel is the set `watching` of handlers that hold the
channel that is still open: `notifyLocked` closes and replaces the channel,
which empties the set. A message keeps the fields a filter can see; its body
is a function from the JSON paths that exist in it to their text.

*Spy server.* Handlers that take the lock once are one action.
`waitForMessages` is the machine `changed -> query -> select`, with one action
per lock acquisition and one per case of the select. `expired` and `gone` are
the timer's and the request context's channels; either may be ready together
with the change channel and Go picks any. Durations are left out: a timer may
fire at any time, including at once. `Shutdown` accepts no request and returns
when none is in progress, or when its context expires. `main` gives it a
context without a deadline when start-up fails, and one of 5 s after a signal,
which it only looks at once both hooks are set.

*Engine.* `e.mu` is the variable `mu`. `Start` and `Reload` hold it over a
driver call per step (`DeclareTopology`, then `StartConsuming` for each queue in
order, then `Commit`); `Stop` holds it for the flags only, then cancels, waits
and closes in separate steps. `gens` is the sequence of configurations applied,
so a rule is named by its generation and index and the loop's snapshot is a
generation. `rulesMu` protects single reads and writes, and is part of the step
that makes them. The wait group is the operator `wg`, the number of goroutines
that have been added and are not done. `dispatch` has a step for the delay, for
the publish and for the record. Whether a payload renders and to which queues
the broker routes a response are given by the configuration. `sent`, `spy` and
`answered` are history variables: what other programs published, what `Record`
was given, and which rules matched which message. `main` does not try again
after a `Start` that failed, and `Start` is not enabled then.

*Driver and broker.* The broker is external. A queue is a sequence; one AMQP
channel (`link`) is alive or dead for good, since the code never opens a
second one; it dies with the connection or when the broker refuses an
operation on it. Deliveries are acknowledged automatically, and those the
client library buffers count as part of the queue until the consumer
goroutine takes them. `RabbitMQDriver` has Go's read-write lock explicitly: a
waiting writer keeps new readers out, and its unlock admits those that wait.

*Matcher.* `%v` of a value is modelled by what it prints: integers in decimal
notation, a `float64` in exponent notation from 1e+06 on. Every JSON number is a
`float64`, every integer in a YAML rule an `int`.

*Process.* `Lifecycle` has a step of `main` per component it brings up or takes
down, each of which may fail, and a step of the reload hook per file read, check
and lock. It sees the other components by their interface: whether the engine
runs, with which configuration and who holds `e.mu`, whether the spy serves. The
file is a record that others may replace between any two steps. The two signal
channels have one slot each, and a signal that is not registered for kills the
process. `Chitchat` puts the detailed modules together: `S` is an instance of
`SpyServer` whose handlers share the state with `Engine`, each `Record` of the
engine is one step with the buffer's, and `main` orders start and stop. A body is
known by the id of the trigger, which the response takes over.

*Configuration.* A name or routing key is the sequence of the words between its
dots, so that `strings.Split` and its result for the empty string are visible. The
topic matcher is compared with a definition by sets of words; the reachability
of a queue with AMQP's rules per exchange type. Settings fold to lower case by a
constant operator.

*Templates.* A text is a sequence of tokens; since `preprocessTemplate` only
inserts dots its result is the set of positions that get one. The scanner is
compared with the lexer of `text/template`, as the code uses it, with its string
literals, raw strings, character constants and comments. A dot that lands in a comment
has no effect. A payload is a
tree written as a sequence of nodes, each behind its parts and the whole last, so that
`transformPayload` is a table with the outcomes of each node, filled from those of its parts.
Texts say whether `typedJSONRegex` matches them, whether they parse and
what they refer to; Go walks maps in any order, so rendering gives the set of outcomes.
YAML has values that JSON has no form for (`.nan`, `.inf`); a payload that holds one anywhere
gets through `transformPayload` and fails in `json.Marshal`. A field that is missing renders as
no value, a field of an explicit null is an error.
`buildTemplateContext` is modelled for bodies that are empty, no JSON, `null`,
other JSON, or an object.

*Mock driver.* One step per lock acquisition; the hook runs under the lock, the
select of `SimulateIncomingMessage` outside it, with both cases possible when both
are ready.

*Numbers.* A `time.Duration` has `Width` bits. A `float64` out of range converts to
the least integer (amd64) or to the nearest (arm64); both are outcomes.

*Inputs.* The functions above have no behaviour of their own. `Inputs` gives them
one: a call with any of its inputs, which the variables hold, then its return.

## 3. Runs

| Run | Instance | Checks |
|---|---|---|
| `spy_server` | 2 clients, 13 kinds of request, buffer of 1, 2 records | `TypeOK`, `WindowContiguous`, `ParkedNotEnough`, `EveryRequestEnds`, `ShutdownCompletes` |
| `spy_cursor` | 2 polling clients, one with header, body and direction filters; buffer of 2, 5 records, clears | `GivenAsRecorded`, refinement of `CaptureLog` |
| `engine_safety` | 2 callers, 2 queues, 2 configurations, 2 messages, channel of 1, connection may die | `DriverUsedOpen`, `DrainedBeforeClose`, `NoMessageLost`, `RecordedInOrder`, `NeverAnswersChitchat`, `OneRuleSetPerMessage`, `HitsExact`, `OneConsumerPerQueue`, `QuietAfterStop` |
| `engine_liveness` | 1 caller, a rule that answers into its own queue, 2 messages, channel of 1 | `StopCompletes`, `EveryMessageRecorded`, `EveryDispatchEnds` |
| `driver_contract` | 3 callers, 1 consumer, channel of 1 | `AddedBeforeWait`, `EveryCallReturns`, refinement of `DriverContract` |
| `process` | 1 client that waits for the response to a trigger, waits for two messages with `limit=1`, or clears; a rule that answers into its own queue, channel of 1, buffer of 2, 3 records | `TriggerBeforeResponse`, `CaptureComplete`, `ResponseServed`, `WaitServed` |
| `lifecycle` | 2 handlers, 4 file contents, 1 edit, 2 signals, a `--port` flag | `CleanExit`, `OnlyCheckedApplied`, `AppliedForward`, `SignalEnds`, `ReloadAnswered` |
| `mock_driver` | 3 callers, 1 channel of 1 slot that nobody has to read | `CloseReleases` |
| `inputs` | all patterns and keys of up to 3 words, files of odd settings, 2 command lines; all texts of one of 6 prefixes (code, both kinds of literal, a character constant, a comment, a comment with `}}`), up to 4 of 11 tokens, and `}}`; payloads to depth two over 8 kinds of text, with values that JSON cannot express, 8 bodies; 280 pairs of a JSON and a YAML value; timeouts of 6 bits, floats to beyond twice their range | `TopicOnWords`, `LoopsWarned`, `AcceptedWorks`, `RewriteExact`, `ValidationPredicts`, `StructureKept`, `NoFalseMatch`, `TimeoutInRange` |
| `engine_failed_reload` | as `engine_safety`, network that holds | violation of `StaysSubscribed` |
| `matcher_numbers` | the pairs of values of `inputs` | violation of `NumbersConverted` |
| `lifecycle_flag` | 1 handler, 1 edit, no signal | violation of `UnappliedFlagged` |

What the runs show, part by part:
- *Spy.* A long poll is never parked while what it waits for is in the buffer, it
  is answered without the help of its timer (`WaitServed`), and ends with it however
  often it is woken. A client that follows the traffic with `since` gets every message that
  stays long enough, in order and once, across evictions and clears.
- *Engine.* Whatever the order of `Start`, `Reload` and `Stop`, the driver is not used
  when it is being closed, nothing is published or recorded after `Stop`, no queue gets
  two consumers, each message meets one rule set and is counted once, responses
  of chitchat are never answered, and `Stop` returns although the channel is full.
- *Driver.* The RabbitMQ driver implements the contract that the engine is checked on. In it a
  message tells whether it came through this driver or from another program: the
  latter may arrive at any time, the former only while the driver is open, so a publish that
  got through once `Close` has begun would be seen.
- *Process.* A trigger is captured before its response, the capture is complete
  before the spy stops, and a client that waits for the response gets it. What
  start-up brought up is taken down on every way out; a reload applies what it
  checked, reloads do not overtake each other, and a signal that `main` gets ends
  the process.
- *Functions.* Topic matching is AMQP's, loops are warned of exactly, a file that
  is accepted works, references are rewritten outside literals only, validation predicts
  rendering (of payloads that JSON can express), a message changes no structure, nothing unequal matches, and no
  timeout comes out negative or too long.

The buffer of one in `spy_server` exercises eviction and the end of the window; that a longer
window has no gap is shown by `spy_cursor`, with a buffer of two, and by the theorem
`WindowAlwaysContiguous`.

**Bounds.** The bounds are `MaxSeq` (messages recorded), `MaxMsgs` (messages of other
programs), `MaxGen` (rule sets), `MaxConsumers`, `MaxQueued`, and the sets in the
`.cfg` files. Two records fill and evict a buffer of one, three fill and evict a
buffer of two; five let a cursor fall behind by more than the buffer and meet
a clear. Two messages and a channel of one slot make a consumer block on a
full channel behind the loop. Two callers and two generations put a `Reload`
against a `Stop` or against another `Reload`, at every step. Three callers of the
driver are what a reader that waits behind a waiting writer needs. The numbers of
the matcher are those on both sides of the change of notation. In `process` one
trigger puts two messages on the queue, since its response comes back, and three
records in the buffer, one more than it holds. One edit and two handlers
let a reload meet a file that changed between any two of its reads, and two reloads
with different contents cross. The prefixes put
the scanner into each of its situations and the tokens that follow have room for the end of
the literal, constant or comment, an escaped quote, and a reference behind it; three words for a pattern with `#` between two others. The
other bounds are `MaxEdits`, `MaxSignals`, `MCLength`, `Width`, `FloatRange` and
`MaxPublished`.

**Deadlock** is checked except where the modelled program really stops: the spy
server, the process and its lifecycle, which end in an exit.

**Fairness.** Runnable goroutines run (weak fairness of the handlers, of each
caller inside a call, of the loop, the dispatches and the consumers): this is
what Go's scheduler gives. Two assumptions are strong: a `select` that finds
several cases ready picks at random, so it does not pass over the timer
(`SelectTimer`) or the cancelled context (`LoopExits`, `ConsumerExits`) for ever; and Go's
read-write lock starves neither readers nor writers. Timers fire in
`SpyServer`; in `Chitchat` neither timers nor `main` nor other programs need act: what
is answered there is answered by the change channel. In `Lifecycle` start-up, the signal watcher, the
hook and the deadline of the shutdown context go on (weak), and `main` and the handlers that wait for
`e.mu` or `reloadMu` get them in the end (strong: Go's mutexes starve nobody), which assumes that the
broker answers the reload that holds `e.mu`. In `MockDriver` the lock is fair in the same way, and nobody
is assumed to read a channel. Calls into the AMQP library are assumed to return. Nothing is
assumed of clients, of other programs, of the broker, or of who calls `Start`,
`Reload` and `Stop`.

**Findings.**
- *Failed reload* (`engine_failed_reload`). A refused declaration or consumer
  makes the broker close the AMQP channel. `Reload` returns the error, the
  consumers of every queue exit, and the engine goes on "running" with
  `subscribed` unchanged, so that later reloads pass over these queues. The
  comment on `Reload` (`engine.go:155-157`) says the connection is not dropped and
  queues stay subscribed.
- *Large integers* (`matcher_numbers`). `equals: 1000000` never matches the JSON
  number 1000000, which prints as `1e+06`; the comment at `matcher.go:51` says the
  comparison handles int against float64.
- *Settings that a reload cannot change* (`lifecycle_flag`). They are compared with
  the file of the last reload, not with what the process started with
  (`main.go:188`), so a difference is flagged once and never again.

Comments that promise more than the code keeps, in cases the properties leave out:
- `main.go:285`: a signal between the two `signal.Notify` calls is taken by the
  forced-exit goroutine only, and `main` waits for another (`SignalEnds` is about the
  channel of `main`); and the exit comes in the end, not within the timeout, since neither the
  wait for `e.mu` nor `driver.Close` looks at the context;
- `validate.go:209`: a headers exchange, which `Validate` accepts, routes nothing for
  the loop check, and on a topic exchange, or one that is not declared, `*` catches an empty
  routing key (`LoopsWarned`; empty keys on direct and fanout exchanges are checked);
- `validate.go:244`: `*` matches an empty routing key (`TopicOnWords`);
- `template.go:65`: a `}}` inside a literal ends the action for the regular
  expression; the scanner (`template.go:80`) takes the quote in a character constant, `'"'`,
  for the begin of a string and passes over the references behind it; and
  `template.go:20`: references after `:=` are not rewritten (`RewriteExact`);
- `template.go:256`: `.nan` and `.inf` in a payload pass `ValidateTemplates` and make every
  rendering fail in `json.Marshal` (`ValidationPredicts`);
- `template.go:26`: a pipeline that only begins with `json` counts as solely a `json`
  call;
- `template.go:214`: of two templated keys that render to the same text one replaces
  the other's entry, by chance (`StructureKept`);
- `driver.go:33`: the mock driver may send a message after `Close` has returned.

## 4. Theorems

They hold for every value of the constants: any number of callers, clients,
queues, messages, rules and reloads, any size of buffer and channel, texts and
patterns of any length. The assumptions are named in the modules, and TLC
evaluates each of them on the instances above:

| Assumption | Says |
|---|---|
| `RingBufferAssumption`, `ChitchatAssumption` | the requested buffer size is an integer, also zero or negative; the bound on records is a natural number |
| `RequestsAssumption`, `PollQueryAssumption` | the parameters of a request are absent, junk or numbers; a poller adds `since` itself and sets no `limit` |
| `DriverAssumption` | the message channel has at least one slot |
| `EngineAssumption`, `ConfigsAssumption` | queues are numbered from 1, configurations have the fields of the Go structs |
| `LowerAssumption` | `true` and `false` differ when case is folded |
| `NumbersAssumption` | the default wait is at most the maximum, which fits into an integer |
| `InputsAssumption` | the inputs of the run are configuration files, payloads (`IsPayload`: every node but the last is part of one behind it, a text without actions parses) and bodies (`IsBody`) of the types that the theorems quantify over |

`SpyServerProofs`:
- `TypeCorrect`: `Spec => []TypeOK`.
- `WindowAlwaysContiguous`: `Spec => []WindowContiguous`. With the types it is
  inductive: `LastN` keeps the end of a sequence (`LastNProperties`), so
  appending number `nextSeq` and cutting keeps the numbers consecutive.
- `NoLostWakeup`: `Spec => []ParkedNotEnough`. The argument is the order of two
  lines in `waitForMessages`: a handler that still holds the open channel when it
  queries sees a buffer that cannot change without closing that channel. The
  strengthening adds that what the wait arguments ask for carries no limit, so
  that the query of the loop is the whole match set.

`SpyCursorProofs`, with the inductive invariant `Inv`: the log has one entry per
number, the buffer is the end of the log, and what a client got is in the log
under its number.
- `ClientsGivenRecorded`: `Spec => []GivenAsRecorded`.
- `CaptureLogKept`: `Spec => CaptureLogSpec`, the refinement. A record is the abstract
  capture (the window moves by at most one), a clear the abstract flush, and a
  poll the abstract fetch: what `Pick` keeps of the buffer is each entry that
  matches, once and in order (`Picks`), and the filter of a poll splits into
  "newer than the cursor" and the rest of the query, which is the client's interest.

`EngineProofs`, about `SafetySpec`:
- `AttachOnOpenDriver`: `[]DriverUsedOpen`. Inductive invariant `LockInv`: whoever is inside
  `Start` or `Reload` holds `e.mu` and sees `stopped` false; whoever is inside `Stop`
  has set `stopped`; and the driver is not open only once `stopped` is set. The
  property alone is not inductive, since `Stop` closes without the lock and only
  the flag keeps the others away.
- `WorkersDrained`: `[]DrainedBeforeClose`. `QuietInv` adds that past the wait without a
  timeout nothing is at work. `Quiet` stays, because only `Commit` at the end of a
  `Start` sets the loop going, and `LockInv` excludes a `Start` under way.
- `SilentAfterStop`: the action property `QuietAfterStop`, from both, and from the fact
  that all consumers have exited when `Close` returns and nobody attaches one.

`EngineMessageProofs`, also about `SafetySpec`, in three layers on top of `LockInv`:
- `BaseInv` (types, `CallInv`, `SubscribeInv`, `LoopInv`, `PlaceInv`) gives `ConsumersUnique`:
  `[]OneConsumerPerQueue` and `LoopsCut`: `[]NeverAnswersChitchat`. `SubscribeInv` ties
  `subscribed` to the consumers one to one and says what a call in the middle of its
  queues still has to do; that a `Start` that failed is not tried again is needed
  here. `LoopInv` says that the loop only gets to the rules with a message that
  carries no origin header.
- `PipeInv` adds `FreshInv`, `KeptInv` and `OrderInv` and gives `MessagesKept`:
  `[]NoMessageLost` and `QueueOrderKept`: `[]RecordedInOrder`. Neither is inductive:
  `Kept` names the place of a message at every stage, and `Ahead` says of two messages
  of one queue that the older is ahead wherever the newer one is. All
  steps of messages are first reduced to a few moves (`Moves`), so each invariant is
  checked once per move and not once per action.
- `HandledInv` adds `OnceInv` (a message is in one place only), `RulesInv` (the rules
  answered so far are those of one set up to the current one) and `HitsInv`, and gives
  `RuleSetsWhole`: `[]OneRuleSetPerMessage` and `CountersExact`: `[]HitsExact`. Counting each
  match once needs `OnceInv`, since a message that came to the loop twice would be counted
  twice.

`RabbitMQDriverProofs`:
- `NoLateConsumer`: `Spec => []AddedBeforeWait`. `Inv` describes who holds the read-write
  lock and for what (`LockInv`), that `Connect` runs alone, and that a consumer the broker
  knows but no goroutine serves belongs to exactly one caller that has yet to start it
  (`AttachInv`, by cardinalities).
- `ContractKept`: `Spec => KeepsContract`, the refinement of `DriverContract`, which
  states safety only. `Close` is three steps of the driver and two of the contract; a
  consumer counts as attached when the broker registers it. `ClosedInv` is what the
  contract promises: past `Close` no consumer is left.

`LifecycleProofs`, about its `SafetySpec`:
- `ExitsClean`: `[]CleanExit`, by what is up at each step of `runChitchat` (`PhaseInv`).
- `EngineRunsChecked`: `[]OnlyCheckedApplied` and `ReloadsForward`: the action property
  `AppliedForward`, by `ReloadInv`: past `reloadMu` there is one handler, what it carries has
  been checked, is no newer than the file and no older than what the engine has.

`ChitchatProofs`, about the composition `CSpec`. Each step of the process is a step of
the engine or leaves it alone (`EngineSteps`), so all that is proved of the engine holds in the
process.
- `NothingRecordedUnseen`: the action property `CaptureComplete`, from `SilentAfterStop`'s
  invariants and `DownInv`: `main` stops the spy only when the driver is closed.
- `CauseBeforeEffect`: `[]TriggerBeforeResponse`. `CauseInv` adds that the trigger of all that
  is being evaluated or dispatched is in the buffer, as long as that has dropped nothing.

`InputsProofs`, with the inputs any members of their types instead of those of `MCInputs`:
- `MatchesSound` (`NoFalseMatch`), by the types of the two values, and `TimeoutsInRange`
  (`TimeoutInRange`), by arithmetic on every width.
- `AcceptedConfigsWork` (`AcceptedWorks`), by what an empty set of problems says of each
  section of the file.
- `TopicsDecided` (`TopicOnWords`): the matcher from word `i` of the pattern and `j` of the key
  agrees with the broker's rule on the rest of both, from the last word backwards.
- `LoopWarningsExact` (`LoopsWarned`), from `TopicsDecided`'s lemmas and the routing per type
  of exchange, for the rules of `LoopsKnown`.
- `RewritesExact` (`RewriteExact`): the scanner and the lexer are in step, for every text the
  lexer accepts and `Ordinary` admits. Between two
  quotes the lexer stays in code and its character constants (`CodeLasts`), `literal` ends where the lexer leaves the
  literal (`LiteralEnds`), so a code segment gets its dots where the references are
  (`SegmentRewritten`); put together from the end of an action backwards
  (`ActionRewritten`), and from the end of the text backwards (`RestRewritten`). A comment is
  the other case there: the lexer stays in it up to its end (`CommentLasts`), and what the
  scanner inserts before that lies within it (`ScanWithin`).
- `StructuresKept` (`StructureKept`), for payloads of any size and depth: the property
  relates a node to the outcomes of its parts, so each kind of node is a case of its own, by
  what a choice of outcomes makes of a list (`ListIs`) and of a map (`MapsIs`, `EntryIs`).
- `ValidationSound` (`ValidationPredicts`): every error of the whole is the error of one of
  its texts (`ErrorsFrom`, with the first node that has another), and a node that fails takes
  the whole with it (`RootFails`, with the last node that fails: it is part of none, so it is the whole).
  A payload that is one string is rendered on another path and has no other nodes (`RootAlone`).
  Without unencodable values `json.Marshal` refuses nothing (`NothingRefused`).
  That rendering has an outcome at all, which makes the rest worth saying, is `RenderingTotal`.

The matcher, the scanners, `transformPayload` and `Pick` are recursive functions. The proofs
take such a function as a solution of its table of equations: a solution exists (one is built up to each length in
turn), and what holds of every solution at each position holds of the function. Induction
over positions is done with the least or greatest position at which the claim fails, which keeps
every step first-order.

Checked by TLC only:
- the liveness properties and everything that rests on fairness or `ENABLED`;
- `CloseReleases` of `MockDriver`, which is one of them;
- the findings, which are counterexamples.

## 5. Not modelled

The cobra commands around `runChitchat` (`validate` is load and check without the
rest), the version text, and the wording of problems, warnings and log lines.
YAML decoding, `text/template`, gjson, slog, HTTP, AMQP and the Go runtime are
external and modelled by how the code uses them. Durations of timeouts and delays:
a timer may fire at any time. The integration tests and the example
configuration have no logic of their own.

## 6. Plan

Every part of the program with logic of its own is modelled, and every safety property of the
runs, invariant or action property, is proved for all instances. Liveness stays with TLC.
