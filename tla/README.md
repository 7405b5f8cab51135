# Formal models of xwebs

xwebs is a WebSocket client, server, relay and mock driven by YAML handlers.
This directory holds TLA+ models of its core, the TLC runs that check them and
the theorems proved about them with TLAPS. Paths below are relative to `src/`.

## 1. Inventory

| Part | State it keeps | Operations | Hard about it |
|---|---|---|---|
| Connection, `internal/ws/connection.go` | `_closed`, `_done`, `_closing`, `_closeCode`, `_writeCh`, `_subscribers` | `Write`, `Subscribe`, `Unsubscribe`, `CloseWithCode`, `readLoop`, `writeLoop`, `forceClose` | two loops, any number of callers and the peer close it together; a flush before the close frame |
| Topic store, `internal/server/topics.go` | map of topics, per topic subscribers and a retained message | `Subscribe`, `Unsubscribe`, `UnsubscribeAll`, `Publish`, `PublishSticky`, `ClearRetained` | two kinds of locks taken one after the other; entries replaced in between |
| Pause and dispatch loop, `Server.Pause` ... in `internal/server/server.go`, `Dispatcher.Start` in `internal/handler/dispatcher.go` | `s.paused`, a condition variable, a buffer per connection | pause, resume, wait, buffer, flush | check-then-act on `paused`, a wakeup without the lock |
| Handler execution, `internal/handler/dispatcher.go` | per-execution context, per-handler mutex | `handleMessage`, `Execute`, pipelines, retries, hooks | handlers edited while they run; one answer over retries, drops and nested executions |
| Registry, `internal/handler/registry.go` | handlers, disabled set, limiters, debounce timers, sequence and round-robin positions, chat histories, script state | add, update, rename, delete, replace, match | state shared by all connections |
| Built-ins, `internal/handler/builtins_impl.go` and neighbours | values in the registry and the KV store | one `Validate` and one `Execute` each, 61 of them | read-modify-write in two calls (`once`, `round-robin`, chats, `throttle-broadcast`) |
| Configuration, `internal/handler/config.go`, `parser.go`, `inline.go` | none | validate, load, copy a handler's fields | three lists of fields kept by hand |
| Server lifecycle, `internal/server/server.go` | clients, wait group, source cancel functions | `serveWS`, `Stop`, `Drain`, `Kick`, `Broadcast`, handler editing, Redis, MQTT, Kafka and NATS sources | registration against stop, partial reloads |
| KV store, `internal/kv/store.go` | map with expiry times | `Get`, `Set`, `Delete`, cleanup | expiry seen under one lock, acted on under another |
| SSE, `internal/server/sse.go` | streams, consumers, buffers | `SendToSSE`, `HandleSSE`, `ClearBuffer`, `UpdateStreamConfig` | replay under the lock into a bounded channel |
| Security, `internal/server/security.go` | token buckets, a limiter per client | the checks of the middleware, forgetting clients | tokens of two buckets, clients forgotten and made anew |
| Static servers, `internal/server/static.go` | running servers by port | start, stop | a late failure of a replaced server |
| Relay, `internal/relay/relay.go` | two connections | two pumps | subscribe after start, whoever ends first |
| Client, `cmd/connect.go` | attempt counter, connection, dial requests | connect, reconnect, send, exit | timers, requests, input and the network end waits in any order |
| Shell, `internal/repl/repl.go` | continuation and heredoc buffers, pending lines, nesting depth | read a line, execute, source, interrupt | buffers and interrupts shared by several kinds of input |
| Mock, `internal/mock/mock.go` | scenario, step, stop channel | start, stop, run | stop channel reused |
| Bench and forward, `internal/repl/bench.go`, `internal/handler/forward_builtin.go` | shared connections | request and reply | replies paired by arrival |
| The rest | | templates, JSON views, completion, metrics, generators | sequential |

How they interact: `serveWS` makes a Connection and a Dispatcher per client.
The Dispatcher subscribes to the Connection, matches each message in the
Registry, runs the handlers and writes to the Connection; handlers publish to
the topic store, the KV store and SSE streams of the server, which in turn
write to Connections. `Pause` and `Resume` reach the dispatchers through
`WaitIfPaused` and `IsPaused` only. Client and relay own one and two
Connections; the shell feeds the client's input channel and the registry.

## 2. Modules

| Module | What it is |
|---|---|
| `OrderedLink` | abstract: what the sending side of a connection promises |
| `Connection` | one ws.Connection with its loops, callers, subscribers and peer; implements `OrderedLink` |
| `DeliveryProofs` | theorems about `TopicStore` and `Dispatch` |
| `HandlersProofs` | theorems about `Handlers` |
| `ActionsSteps`, `ActionsProofs` | the invariant of `Actions` with the steps that keep it, and the theorems |
| `ServerLifeProofs` | theorems about `ServerLife` and `Sources` |
| `FlowProofs` | theorems about `Debounce`, `Streams`, `Relay`, `Reconnect` and `Backoff` |
| `PartsProofs` | theorems about `Connection`, `KVStore`, `Static`, `Limits` and `Repl` |
| `SequenceLemmas` | lemmas about sequences the proofs share |
| `TopicStore` | the pub/sub engine |
| `Dispatch` | pause and resume with the reader and the flusher of every connection |
| `Handlers`, `MCHandlers` | matching and executing handlers while the registry is edited; the handlers TLC uses |
| `Builtins` | what every built-in does, as a list of instructions |
| `Actions`, `MCActions` | one handler executed for several messages at once, instruction by instruction; the configurations TLC uses |
| `Fields` | a handler from what somebody wrote to the action its built-in is run with |
| `Debounce` | one debounced key with its timers |
| `ServerLife` | connections from request to end, against `Broadcast`, `Kick`, `Drain` and `Stop` |
| `Sources` | the goroutines of source handlers and the handler commands that start and stop them |
| `Streams` | one SSE stream with its consumers and producers |
| `KVStore` | the key-value store with expiry |
| `Limits` | address, token and origin checks of requests |
| `Static` | static file servers by port |
| `Repl` | the shell's line loop, scripts and interrupts |
| `Reconnect` | the client's session loop |
| `Relay` | one relayed client |
| `Backoff` | how long handlers, sources and the client wait before they try again |
| `MCLinks` | `Connection`, `Reconnect`, `Relay` and `Streams` side by side, with fairness |
| `MCServices` | `Sources`, `Debounce`, `ServerLife` and `Dispatch` side by side, with fairness |
| `MCParts` | `Dispatch`, `Actions`, `Limits`, `Static`, `Repl`, `KVStore`, `TopicStore`, `Fields` and `Backoff` side by side, for safety |
| `Absent` | the constant `None` they share |

### Parts side by side

The parts of `MCLinks`, `MCServices` and `MCParts` share no state in the models
that are put together there. `part` says which one is at work in a behaviour,
the others rest; the state space is the sum of theirs, not the product, and the
fairness of a part counts for the part at work only.

### Connection

`done` is `_closed` together with the channel `_done`; `netOpen` says that
`Conn.Close()` was not called. `forceClose` does both under `_mu`, and what
needs `_mu` waits in between (`MuFree`). `wpc` and `rpc` are the places of
`writeLoop` and `readLoop`, `writer[m]` that of the `Write` call for message
`m`, `closer` that of the one `CloseWithCode` call that gets past its checks
(every other one returns at once and changes nothing). The two-second timer of
`CloseWithCode` may fire at any moment. The socket takes writes until it is
closed or a close frame was written, as gorilla/websocket does, and a write may
fail at any time. Messages are model values; `Oversize` ones are refused.
A subscriber channel is reduced to whether it is open and how full it is.

Histories: `accepted` and `sent` record what Write accepted and what went to
the socket, `flushMark` how much had been accepted when the close began.

### TopicStore

A call is a goroutine's record `call[p]`: where it is, the client, topic and
message it is about, and the entry object it holds a pointer to. One critical
section is one action. `topics` maps names to entry objects, so a name can
stand for another entry than the one a call holds. `Recheck` is the second half
of `Unsubscribe` and `ClearRetained`. `conn.Write` under `entry.mu` is one
step: that it can block is a property of Connection.

### Dispatch

`mu` and `waiters` are `s.mu` and the notify list of `s.pauseCond`. `Park` is
the part of `Cond.Wait` that joins the list and unlocks; `ResumeStore` and
`ResumeBroadcast` are the two statements of `Resume`, which holds no lock.
`ReaderTake` is the select and the call of `IsPaused`; `addToBuffer` and
`ReaderHandle` act on its answer later. The 10 ms sleep of the flusher is
scheduling.

### Handlers

The slice `r.handlers` is a backing array (`arrays[cur]`), its length and
whatever older arrays pointers still lead to. `Match` copies the slice header
under the lock, then walks the array without it and returns pointers into it:
a match is therefore a cell of an array (`todo`), read anew when its turn
comes. An edit writes to the array in place (`Overwrite`) or to a new one
(`Reallocate`, `ReplaceHandlers`), as the code's `append`, `sort` and slicing
do. `call[m]` is the goroutine of message `m`: match, then per handler the
mutex of `concurrent: false` (`FindMutex`, `CreateMutex`, `LockMutex`, the
double-checked creation of `GetHandlerMu`), the attempts with backoff, and the
end. An attempt succeeds, fails, drops or exceeds a limit as it likes; what is
inside it is the subject of `Actions`. One edit is one step, and cells are read
whole: torn reads, which the Go race also allows, are not modelled.

Histories: `log` (what each message executed), `disturbed` (messages whose
cells an edit wrote to while they were in flight), `epoch` (edits that dropped
a name's mutex) and `spent` (once handlers that fired).

### Builtins and Actions

`Builtins` gives each registered built-in the list of its steps that can fail
or that touch something shared, in the code's order: `Needs("server")` is the
check for a nil service, `Eval` any rendering or parsing that may fail,
`Call("model")` something outside the program, `LookUp` and `Keep` a value read
in one step and stored in a later one, `Take` a count taken under the
registry's lock, `Enter` the execution of another handler. `Actions` gives them
their meaning. A goroutine is a stack of frames, one per `Execute`: `ab-test`
executes a handler inside another, `shadow` in a goroutine of its own. A frame
has the attempt, the step of the handler, the instruction of the step and what
was read (`got`). `Attempted` and `Stepped` are the retry loop of `Execute` and
the loops over the steps, with their different treatment of exit codes;
`Acted`, `Respond` and `Reply` the three places a respond is sent from. One
action at the top level has three forms, as `Execute` treats them differently:
`run` or `builtin` (concise), `script` or `file`, `db` and `sql`. In each the
action is a copy with the handler's `respond`; `isConcise` knows that of the
first and the last, and a script's respond is sent by `Reply` once more.

`Registered` is the registration as pairs, `builtinRegistry` the function it
makes.

`reg` is what the registry keeps per handler, `chat` the connection's
conversations, `stored` one key of the KV store, `there` the clients that are
connected. `Limit` is `max_history`, which reaches the chats in lists of
actions only. `log` records what was sent, taken and kept, with the handler,
the message and the depth of the frame: a handler that `ab-test` executes
inside another one answers the same message. The properties speak of places in
`log` (`Logged(h, "turn")`: where a turn of `h` is recorded) and of how many come
earlier, so that they need no filtered copies of it. What a chat remembers is
said of each conversation by itself: a handler that uses both chats has two.

### Fields

`FieldsOf` is what each built-in asks for (`Scope`, `Help`, `Validate`) and
reads. A handler is the form it has, its built-in, the fields that are set and
those whose value does not parse; `Variants` are the handlers somebody might
write instead of a whole one. `CheckedFields`, `ConciseFields` and
`PipelineFields` are the three copies of `config.go:511`, `dispatcher.go:513`
and `dispatcher.go:654`. The actions are the ways into the registry (a file,
`--on`, `:handler add` with the flags of client or server, the editors, the
HTTP API), a message that matches, and the action that is built for it. What an
editor brings back has lost `base_dir`, as the field is not written out.

### Debounce, KVStore, Streams

`Debounce`: a `time.AfterFunc` timer is armed, fired (its function is about to
run, `Stop` comes too late) or done; `ran` is the order in which messages were
taken, not in which they finish.

`KVStore`: `Get` is `Look`, `Test` and `Evict`. `Evict` deletes whatever the
key holds by then; that a value set in between is lost is what the code does
and no property denies it.

`Streams`: `named` is the entry of the map, `stream` the objects; lookups take
`m.mu`, everything else the stream's `mu`, which `HandleSSE` keeps during the
replay. `Offer` is the non-blocking send. The second part of `ReplayThenLive`
speaks of streams that were not created twice: `UpdateStreamConfig` looks and
creates under different locks, and a replaced stream's consumers get nothing
more.

### ServerLife

`smu` is `s.mu` with its holder. Only `Broadcast` and `Stop` hold it over
several steps, one per connection, since `Write` and `Close` take time; every
other critical section is one step that needs it free. `conn[c]` follows
`serveWS`: asked, upgraded (hijacked, from here `http.Server.Shutdown` no
longer waits for it), registered, counted in `s.wg` and running, disconnected,
deleted, ended. `over` are the connections whose `Done()` is closed and
`queue` their write queues; how a connection gets there is `Connection`'s
subject, whose `CloseReleasesAll` justifies that `StopClose` and a `Write` to a
connection that is over come to an end.
Histories: `early`, `late` (clients served before, registered after `Stop`
closed the connections).

### Sources

A command is the list of its steps, each under one lock: stop the source,
edit the registry, start the source. The look for a running one and the start
(`Launch`) are one critical section, the test of the kind and of the disabled
set comes before it (`StartChecked`). An entry of `cancels` is the cancel
function of a goroutine. A goroutine that is cancelled while it connects may
succeed all the same. Once it is active, MQTT and NATS wait for `ctx.Done()`
and Kafka's `ReadMessage` takes the context (`ActiveEnds`). Redis' does not
look at it: `ReceiveMessage` returns with a message or when the connection
fails, and only after an error the loop asks whether it was cancelled. So
`CancelledEnds` leaves out a redis subscriber whose connection stays up.
`astray` records that an update, rename or reload was refused after the
sources were touched, or that a handler was renamed to its own name; after
these the code leaves sources stopped, or running without an entry, and
`SourcesAgree` says nothing.

### Limits, Static, Repl

`Limits`: an hour has `Hour` ticks, as many as one likes, and a client is
forgotten after more than these. A limit is what `ParseRateLimit` takes: any
multiple of `1 / Fine` of a request, by the second, minute or hour. Its burst
is the number cut to an integer, and at least one (`Bucket`); `Gain` is what
comes back in a tick. Buckets are counted in parts of a token, `Cost` of them
to one, so that all this stays in integers. `LimitsHold` bounds what a client
is served by its bucket and its rate, where a rate below one an hour counts as
one an hour (`Pace`): its bucket of one token is not full when the client is
forgotten, and full again when it comes back. The global bucket is never
forgotten and its bound is exact. A request takes a token of the global bucket
before its client's is looked at (`CheckRateLimit`).

`Static`: `servers` is the map, `listener[i]` the goroutine of server `i`,
which listens after the map's lock is released; `RemoveFailed` deletes the
entry of the port, whosever it is by then, and `crossed` remembers when it was
another server's.

`Repl`: `calls` is the Go stack of `ExecuteCommand`, with the depth that
aliases and `:source` count and the cancel function an interrupt finds
(`cmdCancel`). `ReadLine` takes a line's kind only; `blocks` records what came
out, as numbers of lines.

### Reconnect, Relay, Backoff

`Reconnect`: `phase` is the place in the loop of `connect`, among them the four
selects that wait (`retry`, `again`, `idle`, `select`), and the two ends: `over`,
after the connection was closed, and `failed`, where a `--send`, `--input` or
`--expect` without a terminal returns its error and leaves the connection as it
is (`AutomationFails`). `ended` is how the
connection ended; what `IsUnexpectedCloseError` knows is `Unexpected`. A select
takes any ready case when it looks; one that already waits takes the case that
becomes ready first (`Parked`). Requests to dial and the input are channels of
capacity one and zero.

`Relay`: each side has a connection (`link`, `writeQ`), a subscription (`sub`)
and the pump that reads from it. `lost` are the messages that came before the
pump had subscribed, or when its channel was full.

`Backoff`: `failures` is the attempt number of the loop, `wait` the length it
computed and `before` the one it computed last in the same outage. Integers
wrap at `Width` bits, 64 in the code; the client computes with floating point
numbers, which do not wrap, so there the number is exact.

## 3. Runs

| Run | Shows |
|---|---|
| `connection` | order, graceful close, channel safety, final close code |
| `links` | a connection that closes releases its closer, its writers and its consumers, even if the network takes nothing, and it implements `OrderedLink`; the client holds one connection at most, none but after a failed automation when it returns, and serves `:connect` and `:exit` wherever its loop waits; the relay keeps order; relayed clients and replays that are ending come to an end as a whole; consumers of a stream get the replay, then live events |
| `connection_own_close` | disagreement: a read error in our own graceful close turns code 1000 into 1006 |
| `parts` | `Dispatch`: pausing loses, repeats and reorders nothing that was buffered and leaks a bounded number of messages. `Actions`: sequences, samples and rotations go in turn, broadcasts keep their window, chats and scripts remember their turns, each message ends once, and what the handler says of its own at the end it says once. `Limits`: nobody is served more than the buckets and the time allow. `Static`: every listening server can be stopped. `Repl`: each line comes out once. `KVStore`: no stale read. `TopicStore`: sticky messages reach every subscriber, nothing is delivered after unsubscribing. `Fields`: what was validated is what is executed. `Backoff`: during an outage waits do not shrink and stay under the maximum |
| `topics_lost` | disagreement: a subscription joins an entry that has left the map |
| `fields_lost` | disagreement: a field that is set does not reach its built-in |
| `dispatch_resume` | disagreement: `Resume` can miss a flusher that is about to sleep |
| `handlers` | serial handlers never overlap, undisturbed messages see their handlers in order, a spent once handler stays spent, every goroutine ends |
| `handlers_edited` | disagreement: an edit makes a message run a handler it does not match |
| `handlers_once` | disagreement: two messages matched early both get the once response |
| `services` | sources: after each command exactly the enabled source handlers run, and cancelled ones end, save a redis subscriber that goes on receiving. Debounce: nothing twice or out of order, the last message is kept. Server: `Stop` waits for whom it closed and returns. Dispatch: sleeping flushers are woken |
| `sse_replay` | disagreement: a replay longer than the channel blocks the stream for good |

Bounds, and why they suffice:

- `connection`: two writers and one oversize message, a queue of two, two
  subscribers with room for one of two inbound messages, close codes 1000 and
  4000, peer code 1001. Two queued messages make order visible. The second
  subscriber is the one that unsubscribes while the loop sends or cleans up.
- `links`, connection: as above with a queue of one, so that a full one blocks.
  Client: sessions with and without terminal and reconnecting, one attempt or
  any number, two losses and two requests: a request meets a wait, a dial and a
  loss. Relay: two messages one way and one the other, queues of one, so that
  both queues fill and a message comes early. Streams: two consumers, one
  producer, a buffer and channels of two, three events, so that the oldest is
  dropped. The buffer is no longer than a channel here; `sse_replay` has one of three.
- `parts`, dispatch: one connection, four messages, three pauses; a later pause
  lets the stale decision of an earlier one act in it.
- `parts`, actions: two messages; each built-in once as a concise handler with
  its services there or not, and the stateful ones as serial, retried or
  looping handlers, in lists, pipelines and nested in `ab-test` and `shadow`;
  a script and a database handler with a respond.
  Two responses, a pool of two clients of which one may leave, a history of
  three entries (one turn and a half, so that the cut falls inside a turn).
- `parts`, limits: two hosts and origins, four half hours, seven requests, and
  limits of 0.5, 2 and 4 an hour and 2.5 a minute: a client can be forgotten and
  come back, with its old bucket full or not and the global one empty or not.
- `parts`, static: two ports, one command, three servers: one fails late after
  being replaced. Repl: four lines, two interrupts, a depth of two with an
  alias of itself and a file that sources itself. KV: one key, two values, two
  readers.
- `parts`, topics: three goroutines, two clients, two topics, three entries,
  one message, four calls. The races found need two goroutines on one topic
  and a third call on the same name; a second topic is needed for
  `UnsubscribeAll`.
- `parts`, fields: every built-in in every form, whole or with one field more,
  one less or one that does not parse, in both modes; one handler at a time.
- `parts`, backoff: eight bits, an interval of 2, a maximum of 30, ten failures:
  the cap is reached at the fifth failure and the product outgrows the integers
  at the seventh, so ten show the loop before, at and after both. One loop of
  a handler is linear, and one of the client gives up after two attempts.
- `handlers`: two messages, a serial handler with a retry and a once handler,
  one edit of any kind. Two messages are what mutexes and once are about; with
  no edit `handlers_once` shows its race alone.
- `services`: one commander, two names, two commands on top of the start; a
  Redis source, and an MQTT source that stands for NATS, which differs from it in
  nothing the model keeps; Kafka loses its connection as the one does and ends
  when cancelled as the other. Two commanders at once can leave sources and
  registry disagreeing; the properties are about one at a time. Three debounced
  messages and a drop; two clients, two callers with two calls in all and a
  queue of one, so that a second broadcast blocks; two connections with one
  message and one pause, which tells Broadcast from Signal.

Deadlock is checked in every run but `sse_replay`, where the stream really
stops; the `Quiet` action of a module says when the system may rest.

Fairness: the Go scheduler runs a goroutine that can go on (weak fairness of
the loops, of blocked `Write`s once they can return and of a `Resume` that has
begun), timers fire, and an operation on a closed socket returns. A select with
a case that is ready again and again takes it sooner or later (strong fairness
of `TakeRequest` and `InputEnded`: Go chooses among ready cases at random).
Nothing is assumed of callers starting a call or of an administrator ever
resuming. Nor is anything assumed of the peer or of the network taking what is
written, with one exception: `ServerLife` assumes that a queue drains or its
connection breaks. Without that `Broadcast` keeps `s.mu` for ever, and `Kick`
and `Stop` with it (the hazard at `server.go:655`). `Streams` assumes that a
response takes what is written to it, `Sources` that an attempt to subscribe
succeeds or fails and that what takes the context returns when it is cancelled
(not that a redis subscriber's connection ever fails), `Reconnect` that a dial ends, and `Handlers` that an action comes to
an end.

What the properties leave out, because the code does not do it: overlapping
executions after an edit dropped the mutex (`Serialized`); turns, rotations and
windows of handlers that are not serial (`InTurn`, `WindowKept`,
`TurnsRemembered`); ports whose successor lost its entry (`Stoppable`); lines
that end in a backslash inside a heredoc (`BlocksWhole`); `:exit` during an
unlimited series of attempts (`UserIsServed`); pipeline steps, which nobody
validates (`AcceptedIsWhole`); waits of handlers and sources once their product
no longer fits (`WaitsGrow`); a cancelled redis subscriber that goes on receiving
(`CancelledEnds`); what a client limited to less than one request an hour gets
beyond its rate after it was forgotten (`LimitsHold`); that a script's respond is
an answer too (`AnsweredOnce`). Section 5 has them again.

## 4. Theorems

Every theorem holds for all values of the constants that satisfy the module's
assumption (`ConnAssumption`, `StoreAssumption` and so on: bounds are natural
numbers, sets of names are what they are, `None` is none of the values it
stands in for). Each follows the same argument: an inductive invariant is
preserved by every step and implies the checked property, which is not
inductive alone.

| Module | Theorems | What the invariant adds to the properties |
|---|---|---|
| `Connection` | `InductiveInvariant`, and from it `MessagesConserved`, `CloseIsGraceful`, `ChannelsSafe`, `TypeCorrect`, `ReportIsFinal`; `ConnectionIsLink`, the safety part of the refinement of `OrderedLink` | One goroutine at most is inside `forceClose`, and the socket is closed after `_done` only (`SingleForceClose`); the write loop holds a message exactly where its code has one in hand (`LoopInv`); a flush implies a close that has begun, and at its close frame everything accepted before is out (`FlushInv`); a read loop past its cleanup has seen the connection closed (`ReadInv`). `GracefulFlush` needs `FlushInv` at the step that writes the close frame, and that needs `Conservation` with the queue empty |
| `TopicStore` | `StoreInductive`, `StoreTypeCorrect`, `StickyReaches`, `Unsubscribed` | A message belongs to one call, and nobody has it before that call's snapshot (`MsgInv`); an entry stands for one topic for ever and is made without subscribers (`EntryInv`); who is subscribed to an entry with a retained message was sent it or stands in a snapshot that is being delivered (`RetainedInv`); while a call that will mark its connection absent is alone, nobody puts the connection back (`AbsentInv`) |
| `Dispatch` | `DispatchInductive`, `DispatchTypeCorrect`, `DispatchBufferedOnce`, `DispatchPauseLeaksOne` | Message numbers are handled, kept or still in the subscription, none in two of these, and the kept ones are in order from what was flushed to the buffer (`PlaceInv`); while paused, a goroutine about to let messages through has let none through since the pause began (`PauseInv`) |
| `Handlers` | `HandlersInductive`, `HandlersTypeCorrect`, `HandlersSerialized`, `HandlersInOrder`, `HandlersNoSecondShot` | The slice is sorted and lies in its array, and what goroutines remember of older arrays still points to handlers (`SliceInv`, `CallInv`); spent handlers are disabled (`RegistryInv`), without which `NoSecondShot` is not inductive; who is inside a serial handler holds the mutex of its name, the same one for all of an epoch (`MutexInv`); what an undisturbed message still has to do comes after what it did (`OrderInv`). A lemma shows that `Sorted` sorts: ranks are a permutation |
| `Actions` | `ActionsInductive`, `ActionsTyped`, `ActionsInTurn`, `ActionsWindowKept`, `ActionsRemember`, `ActionsAnswerOnce` | Where each frame of each execution stands and what it holds there, and that the frames below the running one wait for it (`StackInv`); one frame of a serial handler past its lock (`MutexInv`), therefore what such a frame read is still there when it writes (`ReadInv`); a counter counted what it logged (`CountInv`); the place after the last client, and the time of a client's last broadcast, are in the registry or with the frame that is about to put them there (`RotationInv`, `SpreadInv`); the conversations are the turns logged (`TurnInv`); what a message has been sent is what its first frame says about how it went (`AnswerInv`) |
| `ServerLife` | `ServerInductive`, `ServerTypeCorrect`, `ServerStopWaits` | `connections` and `s.wg` are functions of where each `serveWS` is (`KnownInv`); who holds `s.mu` is the call that is in its section (`LockInv`); whom `Stop` saw is counted or has ended (`EarlyInv`) |
| `Sources`, one commander | `SourcesInductive`, `SourcesTypeCorrect`, `SourcesConsistent` | Entries lead to running goroutines, one each (`EntriesRun`), and what runs has an entry (`Owned`); for each step of a command, what it has left to do and which names may disagree with the registry meanwhile (`Doing`); how many goroutines there can be (`Room`) |
| `Debounce` | `DebounceInductive`, `DebounceTypeCorrect`, `DebounceOrdered` | A message that arrived is on its way or has armed a timer (`DebShape`) and is given once, to one debouncer (`GivenOnce`); the pending one is the last given, and what was taken is pending no more (`PendingIsLast`, `TakenOnce`) |
| `Streams` | `StreamsInductive`, `StreamsTypeCorrect`, `StreamsReplayThenLive` | Who replays holds the lock of the stream (`ConsumersKnow`); buffers are in order; what a consumer got, what is in its channel and what its replay has left increases as a whole (`WaysInOrder`) |
| `Relay` | `RelayInductive`, `RelayTypeCorrect`, `RelayKeepsOrder` | What a pump has at each of its stages; what was lost had been sent; what `RelayedInOrder` says of a client whose two sides are up holds from the start until a side is down (`NothingAstray`) |
| `KVStore` | `KVInductive`, `KVTypeCorrect`, `KVNothingStale` | What `Get` found and still has to test was there when the read began, and if it was stale then, it had expired (`FoundFresh`) |
| `Static` | `StaticInductive`, `StaticTypeCorrect`, `StaticStoppable` | An entry is at its own port, and a server that listens or is going to and has no entry is being stopped or lost it to a failed listener (`CanStop`) |
| `Limits` | `LimitsInductive`, `LimitsTypeCorrect`, `LimitsAreHeld` | What was served and what is left in a bucket are together no more than it held and got, and as nothing is served to a client that is not seen, an hour at `Pace`, the least time until it is forgotten, is worth a full bucket (`ClientInv`, `RateFacts`) |
| `Reconnect` | `ReconnectOneConnection` | The domains of the variables are inductive together: the number of open connections is one in the phases that send or wait for the end, zero in the others; after a failed automation it is what it was |
| `Backoff` | `BackoffInductive`, `BackoffGrows`, `BackoffTypeCorrect` | The wait, and the one before it in the same outage, are those of the number of failures and of one failure less (`BackoffInv`), so that comparing two waits is comparing a power with its double |
| `Repl` | `ReplInductive`, `ReplBlocksWhole`, `ReplNests` | No line is in two places (`OnePlace`); what is being joined, or read as a heredoc, is whole up to the last line typed but for the lines that the other of the two took (`JoinInv`, `HeredocInv`). For `ReplNests`: every call but the innermost is a script's, so that there are as many calls as counted ones or one more, and the cancel function is that of a call on the stack that is no alias (`NestInv`) |

Assumptions beyond the bounds: `Sources` is proved for one commander, as two
that edit the same handler can leave sources and registry disagreeing. What the
properties except (end of section 3), the theorems except too.

The proof of `Actions` has a step for each kind of instruction rather than
each built-in. `ActionsSteps` first shows what every script has at the places
where it reads, stores or counts (`AllFit`, `AllMarked`). A step moves the
running frame of one goroutine: the `Lands` lemmas say where it goes (the next
instruction, the next step of the handler, another attempt, the error hooks, the
return), `Changes` that every other frame stays where it is, and for each part of
the invariant a `Kept` lemma says what a step must leave alone for that part to
hold. Most instructions cite these. `ActionsProofs` has the ones that do change
something shared: there the mutex makes the frame the only one of its handler
that has read the value, so that it writes what follows from the log. Without
`concurrent: false` it is not, which is why the properties except those
handlers. `sequence` and `sample` need no mutex: the number is taken and counted
in one critical section.

`SequenceLemmas` has what several of these need: sequences without repetition
and increasing ones under append, tail, concatenation and cutting, and that a
set of naturals that has an element has a smallest one (`Smallest`).

The powers of two in `Backoff` are a function, `Power`. What the proofs need of
it for every exponent (that it is defined by its equation, that it grows, that
it is positive) is shown by the smallest counterexample: `Smallest` gives the
first exponent where a fact fails, and the equation of that exponent
contradicts it. `WaitsGrow` is checked with eight bits; the theorem holds for
the 64 of the code.

Model-checked only:

- Liveness. LS4 and the SMT back end do not reason about ENABLED, so fairness
  cannot be used in a proof.
- `Fields` (`AcceptedIsWhole`): the module has no parameters, so the run is
  exhaustive.
- The type invariants of `MCLinks`, `MCServices` and `MCParts` as wholes. Those
  of the components they put side by side have theorems, all but that of
  `Fields`.

## 5. Disagreements found

With a run that shows them (`PROJECT.json` quotes the lines they contradict):

1. `internal/ws/connection.go:507`, run `connection_own_close`.
2. `internal/server/topics.go:57` and `:102`, run `topics_lost`.
3. `internal/server/server.go:829`, run `dispatch_resume`.
4. `internal/handler/registry.go:455`, run `handlers_edited`.
5. `internal/handler/builtins_impl.go:4130`, run `handlers_once`.
6. `internal/handler/dispatcher.go:486`, run `fields_lost`.
7. `internal/server/sse.go:131`, run `sse_replay`.

Met while modelling, and kept in the models as the code has them or outside of
what is modelled:

- Handlers. `dispatcher.go:457` says "Always execute respond if present"; a
  concise handler that is retried sends it once per attempt. The note below it
  (`dispatcher.go:459`) says that the respond is sent there for what is not
  concise only: `script` and `file` are missing from `isConcise`, so that such a
  handler at the top level answers twice, in its action and there. The exit code of a
  shell step with `ignore_error` fails the next step of a pipeline that does
  not ignore it. `max_history` never reaches a concise or pipeline chat, and
  its documented default of 10 is applied nowhere; `model` is lost in
  pipelines; `base_dir` is lost in lists of actions and after an edit in the
  shell or over HTTP. A concise `sqlite` handler is always refused, since the
  copy that is validated lacks `db` and `sql`. Steps of a pipeline are not
  validated. The help of `debounce` says "Only the first message is passed"
  (`builtins_impl.go:4155`); the code passes the last (`registry.go:919`), as
  `LastIsExecuted` and the description at `:4147` have it. `:handler add` of the client lacks the flags of `rate-limit`,
  `sample` and `delay`. Loading a file does not look for duplicate names.
- Waits. Handlers and sources multiply an interval by a shifted one in 64 bits:
  after about 30 failures of an outage the product is negative or zero and they
  try again without waiting (`dispatcher.go:634`, `server.go:1166`). A Kafka
  source counts its failures since it started, not since it was last up.
- Sources. A redis source that was stopped, disabled, deleted or replaced goes
  on receiving and broadcasting until its connection fails (`server.go:1189`; the
  comment at `:1191` expects a cancellation to end `ReceiveMessage`), beside the
  goroutine that replaced it.
- Requests and files. A client limited to less than one request an hour gets a
  new token when it is forgotten, after an hour: the burst is rounded up to one
  (`config.go:722`), and the bucket it had is not full then. A refused client
  costs the others a global token. A
  listener that fails late takes its successor's entry away.
- Client. A failed `--send`, `--input` or `--expect` without a terminal returns
  without closing the connection (`cmd/connect.go:980`, `:992`, `:999`, `:1011`),
  as a failed script does not. Resets and missed pongs do not count as unexpected closes, so they
  end a session that should reconnect (`README.md:1657`). `:exit` between two of
  unlimited attempts never ends the client. A message over
  `--max-message-size` ends it as `:exit` would (`cmd/connect.go:1066`). A
  forced dial or exit skips the disconnect hooks. A line of input while idle
  dials, though the comment there says it is ignored.
- Shell. A heredoc line that ends in a backslash comes out of its place; an
  interrupt cannot leave a heredoc and skips one command of a script.
- Not modelled: `:mock` with a file, `off` and a file again closes a closed
  channel (`internal/mock/mock.go:81`), and its `after` steps never fire, as
  the context of the command is done; a reply that comes after the timeout of
  `:bench` is counted for the next request (`internal/repl/bench.go:63`).

## 6. Plan

1. Proofs: `Fields`, whose lists of names would become parameters.
2. Forwards on a shared connection and the benchmark's pairing of answers.
3. Compositions: `ServerLife` with `TopicStore` (subscriptions of a connection
   that is ending) and `Connection` with `Dispatch` (messages read before the
   dispatcher subscribes).

## 7. Not modelled, and why

Rendering of templates, the Lua and SQLite engines, child processes, YAML
decoding, completion, formatting and the documentation generators are
sequential transformations of data; metrics are counters nobody decides on; the
static file templates are text, and so is most of the shell's `command.go` and
`server.go`: parsing arguments and printing state owned by other parts. Network
brokers and language-model services are external. A mock scenario, a recording
and a replay are one goroutine each, with nothing to interleave but their start
and stop. The lengths of delays are in `Backoff` and, as ticks, in `Actions` and
`Limits`; everywhere else a timer may fire at any moment.
