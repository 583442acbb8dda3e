# Verification of devicectrl-server

TLA+ models of devicectrl-server, checked with TLC and, where a property is
worth having for every size of the system, proved with TLAPS. Paths below are
relative to the repository (`src/devices/dispatch.rs`).

## The system

The server sits between clients (TCP and WebSocket lines, HTTP requests) and
devices (four protocols, one controller each). Everything runs as futures of one
tokio process that share an `AppState`: the device table behind an `RwLock`, the
hooks channel, the controllers and the configuration.

| Part | State it keeps | Operations | Talks to |
|---|---|---|---|
| Device table, `devices/mod.rs` | id, type, last reported state and controller of each device | built once, read and written under the lock | everybody |
| Dispatch, `devices/dispatch.rs` | none | `process_update_request`, `process_update_notification`, `query_all_device_states` | table, hooks, controllers |
| Controller selection, `controllers/mod.rs` | the enabled controllers | `dispatch_update`, `dispatch_query_state`, `start_listening` | controllers |
| Simple, `controllers/simple.rs` | listener, broadcast of 64 requests; per connection two nonces and an inbox of 16 | accept, handshake, reader, body, `send_update`, `send_query` | table, dispatch |
| Krypton, `controllers/krypton.rs` | the same without nonces and inbox, over TLS | accept, hello, handshake, loop, `send_update`, `send_query` | table, dispatch |
| Tplink, `controllers/tplink.rs` | a UDP socket; one more per update | listener; `send_update` waits for an answer or a timeout, then queries | table, dispatch |
| Govee, `controllers/govee.rs` | a UDP socket | listener; `send_update` computes from the cached state, sends, sleeps, queries | table, dispatch |
| Hooks, `hooks.rs` | broadcast of 16 hooks | send, resubscribe, recv | dispatch, scenes to backends, automations |
| TCP, WebSocket, `server_backends/` | one receiver per connection | `handle_line`, relay of state hooks | dispatch, scenes, table |
| HTTP, `server_backends/http.rs` | none | `handle_request` | dispatch, scenes |
| Scenes, `scenes.rs` | none | `process_scene_activate`: a hook, then all updates together | dispatch, hooks |
| Dependencies, `automations/dependencies.rs` | one receiver | turns the dependency of a device on and off with it | hooks, dispatch |
| Sunset, `automations/sunset_light_temp.rs` | a timer | steps colour temperatures | dispatch |
| Process, `main.rs`, `automations/mod.rs` | the set of tasks | start, exit on the first error; systemd restarts | all |
| Configuration, `config.rs` | none | read once | |

### What is hard

* The read guard of an update is held while a controller waits (Tplink for an
  answer, Govee for a delay). The lock is fair, so a notification that wants to
  write waits for it, and everybody who comes later waits for the notification.
* A notification writes the table and announces the state in two steps with no
  lock between them.
* Two broadcast channels overflow. A slow receiver is not slowed down, it loses
  messages and gets an error; each user of a channel must do the right thing then.
* The body and the reader of a Simple connection run concurrently and end
  separately.
* Futures are dropped wherever they wait: HTTP requests of clients that hang up,
  the other updates of a scene that fails.
* The dependency automation reads the hooks that it causes.
* One error of one automation stops the process; a restart forgets all states.

`PROJECT.json` lists each of these, and the smaller ones, at its line.

## Modules

| Module | Models | Checked by | Proved in |
|---|---|---|---|
| `DeviceLock` | the lock around the table (tokio, external) | in `scenes` and `dispatch` | `DeviceLockProofs` |
| `StateFeed` | what `process_update_notification` promises, abstractly | as `Feed` in `dispatch` | `DispatchProofs` |
| `Dispatch` | `dispatch.rs` and the controllers as it sees them, over `DeviceLock` | `dispatch` (`MCDispatch`) | `DispatchProofs` |
| `ClientSession` | TCP and WebSocket connections over the hooks channel and `StateFeed` | `session` (`MCClientSession`) | `ClientSessionProofs` |
| `Dependencies` | the dependency automation, its failures and the restart | `dependencies`, `dependencies_all` (`MCDependencies`) | `AutomationsProofs` |
| `DeviceLink` | what a controller with connections promises a device, abstractly | as `Link` in `simple`, `krypton` | `SimpleSessionProofs`, `KryptonSessionProofs` |
| `SimpleSession` | a connection of a Simple device | `simple`, `simple_heard` | `SimpleSessionProofs` |
| `KryptonSession` | connections of a Krypton device, and the threads they take | `krypton` | `KryptonSessionProofs` |
| `Mirror` | what the table promises about a device that answers queries, abstractly | as `Mirrored` in `tplink`, as `GoveeMirrored` in `govee` | `MirrorProofs` |
| `Reports` | the way of such an answer into the table, shared by the next two | with them | with them |
| `TplinkPlug` | an update of a Tplink plug, its answer and its timeout, over `Reports` | `tplink` | `MirrorProofs` |
| `GoveeLight` | an update of a Govee light computed from the table, over `Reports` | `govee` (`MCGoveeLight`) | `MirrorProofs` |
| `Scenes` | scenes and single updates of every kind of client, with updates that fail and are dropped, over `DeviceLock` | `scenes` (`MCScenes`) | `ScenesProofs` |
| `Sunset` | the sunset automation | `sunset` (`MCSunset`) | `AutomationsProofs` |
| `Lifecycle` | `main`, its tasks and the service manager | `lifecycle` (`MCLifecycle`) | `AutomationsProofs` |

`StateFeed` is the joint: `Dispatch` is shown to implement it with the lock and
the lookups hidden, and `ClientSession` is built on it, so what is shown about
clients does not depend on how notifications get at the table. In the same way
`DeviceLink` and `Mirror` say what the four controllers promise about their
devices: Simple and Krypton implement the one, Tplink and Govee the other.

`MirrorProofs` extends both devices that report by datagrams, since what it proves of
`Reports` serves both; `AutomationsProofs` extends the automations and the process they run
in. So that they can be extended together, the modules `GoveeLight`, `Sunset` and `Lifecycle`
name their `Init`, `Next`, `Spec` and types after themselves (`GoveeSpec`, `SunsetSpec`,
`ProcessSpec`).

In each module, the definitions with a comment such as "a listener that..." or "an
inbox without a limit" next to an action are variants of that action with a
plausible bug. Nothing uses them but the mutation of the model: for each property
there is a variant that breaks it.

### DeviceLock

`mode[t]` is what task `t` asked for and `ahead[t]` who was in the lock before it;
a guard is held when nobody ahead conflicts. A queue is not needed: the sets say
as much and make the proofs short. The lock is tokio's, so that the module has no
property of its own: it is what `Dispatch` and `Scenes` rest on. `Request` is the first poll of `read()` or
`write()`, `Release` the drop of a guard, `Cancel` the drop of a waiting future.

### Dispatch

`pc[t]` is the await point a future is at, `job[t]` the request or notification
it carries, `state` the table, `published` the state each device was last
announced with. One action for each stretch between two awaits: `BeginUpdate`,
then one of `RefuseUpdate`, `SendBroadcast` (Simple and Krypton), `SendTplink`
followed by `TplinkReply` or `TplinkTimeout`, `SendGovee` followed by
`GoveeSettled`; `BeginRead`/`EndRead` for whoever only looks; `ReceiveSimple` or
`ReceiveOther`, `Lookup`, `WantWrite`, `Apply`, `Announce` for a notification;
`Abandon` for a future that is dropped. What the update says is kept as far as
a controller tells updates apart (`Accepts`).

* `AnnouncedIsCurrent`: what was last announced is what the table says, for a
  device with one notifier and outside the gap. With two notifiers (a device
  that reconnected before its old connection was given up) it does not hold,
  and the property does not claim it; the run has such a device.
* `FrozenWhileDispatching`: no state changes while a controller waits.
* `FeedImplemented`: the refinement of `StateFeed`.
* `EveryJobEnds`: every request and notification ends if no device answers.

Fairness (`Progress`): a ready future is polled, timers fire. A reply of a device
is not fair, nor is the start of anything.

### ClientSession

`log` is everything ever sent on the hooks channel, `next[c]` the position of a
receiver; it is behind too far when more than `Capacity` hooks are ahead of it.
While `phase[c]` is not "open" the connection is in `handle_line` and takes no
hooks. `view[c]` is what the client was told. The catalog tells it nothing about
states (`Device::descriptor`), so a client that connects knows nothing of a device
until the device reports.

* `Gapless`: no hook is skipped or repeated between subscription and end.
* `CaughtUpIsCurrent`: a client that got everything is right about the table.
* `ClientEndsUpCurrent`: a client that stays gets there, for every device that it was
  told of at all.

Fairness: an announcement follows its write, and a connection goes on with its
line or its hooks. It is assumed that a client reads what is written to it or its
socket fails. `futures::select` polls the line first; the model leaves the choice
open, and a client sends finitely many lines.

### Dependencies

`log` again, with the fields the automation looks at; `auto` is what it is doing.
`Happen` is everybody else. A failed dispatch or a lost hook ends the automation
(`Lag`, `Refuse`, `EndDispatch`), then the process (`Exit`); `Restart` clears the
channel. `Crash` may happen at any time.

* `OnIsPassedOn`: whenever the automation has caught up, no On since its
  subscription was without consequence, chains included.
* `PoweredWhileOn`: if the last report of a device is On, the last command to its
  own dependency is On, whatever reports and commands crossed. It is stated for a
  dependency of one device that nobody else commands, because the code does not
  count dependents.
* `KeepsUpOrRestarts`: it catches up again and again, or the server goes down. The
  configuration of that run has no cycle; with one, the automation never ends. "down"
  is that `main` returns; that the process may even then stay up is in `Lifecycle`.

`dependencies_all` shows what does not hold, against the comment at
`automations/dependencies.rs:29`: only the first of several dependencies is
switched.

### SimpleSession

`requests` is all that was sent on the broadcast channel, `cursor` the position of
the connection, `sent` what the device sent on it, `read` how far the reader got.
`inbox`, `hand` and `handled` hold positions in `sent`. A signature is a Boolean, a
nonce a number modulo `Modulus` (2^32 in the code). `phase` is "ending" when the
body has returned and the scope waits for the reader.

* `ReaderKeepsProtocol`: the reader accepts what the protocol asks for and nothing
  else, also when the nonce wraps.
* `MessagesInOrder`: what it accepted is handled once and in order.
* `CommandsInOrder`: every request for the device since the accept is written,
  once and in order, those sent during the handshake included.
* `NoncesInStep`: the device sees every nonce it expects.
* `BodyKeepsUp`: neither channel is left behind while the body runs.
* `LinkImplemented`: the refinement of `DeviceLink`, over reconnections.

`simple_heard` shows that a connection whose body fell behind on requests stays
open without listening. These runs may stop (`CHECK_DEADLOCK FALSE`): a connection
whose device hung up waits for a request that the bounded model does not have. In
the code it waits too, until somebody sends one.

### DeviceLink and KryptonSession

`DeviceLink` keeps, for one device, the requests that were sent (`requests`), where
its connection began in them (`since`), which of them it got (`got`), and how many
of its messages were taken. `Deliver` is the only step that adds to `got`, and takes
the first request for the device that is missing.

`KryptonSession` follows one connection after the other. The accept loop runs each as a task of
its own, and they touch each other in two ways only: the channel of the requests (`requests`,
which everybody adds to) and the threads. `hello` and `heard` are the parts
of the hello sent and read, `spinning` the connections whose hello loop runs on at
the end of the stream, the followed one (`ReadEnd`) or any other at any time
(`ReadEndElsewhere`), each with its worker thread for good: nothing of the server
runs when all `Workers` spin (`Runs`). `again` is whether the device has sent its hello a
second time, which the TLS acceptor needs, since the first was read off the
socket. One action for each arm of the loop of `handle_conn`; a
notification is `busy` while it waits for the table.

* `LinkImplemented`: over reconnections, lag and hellos in pieces, the device gets
  every request since it was accepted, in order and without a gap, and each of its
  messages is taken once. A connection is only ever served when its device repeats
  its hello (see the known disagreements).
* `DeviceIsHeard`: what the device sent is worked off, or the connection is closed, or
  every thread spins: hellos of other devices can leave an open connection unheard, and
  the formula says so. (`DeviceIsHeard` without that exception is what `simple_heard`
  refutes of Simple; Krypton, with one loop, has it.)

Fairness: the hello and the loop are polled while a thread is left.
`EndHandshake` and `FailHandshake` need something of the device.

### Reports, TplinkPlug and GoveeLight

`history` is every state the device has had. A report on its way (`toServer`), the
one the listener works on (`hearing`) and the one in the table (`seen`) are indices
in it, so that staleness can be told; `known` is FALSE while the table says Unknown.
`Record` is all of `process_update_notification`, and is enabled only while no update
holds the table, which is what `FrozenWhileDispatching` shows. Datagrams are lost (`lost`, where
one that said or asked for a state was) and, at most `MaxOvertaken` of them, overtaken by the
one sent after them (`overtaken`); the network does not duplicate them. A report does not say
when it was made, so that a report that is overtaken takes the table back, and nothing in
the code could tell; the properties say what holds until then, and what holds nevertheless.

`TplinkPlug`: each update opens a `socket`, sends its command and waits; `TakeAnswer`
is an answer in time, with the query that follows a success, `GiveUp` the timeout
or the dropped future. An answer comes whenever it likes and finds its socket or
nobody: `recv` does not look at the sender, and it is assumed that the port of a closed
socket is not given out again while an answer to it is under way. States are named after
the update that caused them, so that two updates to On are not confused.

* `ConfirmedIsDone`: an update that ended well has switched the plug itself; the late
  answer to an update that gave up is never taken for another's.
* `MirrorImplemented`: the table never goes back, over loss, timeouts and restarts, while
  nothing is overtaken, and never says what the plug was not.
* `ConfirmedIsSeen`: what a confirmed update did gets into the table and stays, while the
  network loses only commands and answers and nothing is overtaken.
* `AskedIsSeen`: of an update that timed out this is not so; but as soon as anybody asks,
  the table gets to what the plug then was, or to something later, also when datagrams are
  overtaken.

`GoveeLight`: `GoveeUpdate` computes the command from the table (`Payload`), `Settle` is the
end of the delay and its query, `Abandon` the dropped future. `base` remembers which
state a step was computed from, `delaying` counts the updates in their delay, `changes`
the updates and what the light's own app does, and `abandoned` says that an update was.
`apply_to` is in `devicectrl-common`, which the repository does not contain: it is taken to
add or subtract and to stay in range, and all relative updates to ask for one step of
`StepSize`, which the proofs leave open.

* `StepsUpNeverDim`: while the light is only switched and stepped up and nothing is
  overtaken, steps from a table that lags do not dim it. Steps that were computed from an
  older table, or from Unknown after a restart, are left out, because they do.
* `StepsCount`: two steps in a row may add up to one, as the second is computed from a table
  that does not know of the first. A step whose table knew of every earlier change of the
  level counts, once, whatever was lost, overtaken or restarted.
* `GoveeMirrorImplemented`: as `MirrorImplemented` above.
* `EveryUpdateIsSeen`: what an update did is seen, or something later, if no query or report
  was lost or overtaken and no update abandoned.
* `GoveeAskedIsSeen`: of an abandoned update this is not so; but as soon as anybody asks, the
  table gets there, as with the plug.

Fairness: timers fire, the listener is polled, and the device works off its
datagrams. Loss, overtaking, late answers, the device's own button or app and the restart are
not fair.

### Scenes

The updates of a scene are futures of one task, each with a place in the lock of
its own (`Poll`, `Send`, `Finish`). The first that fails (`Fail`) or a client that hangs
up (`HangUp`, HTTP only) drops the others one by one (`Drop`), wherever they are.
A caller asks for its scene (`CallScene`), which may not be configured, or for one of its updates
(`CallUpdate`); `single` and `wanted` say which. Notifiers write between them (`Want`, `Write`).

The answers are not the same for all. `told` is what the caller was sent: over HTTP, and
for a scene over a socket, RequestReceived or an error when it is known how the request went
(`Answer`); for a single update over a socket (`Early`) RequestReceived before the update
(`tcp.rs:101`, `websocket.rs:125`), and an error later if it fails. A client that is gone
when it is to be answered ends its connection (`AnswerFails`, `CallUpdate`), and in the early
case the update is not made.

* `AnswerIsTrue`: RequestReceived where it follows the request, and the quiet end of one
  that was answered before, mean that everything was sent and nothing failed; an error,
  that something failed or nothing was sent.
* `EveryCallEnds`: every request ends and every notification is recorded, although an
  update holds the guard that a notification waits for while other updates of the
  same scene wait behind the notification. This rests on the controllers giving up:
  the timeout and the delay are what is fair about `Step`.

### Sunset

Time is in steps of a short day. `SunsetTime` and `DuskTime` are when the sun sets and when
it is dusk on each day, which need not be the same on any two. `NextEvening` is the head of the loop: sunset of
today, or civil dusk of tomorrow. `Begin`, `NextTemp` for each light and `End` are the
body, `Tick` the clock, which passes no deadline by more than `MaxLate`. `runs`
remembers when runs began and ended.

* `OncePerEvening`, `EveryEvening`: no evening has two runs, and none is left out
  unless the server was not up at sunset, had failed, or was still at an earlier
  run, although there are two times an evening may begin at and runs may end
  between them, after midnight or after the next sunset.
* `RampInTime`: the last temperature comes within the configured duration, but for the
  lateness of each step.

`SunsetAssumption` says that on every day the sun sets before it is dusk, and that dusk, with
the lateness of a sleep, is before midnight of the server's clock. A server whose clock is set
to the time of another continent, or that is close to a pole, is outside of it.

### Lifecycle

`main` goes step by step through `main.rs`; `task` is each backend and automation,
`configured` those of this server, `group` the two `JoinSet`s they are in, `listener` each controller, `query` the startup
query of each device. Tasks run from when they are spawned, so before `main` goes on.
An automation that comes to its end counts as one that fails, since both end
the process, and no automation ends without an error.

The end has two steps. `Return` is the return of `main` ("stopping"): its tasks end at their
next await. `RuntimeEnds` is the drop of the runtime, which waits for every worker. A
worker whose Krypton hello spins (`HelloSpins`, `spinning`) never gets to an await, so that the process
then stays up, without serving anybody, and systemd has nothing to restart.

* `BoundBeforeUse`: no query, client or automation finds a controller unbound.
* `FailureEndsProcess`: an error of a backend or automation ends the process, also
  when it comes while `main` is still starting the others, unless a hello spins.
* `ReadyBecomesTrue`: systemd is told that the server is ready before its backends have bound
  their ports; each that is configured comes up after that, or the process stops.
* `EveryDeviceIsQueried`: the failure of one query does not keep the others back. A query
  to a device that is not connected goes to nobody, and is made all the same.

Fairness: `main`, the start of tasks, the groups and the queries are polled while a worker
is left, and systemd restarts. Failures, connections and hellos are not fair.

## Known disagreements

What a document, a comment or a log line of the repository says and the code does
not do. Two have a run that ends in the violation and an entry under `findings`:

* `dependencies_all` (`automations/dependencies.rs:32`): of several dependencies of a
  device only the first is switched; the comment at `:29` says that dependencies must
  be turned on as soon as their dependent is.
* `simple_heard` (`controllers/simple.rs:223`): a connection whose body fell behind on
  requests stays open and drops what its device reports.

The others are in the models as steps of the code, and no property claims the opposite:

* `automations/dependencies.rs:23`: the automation subscribes after the listeners, the
  first query and the backends were started; a device that is commanded on or reports On before
  that is not followed, against the same comment (`Dependencies`: `Happen` before `Subscribe`).
* `controllers/krypton.rs:132`: the hello is read off the socket, and the TLS acceptor
  waits for another one, without a timeout: a device that sends its hello once is never
  served (`KryptonSession`: `EndHandshake` needs `again`).
* `controllers/krypton.rs:100`: the loop over the hello does not await, and runs for ever
  at the end of the stream: as many devices that hang up in their hello as there are
  threads stop the server (`ReadEnd`, `ReadEndElsewhere`, `Runs`).
* `main.rs:64`: one such hello is enough to keep the process up when `main` returns with the
  error of a backend or an automation, so that `Restart=always` does not take effect
  (`Lifecycle`: `RuntimeEnds`).
* `server_backends/tcp.rs:101`, `websocket.rs:125`: RequestReceived of a single update comes
  before the update, of a scene and over HTTP after it; a client must not take the first
  for more than it says (`Scenes`: `Early`).
* `controllers/mod.rs:74`: a Simple or Krypton listener whose accept fails is logged and
  gone until the next restart (`Lifecycle`: `ListenerFails`).
* `main.rs:62`: systemd is told that the server is ready before the backends have bound
  their ports (`Lifecycle`: `Notify` does not wait for `ComeUp`).
* `automations/sunset_light_temp.rs:52`: from the second evening on, runs begin at civil
  dusk, where the log at `:59` says sunset (`Sunset`: `NextEvening`).

## Bounds

| Run | Instance | Why it is enough |
|---|---|---|
| `scenes` | an HTTP client and one with a socket, each with a scene of a slow and a fast update and both updates alone, 2 notifiers: 6 tasks at the lock | an update queued behind a notification that waits for its own scene; readers, writers between them, and futures dropped while they wait |
| `dispatch` | 1 requester, 2 connections of one lamp, the Tplink listener; 3 devices, 2 states | every way of `send_update`, two notifiers of one device, requests that meet writers, readers behind writers |
| `session` | 1 client, capacity 2, scenes of 2, 2 lines, 2 reports, 2 notifiers | the client's own scene (3 hooks) overflows the channel, reports do so together with a line; connections only share the channel |
| `dependencies` | chain of 2, a dependency that is missing, capacity 2, 3 foreign hooks | overflow, a chain, a refusal, reports and commands that cross, over restarts |
| `simple` | inbox 1, capacity 1, modulus 2, 2 requests, 3 messages | full inbox, overflow, a nonce that wraps and repeats |
| `krypton` | capacity 2, hellos of 2 parts, 2 threads, 4 requests, 2 messages, other hellos that spin at any time | lag, a hello that stops in the middle, one and all threads lost before, in and after a connection |
| `tplink` | 2 requesters, 2 updates, 3 states of the plug, a restart, any datagram lost, one overtaken | a late answer to an update that gave up while another waits, the button between them, a report that comes after a younger one |
| `govee` | levels 0 to 2, steps of 1, 2 changes (switching, steps up, by the app), any datagram lost, one overtaken, updates abandoned, clients that ask, a restart | two steps from one state and from two, a level set between, an abandoned update and a query after it; that steps of a longer history do not dim the light, which takes three with bases that cross, is the theorem |
| `sunset` | 2 lights, one without delays, 3 days of 8 steps with two different evenings, sleeps 2 late, a restart | runs that end before dusk, after midnight and after the next sunset |
| `lifecycle` | any of 2 backends and an automation, 3 devices, one controller not enabled, 2 workers that hellos may take, a restart | every order of tasks and failures, groups without members, one worker lost and all |

The violation runs have the smallest instance that shows the behaviour.

Every constant that begins with `Max`, but for `MaxLevel`, bounds what the
environment does and how far the clock runs; it appears in the guards of those
actions only. Runs that say `CHECK_DEADLOCK FALSE` come to an end when these are used
up; in the code the wait for the next request, datagram or evening goes on.

## Proofs

All theorems are `Spec => []...`, `Spec => [][...]_vars` or a refinement, for every value of the
constants under the named assumptions (`TasksAssumption`, `DevicesAssumption`,
`FeedAssumption`, `SessionAssumption`, `DependenciesAssumption`,
`SimpleAssumption`, `KryptonAssumption`, `ReportsAssumption`, `TplinkAssumption`,
`GoveeAssumption`, `ScenesAssumption`, `SunsetAssumption`, `LifecycleAssumption`), which say what
the constants are and that capacities are not zero; only that of `Sunset` says something of the
world (above). Each rests on an inductive invariant, which TLC checked on the run's
instance before it was proved. With them every safety property that a run checks is a theorem,
and so is the type invariant of every module that has a state of its own.

* `DeviceLockProofs` has lemmas only, about the lock as modelled. `LockInv`: of two tasks in the
  lock one is ahead of the other, and never both; whoever is ahead is in the lock. So a
  writer that holds excludes all others.
* `DispatchProofs`. The place of a task says what it has asked of the lock. With
  that every step keeps the invariant of the lock; a controller that waits has a read guard,
  so that nobody writes (`TableIsFrozen`). `AnnouncedStateIsCurrent` needs that
  a sole notifier's debt is what it last wrote. `DispatchFeeds` maps `Apply` to
  `Write` and `Announce` to `Publish`.
* `ClientSessionProofs`. `Gapless` needs that the cursor is never past the log and
  that relayed positions stay below it; `CaughtUpIsCurrent` that the last entry
  of a device in the log, what is published and the table agree for a sole
  notifier, and that a view is the last entry before the cursor.
* `AutomationsProofs`, on `Dependencies`. `OnIsPassedOn` and `PoweredWhileOn` are generalised from
  the end of the log to the cursor, with the update in hand as the one exception.
* `AutomationsProofs`, on `Sunset`. The invariant says what the automation knows when it waits:
  no run was begun on the day of the evening it waits for, and every evening before that is
  served (`WaitingInv`). It is kept because the next evening is chosen after `now`, and is
  today's only if no run was begun today, since a run begins at sunset or later (`RunsInv`).
  While a run goes on, the evenings before its own are served (`RunningInv`); those that pass
  meanwhile are the ones `EveryEvening` excuses. A light is behind by no more than the
  lateness of its steps so far (`PaceInv`); that the delays add up to no more than the duration
  is rounding down (`DelayFacts`). Days are intervals, which is division with remainder
  (`DayFacts`, `SameDay`).
* `AutomationsProofs`, on `Lifecycle`. `BoundBeforeUse` needs the point in `main` in
  addition: either it has not bound, or has ended there, and nothing uses a controller, or
  every enabled controller is bound, and stays so in this life (`BoundInv`).
* `SimpleSessionProofs`. Order is stated position by position instead of by
  concatenation; nonces need `(a % M + 1) % M = (a + 1) % M`, which is proved from
  division with remainder. `SimpleImplementsLink` maps the body's writes to `Deliver`
  by `CommandsInOrder`, and what it is done with to `Take` by the count of messages
  in `OrderInv`.
* `KryptonSessionProofs`. The link needs that `got` is exactly the requests for the device
  between `since` and `cursor` (`GotInv`).
* `MirrorProofs`, on `Reports`. While nothing is overtaken, the reports on their way are in order
  and not older than what is recorded (`OrderInv`). Every step of either device is a step of
  its reports (`DeviceStep`) or one in which a report is overtaken (`Overtakes`); the first
  keeps that order (`ReportsKept`) and is one the mirror allows (`ReportsMirror`), the second
  is `Disorder` (`OvertakingMirrors`), after which the mirror may go back.
  `TableMirrorsPlug` and `TableMirrorsLight` follow.
* `MirrorProofs`, on `TplinkPlug`. An answer that says success was preceded by its state
  (`AnswerInv`), hence `ConfirmedWasDone`.
* `MirrorProofs`, on `GoveeLight`, `StepsUpNeverDim`. It is not inductive: a step adds one to what the
  table said, so one needs that nothing the light has been meanwhile is brighter than that.
  `RampInv` says so: while the light is only switched and stepped up, its levels do not fall, and
  as long as no step comes from a state later than some `i`, they are at most one step above that
  of `i`. A new step is one above its base, and this is enough because steps come
  from bases in order, on the wire (`StepInv`) and in the light (`BaseInv`), which rests on
  the order of reports: the table from which the next is computed does not go back. All
  this is `OrderedInv`, which is kept while nothing is overtaken (`OrderKept`, `StepRamp`).
* `MirrorProofs`, on `GoveeLight`, `StepsCount`. This needs no order: each step that the light has
  taken is one step from the level of its base (`TakenInv`, `StepTaken`), as it was on the wire
  (`CommandInv`), and while the light is only switched its level stays (`PlateauInv`); so the level
  before the step is that of its base.
* `ScenesProofs`. `AnswerIsTrue` needs that all that is done was sent and that what failed has
  ended its request (`FutureInv`), that a request which fails has a reason (`FailureInv`), and
  that what a caller was told agrees with how far its request is, where only the early
  answer comes before the end (`CallerInv`).

What stays with TLC:

* liveness (`EveryJobEnds`, `ClientEndsUpCurrent`, `KeepsUpOrRestarts`, `BodyKeepsUp`,
  `DeviceIsHeard`, `ConfirmedIsSeen`, `AskedIsSeen`, `EveryUpdateIsSeen`, `GoveeAskedIsSeen`,
  `EveryCallEnds`, `FailureEndsProcess`, `ReadyBecomesTrue`, `EveryDeviceIsQueried`), since the
  provers have no fairness;
* the violations.

## Not modelled

* TLS, JSON, frames, sockets, certificates and the signature scheme: what arrives is
  readable or not, signed or not. The XOR autokey codec of Tplink is a function that
  a unit test reaches.
* The answers to client lines and the routes of HTTP; the catalog is a line that sends
  no hook.
* `config.rs`: it reads a file once, and what it decides is the constants of the modules.
* Build files and the unit file, but for its restart.
* Astronomy: when the sun sets and when it is dusk are constants, of each day.
* The head of the sunset loop reads the clock three times; the model reads it once, so
  that no midnight comes between (`automations/sunset_light_temp.rs:46`).
* The composition of all modules. `FrozenWhileDispatching` and `EveryJobEnds` are the joints
  that `TplinkPlug`, `GoveeLight` and `SimpleSession` rest on when a notification waits for the
  table, `FeedImplemented` the one of `ClientSession`; one module of everything would be
  out of TLC's reach and show nothing that these do not.

What remains to be done, in the order of what it would show: a device that is reached
by `Dispatch` and `Dependencies` over the lock at once; the reads of the clock in `Sunset` as
steps of their own.
