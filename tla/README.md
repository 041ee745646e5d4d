# Tangleveil in TLA+

Tangleveil (`src/`) keeps one WebSocket open to each configured CoreScope
analyzer and relays what arrives to any number of downstream clients. This
directory holds a model of it: TLA+ modules translated from the Rust source,
TLC configurations that check them on small instances, and proofs that hold for
every instance. Paths and line numbers are relative to the repository root
(`src/upstream.rs` is the crate's file of that name).

## Inventory

| Part | State it keeps | Operations | Talks to |
|---|---|---|---|
| Source supervisor (`src/sources.rs`) | the task kept for each id | `apply`, `add_source`, `remove_source`, `stop_task`, `restart_task`, `spawn_task`, `reload_from_disk` | writes `AppState.sources`, the runtimes' configuration and state; spawns and aborts upstream tasks |
| Source runtime (`src/state.rs`) | configuration, state, sequence number, counters, gauges, raw channel | `update_config`, `set_state`, `set_disabled`, `mark_connected`, `mark_disconnected` | shared by the supervisor, the task, HTTP handlers, raw clients |
| Upstream task (`src/upstream.rs`) | its configuration snapshot, its delay, its socket | `run_source_forever`, `connect_source`, `forward_source`, `publish_frame` | reads the runtime's configuration and the shared settings; sends on the raw channel and on `multiplex_tx` |
| Client loops (`src/handlers.rs`) | receiver, socket, filters, dedup cache, jq program | `source_ws`, `multiplex_ws`, `serve_raw_client`, `serve_multiplex_client` | receive from a broadcast channel, send to the peer |
| Dedup cache (`src/dedup.rs`) | two sets of hashes, the time of the last rotation | `new`, `admit` | used by one client's loop only |
| Envelope (`src/multiplex.rs`, `src/frame.rs`) | bytes, cached JSON, cached filter fields | encode, decode, project | made by `publish_frame`, read by clients |
| jq programs (`src/jaq_filter.rs`) | a compiled program | `compile`, `run_json` | used by one client's loop |
| Reload (`src/reload.rs`, `src/admin.rs`, `src/config.rs`) | the settings in `AppState`; the supervisor's mutex | `trigger_reload`, SIGHUP listener, `load_config`, `validate_config` | calls `reload_from_disk` under the mutex |
| Telemetry (`src/telemetry.rs`) | the totals of the last tick, the latest snapshot | one-second broadcaster, `serve_telemetry_client` | reads every runtime |
| Metrics and status (`src/metrics.rs`, `src/status.rs`) | counters, gauges | `record_packet`, `interval_delta` | written by tasks, read by the logger and Prometheus |
| Proxy and TLS (`src/proxy.rs`, `src/tls.rs`) | none | `connect_via_proxy` | called by `connect_source` |
| Admin API, routes, start-up, page, dashboard, packaging | none of their own | | |

What is hard here:

- *Tasks that are stopped but not over.* `stop_task` cancels a token and aborts a
  task without awaiting it. The task runs on, on another thread, to its next
  `.await`; its successor may already run, on the same runtime.
- *Cancellation points.* What a task has done when it is dropped depends on where
  its `.await`s are. `publish_frame` has none.
- *Broadcast channels.* A receiver that falls behind loses the oldest entries,
  and only learns of it when it next receives.
- *Sockets without time limits.* Every send to a client and every dial of an
  upstream waits as long as the other end likes.
- *Reloads.* They compare an old configuration with a new one to decide what to
  restart, while the tasks that snapshot the old one are at any point of theirs.
- *Time.* The dedup window rotates only when a packet comes; delays double only
  on some paths; policies change during a wait.

What makes each part correct:

- supervisor: never a task it cannot reach, never two for an id; after `apply`,
  what is listed and runs is what the file says; what runs uses the settings in
  force; what was stopped ends;
- fan-out: no client is given a gap or a duplicate, or anything from before it
  joined; sequence numbers are unique, ordered and complete; a frame reaches both
  channels or neither; who lags, or follows a removed source, is let go;
- dedup: nothing let through within a window is let through again, nothing new is
  dropped, suppression is bounded;
- options and envelope: a client is sent what it asked for and nothing else, and what
  it is sent says what the upstream sent; what a filter drops suppresses nothing;
- telemetry: the rates shown add up to no more than was received, snapshots come in
  order, and falling behind does not end a client;
- proxy: the handshake gets the tunnel once there is one, and all of it;
- status: what `/sources` and the gauges say is where the task is;
- reload: an answer "reloaded" means that what was on disk is in force, also with
  several reloads at once; a failed one leaves the settings consistent; no signal
  is lost;
- delays: they double within the policy, a new policy takes hold, an analyzer that
  is down for good is dialled rarely.

The full list of hazards, with the lines where they bite and the properties that
watch them, is the `hazards` part of `PROJECT.json`.

## Modules

| Module | Models | Extends / instances |
|---|---|---|
| `SlidingWindow` | abstract: what a `?dedupByContent` client is promised | |
| `DedupCache` | `src/dedup.rs`, and the choice of the window in `src/handlers.rs:101-115` | instances `SlidingWindow` |
| `Feed` | abstract: what any downstream client is promised | |
| `Lifecycle` | abstract: how sources and their tasks come and go, for those who publish and serve | |
| `Fanout` | `publish_frame` in the tasks, both kinds of channel, both client loops | instances `Feed`, `Lifecycle` |
| `Roster` | abstract: what a reload does to the connections, for an operator | |
| `Supervisor` | `SourceSupervisor::apply` and the upstream tasks it starts and stops | instances `Roster`, `Lifecycle` |
| `Reload` | `trigger_reload` from HTTP and SIGHUP, `load_config`, `reload_from_disk` | |
| `Reconnect` | the delays of `run_source_forever`, under policies that reloads replace, and its stop | |
| `Proxy` | what happens inside a dial: straight, or `src/proxy.rs` | extends `Reconnect` |
| `Envelope` | `src/multiplex.rs`, `src/frame.rs`: operators only | |
| `Pipeline` | the query, the handshake and the stages of `serve_multiplex_client` | extends `DedupCache`, `Envelope` |
| `Telemetry` | `src/telemetry.rs` | |
| `MC` and a module's name | the constants of its small instances | that module |
| a module's name and `Proofs` | the proofs about it | that module, and TLAPS |

`Pipeline` and `Proxy` are compositions: a step of theirs is a step of the module they
extend, joined with what goes on around it, or leaves that module's variables alone.
So they implement it (`Implements` in their proofs), and the runs check the
properties of both at once.

`Supervisor` and `Fanout` share the runtimes and the tasks, and are too large to be
checked as one. `Lifecycle` is what stands between them: runtimes are new, listed or
removed, tasks serve one, are told to end, end. Both implement it, and `Fanout` can make
every step it allows, so that nothing the supervisor does is missing from `Fanout`, and
`Fanout` supposes nothing of it that it does not keep.

Operators named `Mut...` stand beside the definition they vary. Each is a
plausible mistake in the code (a forgotten reset, a comparison that leaves
something out, an early return at the wrong place) that one of the properties
catches; no specification uses them.

### DedupCache

`current`, `previous` and `rotated_at` are the fields of the struct. `Admit` is
the whole of `admit`: `CurrentGen`, `PreviousGen` and `RotatedAt` are the
generations after the rotation it may begin with, so that rotation, lookup and
insertion are one step, as they are for a cache that one task owns. `Window` is
the length `dedup_cache` computes with its two clamps; the policy is any pair of
naturals, for a reload stores it before it is validated. `Tick` is the clock, and
`MaxGap` the only assumption about traffic: the longest time between two calls.
`admissions`, `admitted_at` and `reply` are history.

`SlidingWindow` says the same without generations: `Pass` only if the key was not
passed less than a window ago, `Suppress` only if it was ever passed. Its
variables are those of `DedupCache`, so the instance needs no mapping.

### Fanout

A task's places (`tk`) are the points of `publish_frame` between which another
thread can act: the number taken, the raw send done, the multiplex send done.
`Die` happens only at `forward`, the one place with an `.await`. Several tasks may
publish for one runtime, because `StartTask` does not wait for the task it
replaces. `log` holds all that was ever sent on a channel; a receiver is a
position in it, and is `Lagging` when that position is more than the capacity
behind. A client's places (`pc`) are its `select!` and its `.await`s of a send.
`left` counts the messages still to be sent for one frame: one for a plain
client, any number up to `MaxOutputs` for one with a jq program, a type filter or
dedup, whose choice is left open. The peer reads, stalls with full buffers, or
leaves. `first` and `got` are history.

`Feed` knows a log per channel and, per client, the position where it joined and
the positions of what it got: the next one is the next wanted one, and a client
that cannot be served so gets nothing more. The instance maps the variables by
name. Lagging, stalling, tasks and their stops are stuttering steps of it.

Besides what the runs check, three properties are stated and proved. `OnRaw` says of a
runtime's own channel what `SequencesOK` says of the multiplex channel, which numbers its
frames; `NothingHeld` that a client waiting for its next frame was sent all it asked for
of what was read for it (`NoGap` speaks of what lies before the latest message);
`Agreement` that two clients do not disagree.

### Supervisor

`BeginApply` to `EndApply` are one call of `apply`; each iteration of its loops is
cut where another thread can see a difference: the update of the runtime's
configuration, the stop or the spawn, and the two stores of `set_disabled`. The
mutex around the supervisor is the guard `sup = "idle"`. A source removed and
added again gets a new runtime; `idOf` gives its id, under which the gauge is
shared.

A task's places (`at`) cut `run_source_forever` and `connect_source` at every store
another thread can read and at every `.await`. `Drop` is the abort, at an `.await`
only. Each check of the token is a step of its own, `Return` or `GoOn`, because
`stop_task` may come between the check and what depends on it: a stopped task may
still take a configuration, store `Connecting` or begin a wait. Errors of a dial,
`None` and `Some(Err)`, go to the same two stores as the end of `forward_source`. How
long a task sleeps is left open. `connection` stands for url, headers and proxy, which
`source_needs_reconnect` compares together.

`Roster` knows, for each source, the settings wanted, those in force and who serves it; no
runtimes, no loop, no stopped tasks. A reload replaces what is wanted; then each source
that differs is switched straight from its old server to a new one, disabled, or retired,
once, and one that does not differ is left alone. `Wanted` is the file with the
certificate setting, `Given` what each source has: its runtime's configuration, except for
the source the loop has updated but not yet acted on (`Ongoing`), and the new certificate
setting once the loop is past it (`Done`). Sources retained away go several at once.

`WindsDown` says what a stop achieves wherever it meets a task: the task does what it was
about to do, but does not go round again; each of its steps leaves it fewer to do, nine at
most. `Undisturbed` says that no task is stopped but for a change of its source's settings.

### Reload

The files on disk (`config_toml`, a sources file for each path, the page) are edited
by the operator at any time and may be broken. Each setting of `AppState` is
represented by the file it was taken from. A reload's places (`pc`) are its `.await`s
(the mutex, the two files, the page) and its stores in between, which other tasks
read: the token in `AdminAuth`, the dedup policy when a client connects. `Apply` and
`Refuse` are `apply` with `validate_config` in front; what `Apply` does in one step is
what `Supervisor` has in many, and `BeginApply` there takes any configuration.
`Leave` is the end of a request whose client closed the connection, which drops the
handler at an `.await` and with it the guard of the mutex. Signals that were not taken
are one signal (`pending`). `asked`, `signalled` and `edits` are history.

`Fresh` is about the answer "reloaded"; `Honest` says the same of the two answers that a
reload failed, and `NoneLost` of a signal once the listener is idle again: the half of
`SignalHeeded` that needs no fairness.

### Reconnect

One task's `delay` and `offline_since`, as they change at the places of
`run_source_forever`, with a clock. `offline` is the age of `offline_since`; it is only
compared with thresholds, so it stops at the longest one and the state space is
finite without a bound on time. Timers may fire late. `Reload` replaces the policy at
any moment, also in the middle of a wait. `Stop` is the supervisor's; the task then
returns where it looks at its token (`Return`) or is dropped at an `.await` (`Drop`). A look
that finds the token in order is one step with what follows here: nothing between the two
reads what a stop writes, so a stop in between is one just after (`Supervisor`, where what
others see matters, has the two apart).
`plain` and `waits` are history.

### Proxy

`stage` says how far a dial has come: `DialStarts` takes `connect_source`'s branch,
`Asked` is the TCP connection and `send_connect` up to the answer, `ReadOn` one turn of
the loop of `read_connect_response`, with the check of the limit before that of the end
and, once the header has ended, the checks that it is UTF-8 and that its status is a
success (`Granted`). An answer is a sequence of pieces, a line or the end of one; all that
`read_connect_response` can tell apart are the length, the end of the header, the status line
and whether a piece is text (`Garbled`). It is whole or cut short, and the proxy falls silent
after it or hangs up. `answer` is history.

### Envelope and Pipeline

`Encode` keeps the header as a record and the id and payload as one run of bytes, as
they are in the frame: where one ends is known from two lengths of bounded width only.
`SourceId`, `FrameMeta` and `Decode` read it as the functions of `multiplex.rs` do.
UTF-8, JSON and upper-casing are constants.

`Accept` and `Refuse` are `multiplex_ws`; a list in a query is the set of its trimmed
parts, blanks included, and a flag the string that came. A query with any `source=` is
refused (`Readable`): axum's `Query` reads values with `serde_urlencoded`, which makes no
list of a string. Each frame then takes one of
three steps, by where it leaves the loop: `FilterOut` at the source or type filter,
`DropRepeat` at the cache, `Deliver` after it, with the messages `Sends` makes of it. The
cache's step is `DedupCache`'s `Admit`. A frame is received and its sends end in the same
step: receivers, lagging and sockets are `Fanout`'s. `served` and `delivered` are history.

### Telemetry

`BeginSnapshot`, `SampleSource` for each source and `Store` are one tick of the
broadcaster, under the read lock on the sources, which `AddSource` and `RemoveSource` wait
for; tasks count meanwhile. `Send` is a step of its own, for a client may connect between the
two. A client reads the latest snapshot, sends it, subscribes, and goes on after `Lag`.
`received`, `reported`, `base`, `joined` and `got` are history.

## What the runs check

| Run | Instance | Shows |
|---|---|---|
| `Pipeline` | 9 queries, 8 messages of 2 sources, 2 hashes, window clamped from 9 to 3, gaps up to 2, 11 ticks, lengths of 2 bits | `TypeOK`, `GenerationsOK`, `SuppressionBounded`, `Selected`, `Faithful`, `RepeatFree`, refines `SlidingWindow` |
| `PipelineFiltered` | a jq program that selects a source | violation of `SuppressedWasSent` |
| `DedupIdle` | the cache alone, gaps up to 9 | violation of `AtMostTwoWindows` |
| `Fanout` | 2 sources, 2 tasks of one and 1 of the other, a client of the first, capacity 1, 2 and 1 frames | `NoGap`, `SequencesOK`, `BothOrNeither`, refines `Feed` |
| `FanoutLive` | 1 task, a raw client and one with a jq program, fair | `TypeOK`, `LaggingLeaves`, `RemovedLetsGo` |
| `FanoutStalled` | 1 client, fair | violation of `SlowDisconnected` |
| `Supervisor` | 2 sources, 2 connections, 3 applies, 3 runtimes, 2 tasks | `TypeOK`, `InReach`, `Applied`, `InForce`, `WindsDown`, refines `Roster` |
| `SupervisorDisabled` | one source switched off | violation of `DisabledShown` |
| `SupervisorRemoved` | one source removed | violation of `RemovedNotCounted` |
| `Reload` | a request and the listener, 2 configurations, 2 sources files, 2 edits, 2 signals, fair | `TypeOK`, `Fresh`, `Coherent`, `SignalHeeded` |
| `Proxy` | 3 policies, 6 answers around a limit of 4 pieces, fair | `TypeOK`, `TakesHold`, `Backoff`, `DownForGood`, `StoppedEnds`, `HandedOver`, `NotGivenUp` |
| `Telemetry` | 1 source with 3 runtimes and 2 packets, 3 snapshots, 1 client, capacity 1, fair | `TypeOK`, `Counted`, `InOrder`, `CatchesUp` |

The bounds and why they are enough:

- `Pipeline`: 11 ticks are more than three windows, so that each hash passes
  through both generations and out of them again, and rotations that come late
  follow rotations that come in time. The queries have each option alone and in the
  pairs that interact (dedup with a type filter, a source filter, a program), three that
  are refused, and spellings that come to no filter. Two sources report one packet,
  once without its type; one body is no text and one text no JSON. With two bits, the
  longest payload has the largest length there is.
- `Fanout`: with a capacity of one, two frames are enough to lag; two tasks are
  what a replaced task and its successor are, and a third adds nothing that two
  pairs do not show. They are alike, so the run takes them as symmetric; it checks no
  liveness. `Quota` bounds how many messages each runtime gets. The proofs cover the rest.
- `Supervisor`: three applies are start-up and two reloads, the shortest sequence
  in which a source is added, removed or disabled, and added again. `MaxTasks`
  cuts the behaviours in which all three spawn; the runs with two applies have none cut.
  Source `a` moves through absent, disabled and two urls; `b` never has a task, and is
  listed or not, so that sources are retained away alone and together; each reload may
  flip the certificate setting.
- `Reload`: two edits are what it takes for two reloads to have loaded different
  files; two signals, for one to come while the other is being heeded. The request
  and the listener each reload again and again.
- `Proxy`: no bound but the lengths. The policies are one whose cap is reached
  by less than a doubling, one with a short threshold, and one whose offline delay
  is one of its ordinary delays, which `wait == reconnect_delay` takes for one. The
  answers are one with a byte behind the header, one exactly as long as allowed, one
  longer, a refusal, one that never ends and a success with a line that is not UTF-8.
- `Telemetry`: three snapshots are what it takes for a source to be shown, shown
  again, and shown after it was removed and added; and for a client with a first
  snapshot to lag on a channel that keeps one. The proofs cover several sources.
- Runs end when frames, ticks or applies are used up, so deadlock is not checked.

The five violations are disagreements between the program and what is written
about it:

- `DedupIdle`: `src/dedup.rs:13-15` promises that a hash is suppressed for at most
  two windows. The rotation waits for the next call, so the gap between two calls
  is added to that. `SuppressionBounded` is the bound that does hold.
- `FanoutStalled`: `README.md:13` says that slow clients are disconnected. A client
  that stops reading without closing is not: its loop waits in `socket.send`, and
  learns that it lags only at the next `recv`. `LaggingLeaves` is what does hold.
- `PipelineFiltered`: `src/handlers.rs:39-41` says that a frame is dropped if its hash "was
  already sent to this client". It is recorded before the jq program runs, so that a
  packet whose first frame the program drops is never sent, whichever source brings it
  later in the window. `RepeatFree`, and `Selected` for clients without a program, do hold.
- `SupervisorDisabled`: `GET /sources` may show `connecting`, `connected` or
  `disconnected` for a source that was disabled, as long as no reload comes,
  because the stopped task stored its state after `set_disabled` did.
- `SupervisorRemoved`: the gauge of a removed source stays 1, and the dashboard
  counts it as connected.

One more was met while modelling and needs no run, for a single step shows it:
`README.md:206` documents a "Repeatable `?source=`", but `source` (`src/handlers.rs:31`) is a
`Vec<String>`, and `serde_urlencoded`, with which axum 0.8.9 reads a query (`Cargo.lock`),
makes no list of a string. A handshake with any `?source=` is refused with 400, whichever ids
it names; `?sources=` works. `Pipeline!Readable` does what the code does.

## Fairness

`Fanout!Fairness`: a task in the middle of `publish_frame` goes on, as a thread
does; an aborted task is dropped when it next comes back to the runtime (strong,
as it may be seen away from an `.await` again and again); a handshake ends; a send
whose peer reads ends; and a branch of a `select!` that is ready infinitely often
is taken, because tokio polls the branches in random order (strong). Nothing
makes a peer read or leave, an upstream send, or an operator act.

`Reload!Fairness`: file reads end, the listener is a task that runs when it can, and
tokio's mutex serves its waiters in turn, so that one that it could serve again and
again is served (strong). Nothing makes a client ask or an operator repair a file.

`Proxy!Fairness`: time passes, the task runs on when it can (a byte that has come is
read, a wait that is over ends), and an aborted task is polled to be dropped. Whether
and how a connection, an answer or a handshake ends is up to the other end;
`DownForGood` says so in its premise, and `StoppedEnds` holds without.

`Telemetry!Fairness`: a send whose peer reads ends, one whose peer left fails, and the
channel's branch of `select!`, ready infinitely often, is taken (strong: the peer may
ping again and again). No snapshot need come, and no peer need read.

`Supervisor` and `Pipeline` state none: what they are checked for is safety.

## What is proved

TLAPS checks the following for every value of the constants that satisfies the
named assumptions of the modules.

*DedupCacheProofs.* From `WindowsAssumption` and `TrafficAssumption`: the inductive
invariant is `TypeOK`, `GenerationsOK` and `GapOK` (the clock is at most a gap after
the latest call). `GenerationsOK` alone is not inductive, because how old the
older generation can be depends on how late the rotation came, which `GapOK`
bounds. `GenerationsAtCall` restates it for the generations after the rotation
`admit` begins with; that is the lemma on which the invariant, `SuppressionIsBounded`
and the refinement `PromiseKept` rest. `WindowPositive` shows that the clamps
exclude a window of zero, which a policy that was never validated could ask for.

*FanoutProofs.* From `ConfigurationAssumption` and `BoundsAssumption`:
`TypeCorrect`, then two inductive invariants. `Publishing` is about the tasks: all
numbers below `sequence` are on the multiplex channel or in the hands of exactly
one task, and a task's frames are behind the number it holds. `SequencesOK` says
less and is not inductive: it does not see that a number in hand is not on the
channel. `Serving` is about
one client: everything it wanted between its first position and its cursor was
sent to it, save the frame it is sending. It gives `NoGap` and, with the fact that
logs only grow, that each step of the machine is a step or a stutter of `Feed`
(`PromiseKept`), `NothingHeld` and `Agreement`. `BothOrNeither` is proved beside
`Publishing`, and `OnRaw` with `RawBehind`, which says that what is on a runtime's channel
came before what a task has yet to send there.

`ContractKept`: its sources and tasks come and go as `Lifecycle` says. `ContractAllowed` is
the converse, that each step `Lifecycle` allows is a step of `Fanout` (an `Open` in two, a
`Remove` of several one by one; an `End` only where the code has an `.await`).
`OrderlyCorrect` is what `Lifecycle` is for: all tasks of a runtime but one were told to end,
and all of them once it left the list. It is why the channel of a removed source closes.

*SupervisorProofs.* From `DesiresAssumption`, `BoundsAssumption` and
`NoneAssumption`. `TaskStep` shows that each of the task's seventeen steps and
`Drop` is a `Moves`: it moves one task on, ends it only if it was stopped, leaves
what is the supervisor's alone, and takes a configuration or a certificate setting
only when it reads it. Apart from the status, everything about tasks follows from
that. The properties of the runs speak of the moment `apply` is over, so none of
them is inductive; what holds while it works is:

- `Kept`, that a task kept for an id is alive, not stopped and on the listed
  runtime: the converse of `InReach`, and inductive only together with it;
- `Applying`, the invariant of `apply`'s loop: ids it is done with are `Settled`, the
  one it is at is half way between its previous configuration and the new one, the
  rest are as the apply before left them. It gives `Applied`;
- `Forced`: a task may use the previous configuration while `apply` is at its id, and
  any certificate setting until `apply` has passed it if that changed. It gives
  `InForce`;
- `Statuses`: what `/sources` and the gauge say at each place of a lone task, and
  that a gauge is up only if some task of its id put it up, so that a new runtime's
  first task starts from a gauge that is down. It gives `StatusOK`;
- `Served`: an id that runs, by the settings it was given, has a task, and one that does not
  has none, at each point of the loop. With `Applying` and `Forced` it gives `PromiseKept`: each
  store of the loop that others can see is one step of `Roster`, or none. The source at which
  the loop is counts as having its previous configuration until it was acted on; it is
  the comparison of `src/sources.rs:117-126` that makes the two agree. `Undisturbed` follows;
- `Begun`: a task that did not begin has no runtime, and one that ended was stopped. With
  `Kept` and `InReach` it gives `ContractKept` (`Lifecycle`) and `OrderlyCorrect`. The lemma
  `CrewStopped` is the heart: to stop the one kept task of an id is to have stopped all that its
  runtime ever had.

`WindsDownCorrect` needs no more than the types: `StepsLeftDrops` compares each place of a
stopped task with the next.

*ReloadProofs.* From `FilesAssumption`, `ReloadersAssumption` and `BoundsAssumption`.
`Coherent` says nothing of the moments in between, so the invariant is `Settings`,
with what the reload that stores has stored. For `Fresh` it is `Freshness`: a reload
asked for since the latest edit has read and stored only what is on disk (`Read`,
`Stored`), and once one has answered, `Read` holds of every reload that goes on, also
of one asked for earlier. `Steady` says what a step of one reload may do for that,
`WorkSteady` and the lemmas after it that each step does no more, and the mutex
(`OneWorks`) that no other reload is half way meanwhile. `HonestCorrect` follows from the
same invariant; `NoneLostCorrect` adds `Heeded`: unless a signal is pending, the
listener's last reload was asked for after the latest one, and when it is idle that reload was
answered.

*ReconnectProofs.* From `PoliciesAssumption`, which is what `validate_config` lets
through. `TypeOK` has the bound on `delay` that excludes the overflow. `Waited` is what
one wait under a policy leaves behind: unless the task has been offline for long, a
delay within the policy and twice the wait. It gives `TakesHold` for the second wait,
and `Backoff`.

*ProxyProofs.* From `AnswersAssumption`. `Implements`: a task that dials through a proxy is
one of `Reconnect`'s, of which all the above holds. The invariant is that what was read and
what is still to be read are the answer, split somewhere, and that no header ended before the
latest byte read (`Split`), with what each stage says of it (`Place`). It gives `HandedOver`,
and `NotGivenUp`: were a header that opens the tunnel among what the limit cut off, it would
be longer than the limit. `DelaysCorrect` is what `Implements` carries over.

*PipelineProofs.* From `LengthsAssumption` and `MessagesAssumption`, and those of `DedupCache`.
`DecodeInverts` and `TruncatedRefused` are about the envelope alone: lengths below the widths
are written as they are, and a frame shorter than they say is refused. `Implements` gives
`Pipeline` all that is proved of the cache. The invariant relates what was sent (`delivered`)
to when the cache last let its packet through, which makes `RepeatFree` follow from the sliding
window and `Selected` from the bound on suppression. `CacheCorrect` is what `Implements` carries
over. `OneEachCorrect`: for a client without dedup and program each frame it asked for makes one
message, which is what `Fanout` takes of the clients it calls `Plain`. `DroppedWasSent`
draws the line around the violation of `PipelineFiltered`: without a program the comment is right.

*TelemetryProofs.* From `TelemetryAssumption`. `Counted` is not inductive: what may still be
shown of a source counts, so `Tally` adds the next delta to the sum, which stays below what was
received when a total starts again from zero. `Order` says for each place of a client that what
it is about to be given is newer than what it has, and `Stored` that the snapshot stored is the last
one sent or the next.

Stated and proved, though no run lists them, to keep the runs short: `Undisturbed`, `StatusOK`,
`Honest`, `NoneLost`, `OnRaw`, `NothingHeld`, `Agreement`, both `KeepsContract`s and `OneEach`.
Those of a module can be added to its run's configuration, where they hold as well.

Only model-checked: the liveness properties (`LaggingLeaves`, `RemovedLetsGo`,
`StoppedEnds`, `SignalHeeded`, `DownForGood`, `CatchesUp`), which rest on fairness, out of the
prover's reach, and the five violations.

## What is not modelled

- Formats: JSON, jq, TOML, URLs, HTTP and TLS. What the libraries decide (a program
  makes none, one or several values; a file or a request does not parse; a handshake
  fails) is a choice or a constant of the models.
- What a telemetry snapshot copies from elsewhere: a source's state, uptime and last packet,
  CPU and memory. `connected_secs` reads two atomics one after the other; as a restarted
  source's task does not reset `connected_since`, a snapshot may, for the moment between
  `set_state(Connected)` and `mark_connected`, show the uptime of the connection before.
- The counters of errors, reconnects and bytes, and the status line in the log: nothing
  in the server reads them.
- A half-open upstream: nothing says it is given up, and the models let `forward_source`
  wait for ever.
- Whether the read guard of `apply`'s `if let` is still held in its `else` branch
  (`src/sources.rs:101`): the edition decides, not the code. The 2024 edition releases it.
- The routes that read a value and format it, the command line, the page, the dashboard,
  the scripts and the packaging.
- The paths `reload_from_disk` stores, which nothing reads, and the warning about a
  changed `listen`.
- `Ordering::Relaxed` and `Release`/`Acquire` are taken as sequentially consistent:
  every property is about single locations or about order within a task.
- A panic (a poisoned lock) and the end of the process. Nothing is persisted, so
  there is nothing to recover.

## Plan

All components that carry state of the server's own are modelled, each with its
properties and proofs, from the abstract promises (`SlidingWindow`, `Feed`) to the
compositions `Pipeline` and `Proxy`. What could still be added:

1. `Reload` composed with `Supervisor`: the configuration `BeginApply` takes is the one
   `Reload` loaded, and `Reload`'s `Apply` is what `BeginApply` to `EndApply` implement.
   Each takes any value the other could give, so no behaviour is missing; the product
   of the two is out of TLC's reach at useful sizes. A contract both implement, as
   `Lifecycle` is between `Supervisor` and `Fanout`, is the way to do it.
2. `Pipeline` in place of the open choice in `Fanout`: which frames a client's options
   keep. `Fanout` allows any choice, so its properties hold of the composition.
3. The snapshot's `connected_secs` beside the tasks of `Supervisor`.
