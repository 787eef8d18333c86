# A TLA+ model of auto-ai

auto-ai is a set of Rust crates around one daemon: `aaid` arbitrates access to
LLM providers for every application on a machine, and the agent crates, the
client library and the command line build chats and multi-role workflows on it.
This directory models the parts whose correctness depends on order:
interleavings of requests, streams and disconnects in the daemon, the routing
decisions behind them, a streamed completion from the provider to the caller, the
agent's loop over its conversation, the pipeline of agents, the chat front ends,
the roles on disk, the shell tools and the start of processes on demand.

There are two editions of much of this code. The *reference* is hand-written
(`crates/auto-ai-daemon/src`, `crates/*/rust-ref/src`, `crates/auto-ai-cli/src`).
The *transpiled* edition (`crates/*/rust/src`, called "a2r" in the models) is
generated from the Auto sources beside it, with some hand-written glue. Its
crates stand outside the workspace and are kept to replace the reference one day.
A model that covers both has a variable for the edition: the properties hold in
either, and where the same state is kept the transpiled edition is shown to
implement the reference.

## 1. Inventory

| Component | State it keeps | Operations | Talks to |
|---|---|---|---|
| Chat gateway (`server.rs`, `pool.rs`) | one semaphore per provider; per request a handler future, for streams a spawned task, an SSE channel, a body future and a cancel token | `POST /v1/chat/completions`, streamed or not; client disconnects | router, providers, usage tracker |
| Providers (`provider/*.rs`, `format.rs`, `sse.rs`) | per stream: a buffer, the accumulated tool calls, an idle timer | `complete`, `complete_stream`, error classification | upstream HTTP |
| Routing (`tier_router.rs`, `loader.rs`, `tier.rs`, `config.rs`, `main.rs`) | the parsed config, tier -> candidates | load at start, resolve a request | gateway |
| Agent loop (`agent.rs`, `memory.rs`, `compaction.rs`) | conversation memory, steering and follow-up queues, cancel flag, cycle counters | `run`/`run_stream`, `steer`, `follow_up`, cancel, drop | client library, tools |
| Pipeline (`pipeline.rs`, `driver.rs`, `flow.rs`, `budget.rs`, `handoff.rs`) | current step, status, gate, loop counters, history, budgets | `drive`, `advance`, `submit_handoff`, `resolve_gate`, `pause`, `resume`, `rerun`, `fail` | agents, gate handler |
| Chat front ends (`agent_task.rs`, `linear/mod.rs`, `tui.rs`, `chat_model.rs`, `session.rs`) | command channel, event channel, streaming flag, chat log, session file | key presses, `/clear`, role changes, quit, resume | agent loop |
| Client library (`auto-ai-client`) | per stream: a buffer, an idle window | `complete`, `complete_stream`, `ensure_daemon` | daemon |
| Service manager (`services.rs`) | a table of services; the processes it spawned run on their own | `list`, `ensure` | processes |
| Roles (`roles.rs`, `role_config.rs`, `role_def.rs`) | `<stem>.at` and `<stem>.soul.md` files | load, get, resolve, save, delete | agents, routing |
| Shell tools (`tools.rs`, `shell_exec.rs`) | whether ash is available, the staged script, the child | `run_command`, `run_ash_script` | ash, the system shell |
| Usage tracker (`tracker.rs`) | sums per application | `record`, `record_full` | gateway |
| Skills, wire types, renderers, `aictl`, configuration page | static texts or views | | |

What is hard about each, and what makes it correct:

* **Gateway.** A permit is dropped by hand on every branch of a loop with four
  exits, owned by a spawned task on the streaming path, and released by the drop
  of a future when a client leaves. Correct means: never leaked or doubled, held
  exactly while an upstream call is in flight, waits end, the answer follows from
  what was tried, usage is counted once.
* **Streams.** Five timers (30 s per permit, 60 s for the headers, 30 s and 90 s
  without a byte, 30 s for the last frame), a channel that drops what does not fit
  and a connection that splits what it likes. Correct means: what arrives is in
  order, what is missing was dropped where the code says so, a tool call is not
  taken for an answer, and the call returns.
* **Routing.** Everything passes through hash maps with arbitrary iteration order
  and through defaults (no tier, unknown tier, no default provider, no chain).
  Correct means: a chain is complete, a preference only reorders it, and a restart
  does not move a tier to another model.
* **Agent loop.** The conversation must be one both kinds of provider accept
  (calls and results paired, first message from the user) although it is trimmed
  after every message, compacted, repaired, cancelled between the tools of a batch
  and left by a dropped future; and nothing the user says may be lost between
  three queues.
* **Pipeline.** Gates, bounded loops, failures and operator calls in any order,
  and books kept beside them that nothing ever checks.
* **Chat front ends.** Two tasks and two channels; commands wait behind a run.
* **Roles.** Files written by hand and by the program, half written, inheriting
  from what may not exist; a wrapper between the role and the agent.
* **Shell tools.** A fallback that must not run a command twice, decided from text;
  a deadline on a process that leaves others behind.
* **Processes on demand.** Callers that know nothing of each other start the same
  server.

Every hazard, with its line and the properties about it, is listed in
`PROJECT.json`.

## 2. Plan

Modules, in order of importance; all of them are written.

1. `PermitPool`: what the concurrency manager promises (abstract).
2. `ChatGateway`: candidate loop, permits, streaming task, body, cancellation;
   implements `PermitPool`. `TranspiledGateway`: the same endpoint of the other
   edition.
3. `TierRouter`: tiers and chains as operators. `MCGateway` takes its candidate
   lists from it. `RoutingService`: load, restart and resolve over it.
4. `PipelineEngine`, `PipelineDriver`: the engine's methods as functions on its
   state, `drive()` and the application over them. `TranspiledEngine`,
   `TranspiledDriver`: the other edition, which implements `PipelineDriver`.
   `PipelineLedger`: documents, budgets and warnings beside both.
5. `Conversation`, `AgentLoop`: memory as functions, `run_inner` over it.
   `ProviderWire`: the request bodies a memory becomes. `TranspiledAgent`: the
   other edition.
6. `ChatSession`, `FullscreenChat`: the task, the channels and the session file
   under either front end.
7. `StreamBridge`, `TranspiledStream`: a streamed completion end to end.
8. `RoleRegistry`, `RoleRouting`: the roles on disk, and what their agents ask for.
9. `EnsureRunning`, `ShellTool`.

Proofs: `ChatGateway_proof` (permits, answers and accounts, for any number of requests and
providers), `PipelineLedger_proof` (walk, gates, loop bounds,
outcome, books, and that the transpiled driver implements the reference, for any flow),
`AgentLoop_proof` (open calls, bounded memory, cycle guard, cancellation, both editions' memory, what
the user said reaches the model, both providers take every request),
`StreamBridge_proof` (order, tail frame, tool calls), `FullscreenChat_proof` (messages, clearing and
the run on the screen, in either front end), `EnsureRunning_proof` (the race of the callers),
`ShellTool_proof` (the sandbox decides) and `RoleRouting_proof` (roles, chains, preferences,
restarts).

Left for later: two instances of the front end on one session file.

## 3. Modules and code

### PermitPool, ChatGateway, TranspiledGateway

`ChatGateway` follows a request through `chat_completions` and
`streaming_response`.

| Model | Code |
|---|---|
| `Receive` | resolution at the top of `chat_completions`; 400 when there is no candidate |
| `Granted`, `Saturated` | `acquire_with_timeout` for the candidate, then the stream commit or the call |
| `CallSucceeds`, `CallFails` | the `match provider.complete(..)` with its quota / retryable / fatal order |
| `OpenFails`, `Opens`, `UsageChunk`, `StreamEnds`, `StreamFails` | `complete_stream` as run by the spawned task |
| `TaskEnds` | tail frame (30 s bound), `drop(permit)` |
| `PollBody`, `BodyEnds`, `BodyDropped` | the SSE body; the `CancelOnDrop` guard exists only once the body was polled |
| `HandlerDropped` | axum drops the handler's future when the client leaves |

`log[r]` is the history of candidates left behind and why; the handler's index
is its length, so the model keeps no counter of its own. The provider registry
and the pool are built from the same map (`AppState`), so the branch "not in
registry" coincides with "no pool". Time is abstract: a timeout is an action that
may happen while the thing waited for has not.

`TranspiledGateway` adds the transpiled daemon: its own router and its own error
type (an `Upstream` error stores whether it is retryable, a transport failure is
read as 502, a body that does not parse is an empty completion), around the same
permits, task and body. `TSpec` lets either edition serve, and every property of
`ChatGateway` is checked for both.

### StreamBridge and TranspiledStream

One streamed completion with everything on its way: the provider's read loop, the
channel of 64 with `try_send`, the tail frame with its bounded wait, the SSE body,
the connection, the client's buffer and read loop. All timeouts run on one clock
in ticks (`PermitWait`, `UpIdle`, `TailWait`, `SendWindow`, `ClientIdle`). Frames are
numbered by the upstream event they render, so that order and loss can be told
whatever the text. `carry` is a character cut by a chunk boundary, which
`from_utf8_lossy` spoils; `WarningPanics` is the byte-sliced warning about
arguments that do not parse. `TranspiledStream` has the other edition's provider
loop (a chunk that is not a string is thrown away with all its events), its tail
frame (one `try_send`) and its client (no timeouts, no retry, no look at the
status).

### TierRouter, RoutingService, RoleRegistry, RoleRouting

`TierRouter` holds the operators; `RoutingService` loads a file under any
iteration order of its two hash maps, restarts, and resolves requests. A
configuration carries the edition of the daemon and of the `ai-config` it is linked
with; a restart may change them (`Builds`). The transpiled router derives no
chain, sends a concrete id to the last provider that lists it, and its loader reads
an entry without a tier as `Min`. The filters of the code are `Among`, a recursive
function, and the loop of `TranspiledResolve` is one too, because the provers know
nothing of `SelectSeq` and folds. `FilesAssumption` says that a
file lists finitely many providers and tiers, each with a list, and that none of
them is called by the value that stands for none.

`RoleRegistry` is the directory of role files: parsing, serializing, inheritance,
sidecar souls, saving (two writes, each of which may fail half way), deleting and
editing by hand, and resolving a name under any order of `read_dir`. The registry
itself is a value, since whoever needs it loads it anew. `RoleRouting` composes
both: an agent is built for a name and its first request resolved by the daemon,
through `OwnedRole` in the command line front ends. Of the agent it keeps what the registry shows
(`detail`), what the name resolves to (`role`) and what is run behind the wrapper (`runs`). `RoleAssumption` says that a role file is a
record of `Fields`, that what is saved is not one of the marks `NoFile` and `Broken`, and that every
built-in role is a role.

### PipelineEngine, PipelineDriver, TranspiledEngine, TranspiledDriver, PipelineLedger

Each method of the engine is a function from engine to engine; what a method
answers is the status it leaves. `PipelineDriver` runs `drive()` and lets the
application call `pause`, `resume`, `rerun`, `fail` and `drive` when it is not
running: `drive` borrows the engine mutably, so nothing interleaves with it.
`credit`, `runs` and `owing` are history variables for the properties: gate decisions
made for the visit of a step that is under way (a rerun that does anything begins a new
visit), records since the last resume or rerun, and the step whose agent failed and has
not answered since.

`TranspiledEngine` translates the other engine, with its own call structure
(`NextStep` values, counters in a map); `TranspiledDriver` its driver, which goes
round once more on a finished engine. `ImplementsReference` states that the
transpiled edition is a behaviour of `PipelineDriver` under a mapping that hides
that extra round. `PipelineLedger` adds what neither driver looks at: the
documents in the history, the totals, the run's and the steps' budgets and the
`BudgetWarning` events.

### Conversation, AgentLoop, ProviderWire, TranspiledAgent

`Conversation` has the pure parts: trimming by units, repair, cut point and
compaction on a sequence of messages with abstract texts. Sizes are abstract: the
token budget may put the start of the kept tail anywhere (`Compactions`).
`AgentLoop` has one action per stretch between two awaits of `run_inner`: in
"compact", "request", "recover" and "tool" the run awaits, and there the host may
push messages, cancel, or drop the future. `owed` and `executed` are history
variables: what the user has said since the model was last asked, and how often
each call was really executed.

`ProviderWire` turns a memory into the message arrays of the two kinds of request
body and states the services' rules on them. `TranspiledAgent` adds the other
edition: it has no repair at the start of a run, so the calls a dropped run left
open are tracked in `open`, and trims and compacts by its own loops, which
`MemoryKept` compares with `Conversation`'s.

### ChatSession and FullscreenChat

Front end and task are two processes over two unbounded channels; each key, each
command taken and each stretch of the run between two awaits is an action.
`AgentLoop` has the detail of a run; here it is what the front end can see of it.
Messages and runs are named by the input that typed them, and the agent's memory
keeps only the user's messages. `said`, `dropped`, `cleared` and the turn a command
was typed in are history for the properties. Every write of the session file
may fail, as `save` is best effort; `cleared` takes a conversation in only when both
the agent and the file lost it. A single instance runs per directory, and a quit
is a `Stop` at any moment, as a crash is.

`FullscreenChat` lets the same task be used from the fullscreen front end, which
takes no text during a run, whose `/clear` tells the task nothing, and which keeps
a log of turns made of blocks (`chat_model.rs`). A program that is left may be
started again in either mode.

### EnsureRunning and ShellTool

`EnsureRunning` is starting a process on demand: probe, find, spawn, poll until a
deadline, by four functions of the two clients for the daemon and by
`ServiceRegistry::ensure` for a service. Callers interleave freely, processes take
time to start, die, or answer late; `aligned` is whether the URL that is probed is
the one the process listens at, and `trouble` records that something failed by
itself.

`ShellTool` is a tool call from its whitelist to its answer: which track it goes,
the child with its deadline and its pipes, the classification of its outcome, and
the one retry on the system shell. A command line is a sequence of parts and a part
is what it does on ash. `ended` keeps of each run on ash what it was (started, killed,
exit code, marks in its output) and not how it was classified, so that `SandboxDecides`
judges the fallback by the run and not by the code's own verdict on it.

## 4. Runs

| Run | Instance | Shows |
|---|---|---|
| `gateway` | both editions; 2 requests, 2 providers with 1 permit, 4 request forms (a tier chain, explicit chains with and without an unconfigured provider, an unknown tier), 6 upstream failures | all safety and liveness properties of the gateway, and that it implements the pool |
| `gateway_disconnect` | the same | refutes: a disconnect before the upstream's headers releases the permit |
| `stream` | both editions; 3 events, a channel of 2, a connection of 1, 3 candidates | order, nothing lost unaccounted, the tail frame, tool calls, termination |
| `routing` | 300 files (5 model lists per provider, 3 defaults, 4 routing blocks) with every map order and build, 22 queries; 2 role names, 3 hand-written files, 3 saves | chains, preference, restart; roles survive, are shown as they run, and keep what was saved |
| `role_chain` | the same | refutes: a role's explicit chain wins |
| `pipeline` | both editions; 7 flows, 5 application calls, 3 price lists, 2 step budgets | engine, driver and books under every order of failures and operator calls; the editions agree |
| `agent` | both editions; batches of 2 calls over an ordinary and a polled tool, memory of 3 turns, 2 runs, 2 pushes, cap of 5 turns | the conversation, the request bodies, the queues, the guard, cancellation and termination |
| `chat` | both front ends; 3 inputs, runs of at most 2 turns, 2 starts | one run at a time, messages conserved, cleared stays cleared, runs served |
| `chat_steering` | 2 inputs, runs of 3 turns | refutes: steering reaches the run it was typed in |
| `ensure` | 2 callers with 2 calls each, one function of each client and the service registry's | one daemon, racers served, calls return |
| `shell` | 2 calls, lines of 2 parts of 6 kinds, a timeout of 2 ticks | the sandbox decides, calls return |
| `shell_retry` | 1 call | refutes: no part of a command is started twice |

Why the bounds are enough:

* *gateway*: with one permit per provider two requests already contend, saturate
  and fall back over each other, also in opposite orders; a request runs through at
  most two candidates, so a third adds no new pair of branches. What does not depend
  on the instance is proved (section 6).
* *stream*: a channel of two and a connection of one fill up with three events, so
  a delta can be dropped, the tail can wait, and a tool call can be named, continued
  and cut. The ticks keep the order of the code's timeouts (a permit wait, the
  idle window and the tail wait 1, the send window 2, the client's idle 3); with
  three candidates the permit waits together exceed the send window.
* *routing*: two providers give both orders of the map and both roles (default,
  other); lists of up to two models cover "exact", "above", "below", "none" and two
  models of one tier. Roles are edited under one daemon file (`RoleFiles`), since a
  role file and a config file have no state in common; a built-in name and a free
  one are all the kinds of name there are.
* *pipeline*: the flows cover plain and gated steps, a loop around a gate, bounds
  1, 2 and 3, a gated loop step and loop targets that do not exist; five calls
  allow drive, fail, rerun, pause and resume to follow on each other. With a run
  budget (`Limit`) of 8 and prices (`Costs`) of 1, of 3 and rising, a run stays
  below, passes through, or jumps over the range where a warning is due.
* *agent*: a response repeats one call or makes two different ones, so that both
  thresholds (4 and 8) can be reached within the cap of five turns and two runs see
  each other's leftovers. `HumanHeard` and `ProvidersAccept` need a memory that
  can hold a batch and all that may stand behind it (`Roomy`: 2 x limit at least
  batch + runs + pushes, a failed run's task standing there unanswered): at a limit
  of two turns TLC finds a run whose task is trimmed away with the batch it
  followed. The default limit of a role is 20 turns.
* *chat*: three inputs are a message, something typed during its run, and a third
  after it; the fullscreen front end takes two (`ScreenInputs`), having nothing to
  type during a run.
* *ensure*: `Used` holds a function that looks at the clock first, one that polls
  first, and the service's; the others repeat one of the two shapes. Two callers
  race, and the second call of each meets what the first left.
* *shell*: a retry needs two parts to repeat one; the timeout can fall between,
  within or after them.

Deadlock checking is off where the system may really stop (all requests answered,
all application calls made, all runs done) and on for `routing`.

The passing runs' properties are each tested by a faulty variant of one
definition (`...Unchecked`, `...Twice`, `...Forgotten` and so on, next to the
definition they vary and used nowhere else): with it in place TLC finds the
property violated.

## 5. Fairness

* `ChatGateway!Fairness`, also of `TranspiledGateway`: a permit wait ends by grant
  or by timer; a task whose cancel token has fired leaves its chunk loop (the
  `select!` is biased to it); the tail frame is bounded by 30 s or not waited for at
  all; hyper polls the body of a response it has started. Nothing is assumed of the
  upstream, which may stay silent for ever, nor of the client. That is why
  `DisconnectReleases` fails and `CancelReleases` asks for the upstream's headers.
* `StreamBridge!Fairness`, `TranspiledStream!TFairness`: daemon and client run,
  timers that are due fire, a closed connection is noticed, time passes. Nothing is
  asked of the provider nor of the caller; the transpiled client has no timer of its
  own, so that its part of `CallReturns` excepts a provider that accepts the request
  and says nothing.
* `PipelineDriver!Fairness`, `TranspiledDriver!TFairness` (also of
  `PipelineLedger`): `drive()` is polled and agent runs return.
* `AgentLoop!FairSpec`, `TranspiledAgent!TSpec`: the run is polled, the client
  answers or times out, tools return. Neither the model nor the host is constrained
  otherwise.
* `ChatSession!FairSpec`, `FullscreenChat!FSpec`: the task is polled, requests and
  tools return, the front end drains its channel. The user may do anything or
  nothing.
* `EnsureRunning!Fairness`: callers run, time passes, a process that is not killed
  gets to listen. It may take arbitrarily long, die, or never be found.
* `ShellTool!Fairness`: the front end runs and time passes. A process left behind
  may hold the pipes for ever, which `ToolReturns` excepts.

## 6. Proofs

A proof module extends the module it is about. Each has an inductive invariant, which
TLC checked on the run of that module before it was proved, and one lemma per action,
or per group of actions that touch the same variables. Where two editions exist the
theorems are about both.

`ChatGateway_proof` proves for any sets of requests, providers, models and
failures, any limits and any routing function (`GatewayAssumption`,
`TranspiledAssumption`):

* `PermitInvariant`: the inductive invariant `PermitInv`, the conjunction of
  type correctness, `PermitConservation`, `PermitOnlyInFlight` and three parts that
  make it inductive: a request in the loop has a candidate left (`InChain`, so that
  `Cand` is defined), a request that has not arrived has an empty history
  (`IdleLog`), and a task exists exactly for handlers that went streaming
  (`TaskOfStream`, so that handler and task never hold a permit at once).
* `TypeCorrect`, `PermitsConserved`, `PermitsOnlyInFlight`: its consequences.
* `GatewayInvariant` adds two parts per request. `AnswerInv`: while a request is
  unanswered or streams, everything in its history is something the loop moves on
  from; an answer of 402 or 502 is explained by the last entry. `MeterInv`: the
  tracker has one record exactly when usage was reported and the call has ended well.
* `AnswersExplained`, `UsageAccounted`: its consequences.
* `GatewayImplementsPool`: every step of the gateway is a step of `PermitPool` or
  leaves the holders unchanged. The mapping takes the requests whose `permit` names a
  provider as its holders; that a grant finds room in the abstract pool is
  `PermitConservation` with `avail > 0`.

The lemmas `TakeConserves` and `DropConserves` do the counting once; each action
then falls in one of three classes: it takes a permit, drops one, or leaves them
alone. The two editions differ in what they route to and in how they read an error, so
the proofs are about `AnyNext`, in which a request may resolve to any list of
candidates: both editions' steps are among its steps (`Editions`). `TranspiledAssumption`
says that only an upstream that answered with a status can report that billing is due.

`PipelineLedger_proof` first proves of the reference driver, for every set of flows and any number of calls by the
application (`FlowsAssumption`, and `MissingAssumption`: the sentinel is no step), not
only for the seven flows of the run: `WalkSafe`, `GateSafe`, `LoopSafe` and `OutcomeSafe`,
which say that `HistoryIsWalk`, `GateBeforeWork`, `LoopBounded` and
`OutcomeMatchesEngine` always hold. All four follow from `Invariance`, whose invariant
`IInv` adds to them what they need to be inductive:

* `DriverInv`: the engine is one of its flow's; a running step exists and has passed its
  gate, a waiting engine waits for the gate it stands at (`InOrder`); `drive()` is at an
  agent only of a running engine and at a gate only of a waiting one.
* `CreditInv`: a human step has a decision of the visit under way exactly when the engine
  holds one for it (`gate_resolved_for_step`), and it holds one for its current step only.
  So there is never a second one, and none is left for a later visit.
* `OwingInv`: an engine stays at the step whose agent failed, and does not complete, until
  that step is answered (`StaysIncomplete`, `OwingKept`).
* `RunsInv`: a loop step is recorded no more often than its counter says, and an engine
  with a recorded loop at its bound is paused or failed. Without the second half a step
  could be recorded once more.

The argument has two levels. The lemmas `AdvanceFacts`, `SubmitFacts`, `ResolveFacts`,
`ResumeFacts` and `RerunFacts` say what each method does to an engine in order, with
`submit_handoff` split by the answers of `resolve_next_step`; then each action of
the driver is one lemma over them. An action that leaves the engine where it was needs
only `SamePlaceKeeps`.

The rest is about both editions (`LedgerAssumption`: costs and the limit
are numbers). On every engine in order the transpiled operations compute what the
reference's do (`SubmitAgrees` and its neighbours, gathered in `OperationsAgree`), so that
a transpiled step is a reference step or the extra round:

* `EditionsSafe`: the four properties above, of either edition.
* `TranspiledImplementsReference`: the refinement, initial states and every step. The
  extra round of a finished engine is a stutter under the mapping.
* `LedgerSafe`: the books balance. Its invariant says of every document which step it
  is from, what it is addressed to and which sum it carries; sums are computed by a
  recursive function, whose values `SumAddsUp`, `SumAgrees` and `SumOfMore` give.

`AgentLoop_proof` is about `TranspiledAgent`, that is both editions, for any batches,
keys and limits (`AgentAssumption`, `ConversationAssumption`). It first says of
trimming, adding, repairing and compacting a conversation that they open no call and
keep a limited memory within its bound. Then:

* `AgentInvariant`: types, the bound, and that every call without a result waits in
  the current batch or was left by an earlier run (`OpenAccounted`): a run that was
  dropped or cut by the cycle guard leaves open calls, and only the reference repairs
  them.
* `EndedRunsAnswered` (`RestAnswered`) and `RequestsCarryNoOrphan`: what follows for a
  run's end and for each request.
* `EditionsKeepAlike` (`MemoryKept`): for every conversation and limit the loops of the
  transpiled memory and compaction come to what `Conversation` says in one step each:
  dropping one unit after the other ends at the first cut that fits (`AddsAlike`), the
  searches ahead and back stop where the first and last human turn are (`CutsAlike`), and
  the new memory, put together a message at a time, is the same (`CompactsAlike`).
* `CycleGuarded` (`CycleBounded`): needs the count of each call below its threshold,
  split by whether the hint was given.
* `CancelStopsWork` (`CancelQuiet`): an action property.

The rest is about memories that hold their last turn. The hypothesis is `TurnFits`: in a
limited memory there is room for the assistant's last message, all that follows it, and all that
is bound to be added before the next one (`Ahead`: the rest of the batch, what was pushed, the task
of a run, the results a repair makes up). The code promises no such thing: a batch is as long
as the model makes it, and with a limit of two turns TLC finds a run whose task is trimmed
away with the batch it followed. The default limit of a role is 20 turns, that is 40 messages.

* `UserIsHeard` (`HumanHeard`). The lemmas behind it say what is left of a conversation that
  was trimmed with room for its last turn (`Keeps`): a whole number of units went, none of them
  the last, and at most a line saying so came instead. So what was said since the model was last
  asked is still the end of memory (`HeardInv`); compaction keeps that end.
* `MemoryStaysSound`. `MemoryInv` says what a memory looks like in every state: no call
  twice, each result behind its call with only other results between (`Placed`), the user first,
  and each batch complete or with a call known to be open (`Settled`) but for the one that is being
  answered, whose results so far are the first ones, in order (`Pending`). Only the transpiled
  edition, which repairs nothing, may rest with a batch that is half answered.
* `RequestsAccepted` (`ProvidersAccept`): the bodies `ProviderWire` makes of such a memory keep
  what the vendors demand. An OpenAI message with calls is followed at once by exactly their
  results. Anthropic's conversation starts with the user, the user's turn after calls begins with
  their results, and no result lacks an earlier call. The transpiled edition, which repairs
  nothing, is held to it while no call is left open.
* `TurnsFit`, `RoomyIsHeard` and `RoomyIsAccepted` discharge the hypothesis. `Roomy` is about
  constants only: twice each limit is at least 1 + runs + messages, and batch + runs + messages.
  Then `TurnFits` is an invariant of `TSpec`, and `HumanHeard` and `ProvidersAccept` hold with
  nothing assumed of a behaviour. The invariant is `HeldInv`: there is room for `Ahead` and for every
  run and push still to come (`Spare`), since runs that fail one after the other each leave a
  task without an answer. The instance TLC checks is roomy (limit 3, batches of 2, two runs,
  two messages: 5 and 6, at most 6), and `MCAgent` assumes it, so that TLC evaluates it.

`StreamBridge_proof` is about `TranspiledStream`, both editions, for any number of
events, sizes of channel and connection, and timeouts (`BridgeAssumption`). Its invariant has
five parts: `Control`, who is where; `Flow`, that the numbers of the texts grow through
what was read, the connection and the channel, in this order, and that the tail frame, once the
task has ended, was read, is on its way, or was given up; `Tools`, that the call
assembled so far is one its fragments come to when all arrive (`Arrived`), and spliced or nameless
(`Damaged`) only when the transpiled edition swallowed one; `Tailless`, that a task which ended without
a tail frame panicked or never had a permit, and that a frame given up left at least `ChanCap` texts
behind it (`GivenUp`); `Accounted`, that as long as nobody threw the channel away no more texts are missing
(nowhere on their way, and not lost in a known place) than were spoilt. `TextInOrder`,
`EofAfterTail`, `ToolCallKept` and `TextAccountedFor` (`NothingElseVanishes`) follow, the last because
a call that ended Ok has read the wire and the channel to their end.

`FullscreenChat_proof` is about both front ends, for any number of inputs, turns of a run and starts;
no assumption on a constant is needed. `ChatInvariant` has three parts. `Mail`: the commands on
their way are numbered increasingly and by inputs that were made; a message is in one command or in
one place of memory and queues, or was dropped; and nothing that was cleared is in the agent, the
file or a command. `Runs`: at most one run is on its way, every event on its way is of the run
that is shown, the event that ends a run has none behind it, and the front end streams for as long as
its run is sent, under way or not yet drawn to its end. `Log`: a block of a running tool is the last
one of the turn that streams, and the tool's result is the next event or still to come.
`MessagesKept`, `ClearedForGood` and `RunShown` follow. The attempt at the second one found its history
variable wrong: `cleared` took a conversation in as soon as the memory was empty and the file
could be emptied, although the rebuild might have failed and a steering message still be
queued, which a bound of four inputs shows. It now takes it in when memory and queues are empty.

`EnsureRunning_proof` proves `RacersSafe` for any number of callers and any deadlines
longer than a start takes (`EnsureAssumption`). It is a race against the clock: as
long as nothing is ready, every process is still loading, and each caller that waits has a
process at least as old as its wait (`WaitCovered`); a loading process is never
older than `StartTicks` (`StartsInTime`).

`ShellTool_proof` proves `SandboxSafe` for command lines of any length, any number of calls and
any timeout (`ShellAssumption`). The property alone is not inductive: the tools are built after
the probe, whose result does not change (`ToldOfProbe`), nothing of a line has run before its first
child is started (`NothingRan`), and a child that got past its first part, or exited, has an exit code
(`CodeKnown`), so that only a run that ended by itself and failed is taken for one that never started.

`RoleRouting_proof` is about both editions, any built-in roles, any files and edits
(`RoleAssumption`) and any daemon files (`FilesAssumption`). That a built-in role is never lost holds
in every state of the directory, not only the reachable ones. `FilesInv` (a readable file is a record
of fields, and what was saved is in its file under its name) and `AgentInv` (what is shown of the last
agent is a file that is there, and it runs what that file loads as, or the built-in role) give
`SavedRoleHolds` and, with `RoundTrip` (emitting and parsing a role changes no field but a tier that is
left out) and `BuiltFromFile` (what a file that loads comes to, inherited or not), `ShownRoleRuns`: what
is shown is run but for the three exceptions `ShownIsRun` names.
`RoutingInv` says that the configuration is one of `Loads(file)` and the chain what it resolves the last
request to; so it is enough to show for every configuration in order (`ConfigInOrder`, `LoadInOrder`) that a
derived chain is complete and that a preference moves one candidate. Both rest on `AmongFacts`, what a
filter keeps and what comes first, proved by induction over the length, and on `MovedToFront`, which
gives the permutation. `RestartsKeepPrimary`, an action property, needs more: that a tier loaded is one
of the five, that whether a routing block is empty and which provider is the default do not depend on
map orders, and `SearchesAgree`: the two editions of `resolve_model_id`, one a minimum and the other a loop,
find the same model in every list, since both find the first of the smallest gap (`LeastOnce`).

The library's induction theorems take an operator as a parameter, which the provers cannot
instantiate. Where a proof needs induction over a length or a count it uses `SetInduction`,
proved from `NatLessThanWellFounded` and `WFMin` by the least counterexample; and a recursive
function is first shown to exist (`IterationExists`, `AddsUpExists`, `StepsExist`, `BestsExist`), by that induction.

Model-checked only: everything about liveness, which needs ENABLED. Every state invariant and
every action property of a passing run is stated by a theorem, `HumanHeard` and `ProvidersAccept`
of roomy constants or of behaviours in which the last turn fits.

## 7. Disagreements between code and documentation

Four are runs that TLC is expected to refute, and entries in `PROJECT.json`:
`DisconnectReleases` (server.rs: "releases the permit promptly"),
`SteeringReachesRun` (agent_task.rs: "before the next LLM call"), `EffectsOnce`
(tools.rs: "zero side effects") and `ChainWins` (role_def.rs: "it wins over both").

Seen while reading; the models follow the code in these, and the properties are
stated so that they hold with them. Where a property stands against what a comment says,
it names the exception exactly, in its comment and in its formula: `TailBeforeEof` and
`ToolCallNeverMistaken` (server.rs:444-448), `OutcomeMatchesEngine` (pipeline.rs:166-168),
`ShownIsRun` (role_config.rs:48-49) and `SandboxDecides` (tools.rs:132-137).

* *Gateway and routing.* A 429 moves on to the next candidate whatever its body
  says of a quota, and an unknown tier name is filed under `Min` where two comments
  say `Mid`. The transpiled router never derives a chain, although its comments say
  it does (tier_router.rs:18-19, 173-175), and the transpiled daemon answers a 2xx
  that does not parse as an empty completion and has no timeout on `complete`.
* *Streams.* Deltas are dropped when the channel is full, where the comment says
  only when it is closed. A done frame that finds no room for 30 s is given up, and
  the client then returns `Ok` without the tool calls; so it does after the warning
  about arguments panics inside a character (openai.rs:419, anthropic.rs:493). Both are what
  server.rs:444-448 means to rule out; `TailBeforeEof` allows them and nothing else but a
  transpiled client that nobody served. An
  upstream that closes without a finish reason counts as success. Warning texts are
  accumulated into the content. Permit waits of three saturated candidates exceed
  the client's send window, whose one retry then runs the request a second time. In
  the transpiled edition whole chunks are thrown away, `usage: null` is recorded as
  zeros, and a 502 reads as an empty `Ok`.
* *Agent.* A memory limit of one turn lets a trim split a batch that is still being
  answered. The transpiled agent has no orphan repair, although agent.rs:60 says its
  adaptations do not change behaviour, cuts tool results at a byte offset, and binds
  a tool use's id as its name in the compaction's transcript.
* *Pipeline.* A failing agent leaves the engine `Running`, although pipeline.rs:166-168
  says the driver calls `fail()` then; `rerun` answers `None` for such a flow, and the next
  `drive()` asks the step's agent again. A loop that reaches its
  bound pauses the flow at the loop's target and never goes on to the next step. A
  rejected gate runs the step again, as documented, but the reviewer's feedback is
  read by no caller outside tests. The document given to the next agent is a clone
  taken before target and totals are filled in, although pipeline.rs:281-283 speaks
  of a fix. `FlowStep.token_budget` is never used, and a step that jumps over the
  warning range is never told. The transpiled driver emits its terminal events
  twice, loses the correction of a handoff's target on a clone, and warns one step
  late.
* *Chat.* A run that fails without an event leaves the front end streaming.
  `SetRole` saves the old memory "so `-c` history isn't lost across a role switch",
  but the next run's save overwrites it. The fullscreen `/clear` clears the screen
  only; a restored session's notice arrives before there is a turn to hold it and is
  not drawn; an answer followed by thinking and then a tool is not demoted.
* *Roles.* `load_role` never reads the soul file that role_config.rs:48-49
  promises, so that the registry shows a soul its agent does not have; an inheriting role's
  own prompt is ignored; with `tools` set
  `tools_append` is ignored, and appended to "all tools" it narrows them. `OwnedRole`
  drops the models, the preferred provider and the thinking level. A user's file that does not
  load is shown as it is while the built-in role of its name runs. In the
  transpiled crate inheritance contributes nothing, a missing sidecar is an empty
  soul, and a role's allowed tiers and budget are lost.
* *Processes.* `$AAID_URL` is not passed on to the spawned daemon, so that ensuring
  a daemon at another URL starts one that is never found. Two calls that ensure a
  service start it twice, which `RacersServed` excepts. The "hard timeout" of a shell command waits for whoever
  holds its pipes.

## 8. Not modelled

* Contents: texts, tokens, options and system prompts of request bodies, tool
  results, the rendering of handoff documents.
* `server.rs` endpoints for status, models, usage, configuration test: reads of
  state that is modelled elsewhere, or single calls.
* Two front ends on one session file (session.rs:77): the later write wins; it would
  need a second task and front end in `ChatSession`, and is one of the two
  listed hazards without a property; the other is the double start of a service (section 7).
* Skills, the one-shot tools, the renderers, `aictl` and the configuration page:
  static texts, single calls and views.
* The `.at` sources: the transpiled Rust that is built from them is modelled.
* System messages in a memory: no code path adds one, so the branches of `trim`
  and `repair` that keep them are left out.
* The widths of the token counters (u64, and u32 in the transpiled edition), which
  no run of the program comes near.
