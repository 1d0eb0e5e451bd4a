# A TLA+ development of X-Claw

X-Claw is a gateway between chat platforms and language models. It takes the
messages of users from a bus, runs an agent on each conversation, keeps the
conversation in files, runs jobs on a schedule and sends the answers back. This
directory models its concurrent and persistent core in TLA+, checks the models
with TLC and proves the properties that matter most with TLAPS.

    tlc -config inbound_order.cfg MCInboundQueue     model-check a run
    tlapm InboundQueue_proofs.tla                    check the proofs of a module

`PROJECT.json` lists the components, the runs, the source lines each definition
stands for, a deliberate bug that breaks each property, the hazards, the
findings and the theorems.

1. [Inventory](#1-inventory)
2. [What is modelled](#2-what-is-modelled)
3. [Runs](#3-runs)
4. [Fairness](#4-fairness)
5. [Proofs](#5-proofs)
6. [Findings](#6-findings)
7. [Not modelled](#7-not-modelled)
8. [What could follow](#8-what-could-follow)

## 1. Inventory

Paths are relative to `src/`. The parts of the program and their traffic:

    platform -> channel adapter --PublishInbound--> MessageBus.inbound
                  (ChatIntake)                          | ConsumeInbound
                                            AgentLoop.Run (one goroutine)
                                           enqueue: bucket of the conversation
                                     /                  |                  \
                                 worker              worker              worker
                                   \------ globalSem: MaxConcurrency ------/
                                                        |
       cron, heartbeat ----ProcessSessionMessage---> agent run ---> SessionManager
                                                        |            (files)
                                                        |  --> provider chain
                                                        |  --> tools, MCP servers
                                                        v
             platform <- channel worker <- Manager <- MessageBus.outbound
               (ChatSend)

Components that carry the program's own logic, and the modules that model them:

| Component | State | What is hard | Correct when | Module |
|---|---|---|---|---|
| Message bus, `pkg/bus/bus.go` | three bounded channels, `closed`, `done` | `closed` is tested before the `select`; Close is three steps and drains while publishers still send; channels block when full | nothing accepted is lost before shutdown; nobody waits for ever | InboundQueue |
| Reply contexts, `pkg/bus/reply_context.go` | answer id -> session | a quote moves a message to another session after its queue was chosen | a quoted answer leads to its session | InboundQueue, Routing |
| Inbound queue, `pkg/agent/loop.go`, `loop_bucket.go` | a bucket per conversation, `globalSem` | dispatcher and workers share buckets without a lock; `active` is stale when used; a full bucket blocks everybody | order within a conversation, bounded concurrency, every message settled | InboundQueue |
| Agent run, `pkg/agent/loop.go`, `loop_tools.go`, `pipeline_*.go` | transcript, iterations, retries, trace | crashes, detected loops and compactions cut a history anywhere | every request is a valid transcript; every run ends | AgentRun, Transcript |
| Plan mode, `pkg/agent/loop_commands.go` | `permission.json`, a marker of the request | a command clears the file before the task runs; writes fail | /approve runs the task it was left, once; other requests run with the order to plan | PlanMode |
| Model of a session, `pkg/agent/loop_model_downgrade.go`, `pkg/session/model_override.go` | override with expiry, streak | read, count and set are three steps; users set overrides meanwhile | a session is moved only after a streak that counts | SessionModel |
| Compaction, `pkg/agent/loop_compaction.go` | what was read before the provider call | runs concurrently with the next run of the conversation | nothing leaves the history without being summarised | SessionCompaction |
| Prompt and pruning, `pkg/agent/context.go` | cached prompt with its baseline | files change while they are compared and read | the prompt says what its files do; pruning keeps calls with their results | PromptCache, HistoryPruning |
| Memory, `pkg/agent/memory*.go` | MEMORY.md, its blocks, two indexes | fingerprints of a file that others write; limits of blocks | a search answers from the file; core blocks stay | MemoryIndex, MemoryBlocks |
| Session store, `pkg/session/` | sessions in memory, `<key>.jsonl`, `<key>.meta.json` | two files per edit, metas written after the lock is released, torn lines, failed appends unreported | memory is the replay of a whole branch; a restart brings back what was kept | SessionStore |
| JSONL store, `pkg/memory/jsonl.go` | messages and meta with a skip count | crashes between its two files | a crash loses nothing that was kept | JsonlStore |
| Cron, `pkg/cron/`, `pkg/tools/cron.go` | jobs in memory, `jobs.json`, the run in progress | records are copied, released and written back; crashes between collection and run; failing saves | no job is stuck or forgotten; every run is recorded once | CronService |
| Heartbeat and last active chat, `pkg/heartbeat/`, `pkg/state/`, `pkg/agent/loop_activity.go`, `pkg/httpapi/console_notify.go` | two managers of one file, timer and ticker | chat and session are recorded in two steps by concurrent runs | unasked messages go where a run was | LastActive |
| Channel manager, `pkg/channels/manager*.go` | channels, a queue and worker each, placeholders, typing | placeholders raced by deliveries; sends to queues being closed; retries | answers are shown in order, and again only where an answer of the platform was lost | ChannelManager, ChatIndicators, SplitMessage |
| Gateway lifecycle, `cmd/x-claw/internal/gateway/` | runtime services | which context the restored services run under | after a failed reload the old services work | ChannelManager |
| Chat platforms, `pkg/channels/telegram`, `feishu` | running, the bot's name | an update has a goroutine of its own; an answer is several calls that may fail | who means the bot is heard; answers arrive as a whole | ChatIntake, ChatSend |
| Routing, `pkg/routing/`, `internal/core/routing/` | bindings, identity links | eight kinds of bindings with wildcards and threads; two places compute the key | the strongest binding decides; bucket and session agree | Routing |
| Provider fallback, `pkg/providers/fallback.go`, `cooldown.go`, `error_classifier.go` | failures, cooldown and billing times | concurrent calls: a late success wipes a newer failure | backoff stands until a success; calls end | ProviderFallback |
| Provider clients, `pkg/providers/` | none | a history goes from one client to another, or is reloaded without fields | every client writes the calls that were executed | ProviderWire |
| MCP manager, `pkg/mcp/manager.go`, `pkg/agent/loop_mcp.go` | connections, `closed`, calls in flight, the current manager | `closed` is read before the call is counted; a reload replaces the manager under calls | Close waits for the calls it knows; no connection is left open | McpManager |
| Tool executor, `pkg/tools/toolcall_*.go` | a batch of calls, policy | parallel batches around calls that may not be parallel | one at a time where it must be; one result per call | ToolBatch |
| Processes, `pkg/tools/shell_session*.go`, `shell_managed.go` | processes, buffers, exit | exit racing poll and kill; two polls of one buffer; pruning | output is read once; what runs can be stopped | ProcessManager |
| Web tools, `pkg/tools/web_fetch.go`, `web_search*.go` | a cache with flights; key pools | callers share a flight and its failure | no stale answer, no second request; all evidence is kept | WebFetch, WebSearch |
| Skills, `pkg/skills/registry.go` | search cache; directories | registries answer in any order; installations race | the best results; each name once | SkillSearch, SkillRoots |
| Media store, `pkg/media/store.go` | references and scopes | files are removed after the lock, shared by references | no file of a live reference is deleted | MediaStore |
| Audit log, `pkg/auditlog/` | a rotated file | names by the second | the latest part is kept | AuditLog |

Token usage, the task ledger, configuration, secrets, authentication, logging
and voice have no state whose orders matter, or none of the program's own:
section 7. `PROJECT.json` says of each component what of it is modelled.

How the parts interact, in the respects that matter:

- **Shutdown** (`cmd/x-claw/internal/gateway/runtime.go:42-60`): the context is
  cancelled, the bus is closed and drained, channels stop, cron stops, and last
  `AgentLoop.Stop` clears `running`.
- **Sessions are shared**: a bucket's worker, a cron or heartbeat job, an HTTP
  request and the background compaction may all work on one session; only
  `sm.mu` protects each single edit.
- **Cron calls the agent synchronously** on its only goroutine, and the agent
  calls cron back through the cron tool.
- **Delivery binds reply contexts**, which later messages use to find a session.
- **Fallback and downgrade**: a call that was answered by another model counts
  towards a downgrade of the session, which later calls start from; the history
  then goes through another client.

## 2. What is modelled

| Module | What it is | EXTENDS / INSTANCE |
|---|---|---|
| `SessionQueues` | abstract: what the inbound queue promises of each conversation | |
| `InboundQueue` | bus, dispatcher, workers, semaphore, direct runs, shutdown | INSTANCE SessionQueues |
| `RunLedger` | abstract: what `jobs.json` promises of the runs of a job | |
| `CronService` | cron service, its tool and its handler, restarts, failing saves | INSTANCE RunLedger |
| `Conversation` | abstract: what the store promises of one conversation | |
| `SessionStore` | one conversation of the session store: memory, two files, tree | INSTANCE Conversation |
| `SessionCompaction` | the background compaction composed with the store | EXTENDS SessionStore |
| `ChannelManager` | delivery: dispatchers, channel workers, reload, shutdown | |
| `Transcript`, `AgentRun` | the messages of a session and their sanitizing; its runs, resume, crashes | AgentRun EXTENDS Transcript |
| `HistoryPruning` | what goes of a history into one request | EXTENDS Transcript |
| the modules of "Subsystems" below | one each | |
| `MC...` | instances for TLC; `MCSubsystems` instantiates all those of "Subsystems" | |
| `InboundQueue_proofs` | theorems about InboundQueue, and its refinement of SessionQueues | EXTENDS InboundQueue |
| `CronService_proofs`, `SessionStore_proofs`, `ChannelManager_proofs`, `AgentRun_proofs`, `McpManager_proofs`, `ProcessManager_proofs` | theorems about these modules and their refinements | each EXTENDS its module |
| `Subsystems_proofs` | theorems about eight of the subsystems, as `MCSubsystems` composes them | EXTENDS MCSubsystems, INSTANCE McpManager_proofs, ProcessManager_proofs |

Operators whose comment begins with "Mutant:" are not part of a specification:
each is a definition of the model with one plausible bug in it, and
`PROJECT.json` names the property that TLC finds violated when it takes the
place of the original. Formulas whose comment begins with "Refuted" state what a
doc or a reader would expect and the code does not do; no run checks them, and
section 6 lists them.

### InboundQueue

`inbound` is the channel of the bus and `closing` the progress of `Close`;
`disp` is the goroutine of `AgentLoop.Run`, with the message in its hands; `ch`,
`steer` and `active` are the fields of a bucket; `worker`, `wmsg` and `iter` are
its worker; `sem` is the number of tokens in `globalSem`. `fate` and `acc` are
history variables: where each message is, and its number in the order in which
the bus took messages. The semaphore is counted apart from the runs, so that its
exactness is a property and not a definition.

- *Publishers* test `closed`, then `select`: `PublishCheck`, `PublishSend` and
  `PublishGiveUp`. A send may win after `done` is closed, as Go's select allows.
- *Dispatcher*: `DispConsume` takes a message and makes its bucket;
  `DispRoute` loads `active`; `DispSteer` is the non-blocking send into the
  inbox, `DispSend` the blocking one into the bucket. The load and the send are
  two steps: a run may end between them. `InlineBegin` and `InlineEnd` are the
  mode without a queue.
- *Worker*: `WorkerTake` takes a message and empties the inbox in one step;
  then the worker becomes active, acquires a token, resolves the session, runs
  at most MaxIter iterations, answers, releases the token, becomes inactive. An
  iteration absorbs the inbox.
  The real worker empties the inbox in a loop of non-blocking receives, which
  cannot interleave with a send: while the bucket is inactive the dispatcher
  only steers if it loaded `active` before the last run ended; that late send
  is in the model, before or after the emptying.
- *Answers*: `Answer` blocks on a full `bus.outbound`; `Deliver` is the channel
  manager, modelled as far as it binds the reply context of the answer.
- *Direct runs* (`JobBegin`, `JobEnd`) use a session without a bucket or token.

### CronService

`jobs` is `cs.store.Jobs`, `file` is `jobs.json`, `loop` is what the run loop
has in its hands: the jobs it collected, and the job, the run id and the copy of
the record that the handler works on. Every operation under `cs.mu` is one
step, together with its save; a save may fail, which the code only logs.
Times are counted down: a record holds the ticks until its next run, so that no
clock grows. `PersistContext` is the handler storing its session with
`UpdateJob`, which overwrites the record with the copy; between it and
`BeginRun` conversations change the record. `Exit` is the end of the process at
any point and `New`, `Start` the next one, from whatever the file holds. What
`computeNextRun` gives is in `NextTimes`: a cron expression may have no next time
(`NoTick`), which is kept apart from the nil that says none was asked for (`NoTime`).
The tool's two saves of a new job, the record and then its command, are one step,
since the job is due a second later at the earliest.

### SessionStore and SessionCompaction

`session` is the conversation in memory (view, leaf, override), `log` the events
of `<key>.jsonl` in their order, `meta` the other file. An edit changes memory
and appends its event in one step (`Record`), and writes the meta in a second
(`PersistMeta`), with `sm.mu` held in between (`writing`): the process may die
there. An append that fails leaves nothing, part of a line (`intact` becomes
false and the file cannot be read from then on) or the whole line. Save and the
overrides put their meta into `pending` and write it later; `ReadBranch` and
`SwitchLeaf` are the two halves of a switch. `Replay` translates
`replayEvents`, including the payloads it skips.

SessionCompaction adds the goroutine of `maybeSummarize`, whose provider calls
lie between its steps, and the runs of the conversation beside it. A summary is
the set of the messages it was made from, which is all the property needs.

### ChannelManager

Every successful `StartAll` is a *generation* (`gens`): a dispatch context with
its parent, a dispatcher (`disp`) and a worker with a queue per channel
(`worker`, `queue`). `workers` and `task` are the manager's own maps, which a
reload changes under the feet of a dispatcher that has already looked up its
worker: `Receive`, `Look` and `Push` are three steps, and so are the two of
`SendToChannel` (`NotifyLook`, `NotifyPush`). A worker takes a message, waits for
the limiter (`Admit`), sends it piece by piece with retries (`Deliver`,
`SendFails`, `BackoffEnds`). `StopAll` takes the maps, waits for the workers
(`StopWait`) and stops the channels (`StopChannels`); `Reload...`, `Restore` and
`Shutdown...` are the gateway around it. A platform may carry a
call out and its answer be lost (`NotAnswered`), which the worker takes for a failure.
`sent` is the newest piece of what was published that the chat shows (`Shown`), with
the first attempt that may show it again.

### AgentRun

`hist` is the session's history; `slot` holds the run of the session's worker
and that of the resume endpoint, with the transcript `msgs` it sends, its
iteration and retry counts and the calls it waits for; `trace` and `later` are
the event files. `Iterate` is the head of the loop; each outcome of the provider
is an action: an answer (`Answer`), tool calls (`Calls`, whose results `Apply`
persists one by one), a detected loop (`Loop`, whose calls are answered in the
transcript and never persisted), a timeout, a context that is too long
(`WindowExceeded`, then `Compacted`), a failure; `Steered` drops the response for
a steering message. What is kept in the session differs from what is in the
run's transcript, and both are modelled; a crash leaves any prefix.
`Transcript` holds `Sanitize`, which mends only histories whose runs
followed one another.

### Subsystems

Each of these shares no state with the others; an instance of each is a *focus*
of `MCSubsystems`, and a behaviour has one focus.

| Module | State and steps | Property |
|---|---|---|
| `ProviderFallback` | the cooldown tracker and the calls of several runs; `Try`, success and failure of a candidate are steps of their own; errors carry a status, words and a deadline, and are classified in the code's order | a failure never makes a provider available earlier; calls end |
| `SessionModel` | override with TTL, streak, the run between its calls; users and `/api/session_model` set overrides between the steps of the downgrade | a session is moved only after a full streak |
| `ProcessManager` | sessions with their output buffer, the watcher of the exit, polls of two callers, kill, remove, clear, pruning; output is numbered chunks | every chunk goes to one poll; running sessions stay |
| `ToolBatch` | the loop over the calls, the batch and its workers; emergency stop, plan mode and policy as guards of `Begin`, which the executor has and the agent loop gives nothing to (`loop_tools.go:188-214`) | what must run alone does, in its place |
| `McpManager` | `closed`, `mu`, `wg` and the sessions of each manager; a call is two checks, count and call (`TakeTool` to `CallReturns`); Close is swap, wait, close; a reload has five steps; reload and stop may close one manager | only the current manager has connections; Close and reload end |
| `JsonlStore` | lines, a torn last line, meta; each operation is its writes, a crash between any two | what was kept is returned |
| `ChatIndicators` | the maps of typing and placeholders, the goroutine of each placeholder, the janitor, preSend | no placeholder is edited by two answers |
| `SplitMessage` | the rest of the text, rune by rune; one round of the loop is a step | chunks fit, the rest shrinks |
| `ChatIntake` | the goroutine of each update of Telegram or Feishu: allow list, commands, files, mentions and triggers, publication, import of the files; a text is a sequence of tokens | who means the bot is heard and nobody else; files are told |
| `ChatSend` | the calls of one answer on either platform, each answered, refused, or carried out with its answer lost; the manager's retries | what counts as sent is there as a whole |
| `MediaStore` | files, references, scopes; the removal of files comes after the lock | files and references agree |
| `MemoryIndex` | MEMORY.md with its writers; the vector and the full-text index in memory and on disk; search in two steps | answers come from the file as it is |
| `MemoryBlocks` | the file and the latest extract; parsing into blocks, merging, clipping, rendering | core blocks stay; others drop their oldest entries only, and only for room |
| `AuditLog` | the file, the backups by second; record with rotation and pruning | the latest part is kept |
| `Routing` | configuration and messages; the route over bindings, the key of every scope, the names a peer is linked to, the bucket | strongest binding; bucket and session agree; conversations stay apart |
| `PromptCache` | times of the tracked files, the tools, the cache and callers that look, build and store | a prompt says what its parts were during the call |
| `HistoryPruning` | a history and its request; sanitize, condense, cut, omit, sanitize | calls keep their results; the latest messages stay |
| `ProviderWire` | the history, the run's transcript, loops, restarts; what five kinds of clients write and read | each request says which calls were executed |
| `WebFetch` | cache with TTL and limit, flights and their callers | no stale answer, no second request |
| `WebSearch` | key pools and calls; one step per provider's answer | keys are drawn evenly; evidence is merged by priority |
| `SkillSearch` | registries answering in any order; the search cache with trigrams | the best results; the latest used entries |
| `SkillRoots` | directories of three roots; installations in steps | a name is listed once, from the first root |
| `PlanMode` | `permission.json`, the request at hand with the text that asks for a plan, tools, resumed runs, failing saves and crashes | /approve executes the task left for it, once; every other request in plan mode runs with that text |
| `LastActive` | the state file with its two managers, the runs, heartbeat and `/api/notify` | unasked messages go where a run was |

## 3. Runs

Passing runs:

| Run | Instance | Distinct states | Shows |
|---|---|---|---|
| `inbound_order` | three messages of one bucket, two of them steering, a direct run, both queue modes, MaxIter 2 | 662,610 | types; a bucket runs in acceptance order; steering reaches an earlier run; refinement of SessionQueues |
| `inbound_liveness` | two buckets, one token, one place in `bus.outbound` | 11,850 | the semaphore is exact; accepted messages are settled; workers leave |
| `cron_restart` | a cron-expression job and a reminder, crashes and failing saves, four run ids | 795,282 | types; no stuck job; every enabled recurring job is scheduled, or its expression gave no time |
| `cron_ledger` | an interval job and a cron-expression job | 167,377 | refinement of RunLedger; recurring jobs keep running while they have a next time |
| `session_tree` | two messages, three events, one fault, one call in flight | 1,984,677 | types; branches are whole; refinement of Conversation |
| `channel_delivery` | one channel with a queue of one, two published answers (the first in two pieces) and one of the notify API, a reload and a shutdown | 453,779 | types; order, repetitions in place; no stop under a send; settlement; the end of the shutdown |
| `agent_run` | two runs of one session, three tool calls, three iterations, one crash, one resume | 945,376 | types; every request is a valid transcript; every history can be continued; runs end |
| `subsystems` | one instance of each module of "Subsystems", two of ProcessManager, MemoryIndex, ChatIntake and Routing | 923,407 | the properties of the table above, by focus |

The properties of `subsystems` are named for what they say of several of the
modules; which formula of which module each stands for is in `MCSubsystems`.
The constants of the subsystems that theorems are about are its own, with values in
`subsystems.cfg`; those of the others it fixes itself.
`RoutedRight`, for instance, is `Routing!RoutesByPriority`, the two properties of
sessions and buckets, `HeardAsMeant` of both platforms, and
`LastActive!ToldWhereActive`. `WorkEnds` is the liveness of fallback calls, runs
with downgrades, tool batches, kills, reloads and Close.

Runs that exhibit a disagreement (section 6): `cron_reminder`, `session_durable`,
`session_compaction`, `gateway_rollback`.

The abstract specifications say more than single invariants: SessionQueues
allows a message to start only when it is the oldest waiting one of an idle
conversation and a slot is free, only steering to be set aside, and only a
shutdown to drop a message; RunLedger records each begun run exactly once;
Conversation lets an edit change only what it names and lets a switch, an
eviction or a restart return only to a state the conversation had.

The bounds, and why they are enough:

- *Messages*: order within a bucket is about two messages, one overtaking the
  other; the third makes the inbox, the run and the queue all occupied. Two
  buckets suffice for competition: buckets are symmetric and only share the
  token, the dispatcher and the outbound channel.
- *Capacities 1 (2 for the inbound channel of `inbound_order`)*: full channels
  are where dispatcher and workers block, and small capacities reach them with
  few messages. `bus.inbound` needs two places for an order of its own.
- *MaxIter*: 1 ends a run at its limit, 2 lets it absorb steering twice.
- *Cron*: Interval 2 gives a next run that is later, and one that is due while a
  handler runs; a cron expression gives 1, 2 or nothing, anew each time. HistoryLimit 1 makes every second record push one out; more run
  ids than a history and a run in progress hold keep them fresh.
- *Session*: three events make a branching tree with a leaf that was left; one
  fault is followed by steps on the damaged state. One call in flight meets
  every edit, restart and eviction. MaxCount 1 makes the counters differ from 0.
- `session_compaction` has six events: a compaction takes three, which leaves
  room for the messages around it.
- *Channels*: one channel, as channels share only the dispatcher; a queue of one
  blocks it; one retry tells a second attempt from a first, and any of them may be
  carried out with its answer lost; two managers are the
  old and the new of a reload, two generations the second of which may be that
  of a rollback.
- *AgentRun*: two runs follow each other, one of them cut by a crash or resumed;
  a response of two calls can be cut between its results; three iterations hold
  a loop, a tool and an answer. `Concurrent = FALSE`: section 6 says what happens
  otherwise.
- *Fallback*: two candidates and two concurrent calls; Standard and Billing with
  two lengths each, so that a cooldown grows once and is then at its cap; errors
  of every class. *Models*: three, so that a downgrade may point anywhere but to
  the model in use.
- *MCP*: two reloads make three managers, so that calls hold an old one while the
  next is replaced; two calls meet in one WaitGroup.
- *Processes*: three chunks and a buffer of one overflow; two sessions where one
  is kept are pruned.
- *Splitting*: a limit of 24 with windows of 4 and 2 keeps the proportions of the
  code; pieces of 3 to 14 runes put cuts before, on and after every boundary.
- *Messages of platforms*: pairs of messages chosen so that every branch of the
  mention, trigger and allow-list code is taken; section 6 says which pairs are
  misread.
- *Routing*: up to three of eight bindings, with wildcards, threads, peers, guild
  and team, and nine messages; then two messages of seventeen kinds, four scopes
  and five values of the identity links, for what two messages share; a sender's
  id is canonical ("platform:id"), a peer's bare or missing.
- *Memory, prompt, fetch and skills*: one or two files, URLs or queries more than
  a cache holds, and a clock that goes one unit beyond the TTL.
- *LastActive*: one user's chat, a cron job in an external and one in an internal
  chat; at most two runs at once (`MaxBusy`), and requests of `/api/notify`
  between runs.
- *Audit*: three rotations within a few seconds, two backups kept.

Deadlock is not checked where everything may come to its end: the inbound runs
and `channel_delivery` after a shutdown, `agent_run` and `subsystems` when
their runs are done.

Symmetry is used for run ids and for the messages of the session store, whose
values no definition compares other than for equality, and only in runs without
liveness.

## 4. Fairness

`Spec` never has fairness; `FairSpec` is used for liveness only.

*InboundQueue.* The Go scheduler runs every runnable goroutine: weak fairness of
each publisher's send, delivery, the dispatcher and each worker. `DispReturn`
has its own: Go selects among ready cases at random, so a cancelled dispatcher
does not consume for ever. A provider call ends (HTTP clients have timeouts) and
a run makes at most MaxIter of them. Goroutines blocked on one channel are
served in order, so a worker that competes for a token or for a place in
`bus.outbound` gets it eventually even though it is not free all the time:
strong fairness of `WorkerAcquire` and `RunReply`, and of `WorkerExit`, a case
of a random select that becomes ready again and again. Nothing makes users send,
jobs begin or the gateway shut down.

*CronService.* The clock advances and the goroutine of the loop is scheduled: weak
fairness of `Tick` and `RunLoop`. Conversations, crashes, restarts and `Start`
are never forced. `KeepsRunning` assumes that conversations leave the jobs alone
from some time on, because each `Enable` postpones the next run anew, and says
nothing of a job whose expression gives no next time.

*ChannelManager.* Goroutines run and calls of a platform return, with or without an
answer: weak fairness of
each dispatcher, each worker, the pushes of the notify API, and the steps of a
reload and a shutdown that have begun.

*AgentRun* and the subsystems with liveness: weak fairness of the next step of
each run, call, batch, Close and reload in progress, since provider calls, tools
and servers answer or time out; of the watcher of a command and of the killing
of its process tree. Nothing makes messages, polls, kills, reloads or users
happen.

SessionStore and the other modules have no liveness: every call ends by itself.

## 5. Proofs

Everything below holds for every value of the constants that satisfies the
named assumptions: `InboundQueueAssumption`, `CronAssumption`,
`SessionAssumption`, `ManagerAssumption`, `RunAssumption`, `McpAssumption` and
`ProcessAssumption`, and `Assumptions` of `MCSubsystems`, which has those of its
subsystems. They give the constants their types, make the "no such thing"
values different from the things, make the calls, runs, managers and sessions
finitely many, and ask for at least one token, one iteration, one place in
`bus.outbound` and in the queue of a channel, one tick, one record of history, one
start, one piece of a message, one session and one chunk to keep, one provider, one
model, one tool call, and one fallback, line and backup. Cooldowns must not get
shorter as failures add up, nor be longer than the time after which the failures are
forgotten, as `cooldown.go:11` and `cooldown.go:218-251` have it.

| Theorem | Says |
|---|---|
| `InboundQueue_proofs!TypeCorrect` | TypeOK, with the capacities of all channels |
| `InboundQueue_proofs!ConcurrencyBounded` | the semaphore is the number of runs, at most MaxConcurrency |
| `InboundQueue_proofs!BucketInOrder` | a bucket runs in acceptance order, one message at a time |
| `InboundQueue_proofs!SteeringReachesEarlierRun` | steering never reaches a run of a later message |
| `InboundQueue_proofs!ImplementsSessionQueues` | InboundQueue refines SessionQueues |
| `CronService_proofs!TypeCorrect` | records and histories of both stores |
| `CronService_proofs!NeverStuck` | a job marked running is the one the loop runs, under that run id |
| `CronService_proofs!AlwaysScheduled` | every enabled recurring job has, or will get, a next run; a cron job without one had no next time when asked |
| `CronService_proofs!ImplementsRunLedger` | while saves succeed, CronService refines RunLedger |
| `SessionStore_proofs!WholeBranches` | every leaf is in the file, every parent before its children |
| `SessionStore_proofs!TypeCorrect` | what the store shows, holds and writes, and what a replay returns |
| `SessionStore_proofs!ImplementsConversation` | the store refines Conversation |
| `ChannelManager_proofs!TypeCorrect` | TypeOK, with the capacity of each queue and the retries |
| `ChannelManager_proofs!DeliveredInOrder` | without a rollback, a chat reads pieces in order; a piece again only from later attempts of one worker |
| `ChannelManager_proofs!ChannelsStopQuietly` | an action property: no channel stops under a send |
| `AgentRun_proofs!TypeCorrect` | TypeOK, also when runs overlap |
| `AgentRun_proofs!SanitizeFits` | what the sanitizing pass returns, for every sound history |
| `AgentRun_proofs!RequestsAccepted` | if runs do not overlap, every request is accepted by a provider |
| `AgentRun_proofs!HistoriesUsable` | if runs do not overlap, the session can always be continued |
| `McpManager_proofs!TypeCorrect` | TypeOK: no WaitGroup below zero |
| `McpManager_proofs!OneOpen` | between reloads, only the current manager has connections and tools |
| `ProcessManager_proofs!TypeCorrect` | TypeOK |
| `ProcessManager_proofs!ChunksGivenOnce` | OutputOnce: what was read goes to one poll, is pending or was cut |
| `ProcessManager_proofs!EndedSessionsGo` | Retention: what runs is registered, of what is done at most one is too many |
| `Subsystems_proofs!CooldownsStand` | an action property: only a success makes a provider available earlier |
| `Subsystems_proofs!Earned` | a session changes its model after a full streak; /approve executes the task left for it, once, and other requests in plan mode run with the order to plan |
| `Subsystems_proofs!SerialAlone` | a tool call that may not run in parallel runs alone and in its place |
| `Subsystems_proofs!StoreAgrees` | the maps of the media store and the files agree |
| `Subsystems_proofs!LatestLogged` | the audit log keeps its latest part, in at most MaxBackups backups |
| `Subsystems_proofs!OneManager` | OneManagerOpen, as `subsystems` checks it |
| `Subsystems_proofs!ChunksGoOnce` | OutputOnce, as `subsystems` checks it |

**InboundQueue_proofs.** `Inv` has the types (`Types`), the lengths of the
channels (`Capacities`), which goroutines hold a message (`Hands`: a message
must be in the hands that release it), that whoever is answered resolved a
session (`Sessions`: the type of a session that comes from a reply context
rests on it), and the token count. The token count is a cardinality: one lemma
per direction says what adding or removing one holder does to it.

Order within a bucket is far from inductive. `OrderInv`
says that the history variable `fate` agrees with the goroutine or channel that
holds a message (`Places`, `Lines`), that the two modes of Run exclude each
other (`Modes`), that acceptance numbers are unique (`Numbers`), that every
channel is ordered by them (`Lines`), and that nothing later is ahead of
anything earlier at each of the stages bus, dispatcher, bucket, run
(`NoPassing`). The last row of `NoPassing` is BucketFIFO. `SteersEarlierRun` is
inductive once NoPassing holds: a message in the inbox came after the run in
progress, and the inbox is emptied when the next run begins. Steps that do not
move a message between stages go through one lemma (`QuietStep`).

The refinement mapping to SessionQueues takes acceptance numbers to
`arrival`, the messages between the bus and the start of their run to `waiting`,
the message of a worker that holds a token, or of the inline dispatcher, to
`current`, and the inbox to `aside`. A run starts, abstractly, when the worker
acquires its token; then the guard "the oldest waiting message of an idle
conversation" is NoPassing and the guard on the number of runs is the token
count. Two more facts are needed (`Guards`): only steering is offered to the
inbox, and the bus is only closed after the cancellation.

**CronService_proofs.** A finished run is recorded under the id in the record,
the handler overwrites the record with its copy, and `Start` clears what it
loads: so `Inv` adds to the two properties that a record marked as running has a
run id, in memory and in the file (`Store`); that the copy and the record of the
job in the handler are those of the loop's run (`Held`); and that no loop runs
before `Start` (`NoLoopYet`). RecurringScheduled is inductive only because the two
reasons for having no next run are apart: a step that takes a next run and gives no
other leaves `NoTime`, and only `NextTimes` of a cron job gives `NoTick`.

The refinement of RunLedger holds only while `jobs.json` can be written: a run
whose beginning was not saved is forgotten by a crash, a step the ledger does not
have. Its theorem assumes `~SaveMayFail`, and no other theorem does. Then
(`Saved`) the file is what the running process holds, it marks at most one job as
running, a record that does not run holds no run id, and the handler's copy has
the history of its record, since the one goroutine that ends runs is in the
handler. So what the ledger shows of a job is what the file tells of it
(`CurrentInFile`), and every action is shown to begin, end or forget one run
there, or none (`ViewStep`). `Start` is why at most one marked job matters: it
ends every marked run in one step.

**ChannelManager_proofs.** `Inv` is `Base` and `Order`. `Base` has the types,
what the maps of the managers may name (`Registry`: only the manager in use has
workers, and they are its own), how far reload and shutdown have come and what
that implies (`Callings`: while a reload stops the old manager, its map is
empty; a bus that is closed is empty), and that every worker that runs is in the
map of its manager or among those a StopAll waits for (`Tracked`). QuietStop
follows from these: StopAll closes the channels only after its wait, so a worker
in the middle of a send is one that another StopAll waits for, or one that a
rollback has started in between, both in a shutdown that meets a reload.

`Order` is about the way of a message from the bus to the chat. Of one generation
and one channel, what is shown is older than the piece in the worker's hands,
that older than the queue, that older than the message the dispatcher holds
(`Line`), and the bus is younger than all of these (`Upstream`). The newest
piece shown may be the one in the worker's hands, if its earlier answers were lost; an
answered one is older than every attempt to come. Two generations
have to be kept apart: of two workers of a channel that run at once, the later
one is of a manager started after the bus was closed and has nothing of the bus
to send (`Apart`), since a reload starts the next manager only after the
workers of the previous one have left. The dispatcher of the previous one may
still hold a message, but pushes it only to a worker of its own (`OwnWorker`).
All of this fails once a rollback has started a manager a second time: then
InOrder claims nothing, and `Order` is a disjunction with `RolledBack`.

**SessionStore_proofs.** BranchIsWhole needs the session to be a record and the
file a sequence (`Shapes`), and the leaf to be whole while an edit is between its
two files (`Held`), since `PersistMeta` writes it without looking again.

The types and the refinement need what `Replay` computes, a recursive function
over the events of the file. Two facts are enough, that it obeys its equation and
that appending an event leaves the replays of earlier leaves as they were; each is
shown by the least number at which it fails (`Least`), from the well-foundedness
of the naturals, so no induction over data is needed. `RInv` adds to the types
that the branch SwitchLeaf has read is still a branch of the file, whatever was
appended since (`SwitchRead`): it may come into memory later. The abstract
conversation sees the state in memory, the state the saved leaf stands for, and
the states of the file. Each edit is shown to be an abstract edit that is kept,
that only memory sees, or that a later restart finds in the file
(`manager_mutations.go:152-170` reports a failed write and keeps the change in
memory); every other step returns to a state the file has, or stutters.

**AgentRun_proofs.** A provider accepts a transcript that is `Paired`: each call
has exactly one result, right after the request. Neither the history nor the
messages of a run are so at every moment, hence three relations. `Owed(m, P)`: m
is Paired but for the calls of P, asked for by the last request and not yet
answered. `Sound(h)`: of a request, the results right after it are results of
different calls of it, however many are missing. `Ready(h, P)`: the results of P
can be appended to h and leave it Sound. A crash leaves a Sound history as it is
(nothing closes a request), and a compaction cuts it in front of anything:
`SoundTail` shows that this keeps it Sound. `SanitizeFits` follows the pass of
sanitizeHistoryForProvider over a Sound history of any length: what it has kept so
far is Owed the calls it waits for, which are those of the last request that have
had no result (`At`); at the end the placeholders answer them. The pass is a
recursive function, treated as in SessionStore, and the order of the placeholders
is by rank (`Rank`, `Nth`).

The steps of a run then keep `RInv`: the history is Sound, and what the run has at
hand is Paired when it will be sent, Owed the pending calls while results come
in, and Sound if it will become the history. It also says that at most one of the
worker and the resume endpoint is at work (`Turns`): the theorems assume
`~Concurrent`, as the run `agent_run` does, and `OrphansDropped` of section 6 is
what happens otherwise. TypeCorrect has no such hypothesis. TLC checked RInv as an
invariant of `agent_run` before it was proved.

**McpManager_proofs.** OneManagerOpen looks at moments between reloads, after
Close. In between, an old manager has connections only if its Close has to come
or is under way (`Superseded`, `Handled`). The Close of a reload and that of Run
may be of one manager; the second finds `closed` set and returns at once, before
the first has taken the connections, and then `Handled` says that there is a
first. `Reloading` has what ReloadMCPTools has done at each of its steps, and
`ClosedOnes` that only managers that were once current are closed, so the one to
come has its connections for itself. A WaitGroup is below zero in no state
because it is the number of calls that were sent (`Types`), one lemma per
direction, as with the tokens.

**ProcessManager_proofs.** OutputOnce looks at the chunks that were read; `Once`
adds that no other chunk is pending, cut or given, without which a later read
could find its chunk in a second place. Retention needs to know why Clear, Remove
and the pruning never take a running session although they decide under one lock
and delete under another: what is in `removing` has ended, and an end is final
(`Kept`). How many the pruning takes is an argument about cardinalities
(`PrunedEnough`): if it leaves an ended session that it may take, it has taken
those that ended before the oldest of these, and they are as many as are too many.
So it leaves none, when there are still too many, but the one it must keep: the
one that is starting, or the one whose end it follows (`Few`). TLC checked `Inv` as
an invariant of two instances before it was proved.

**Subsystems_proofs.** A behaviour of `MCSubsystems` has one focus and its steps are
those of that subsystem (`FocusSteps`), so `Inv` has one part for each of eight
subsystems. Those of McpManager and ProcessManager are the invariants of their own
proof modules, instantiated. The others:

- *Fallback* (`FbInv`). That a new end is not before the old one cannot be seen from
  the old end alone. So of each entry: no end lies further from the last failure than
  the cooldown that its count gives (`Bounded`). A failure counts one more and is no
  earlier than the last one, and the cooldowns do not get shorter, so the new end is at
  least the old. If the counts are forgotten first, the cooldowns that they gave are
  over.
- *Model* (`ModelInv`). The streak is a count, a target and a time; `falls` is the
  history of what happened. The latest `count` of it were to the target, each within
  the window of the one before (`InRow`), and whoever is about to set a model has a
  whole list of them.
- *Plan* (`PlanInv`). The file is what the user was told, unless the latest save failed;
  a run carries both from when it began, and whether it began with the plan prompt.
- *Batch* (`BatchInv`). Calls that are collected, queued or running come before `pos`,
  and all others before it have ended (`InOrder`); only parallel ones are collected or
  queued, so another one that runs is the latest that the loop has taken, and alone.
- *Media* (`MediaInv`). The last part of FilesFollowRefs speaks of paths downloaded
  once, and their files are removed by who no longer holds the lock. Such a path has one
  owner (`Owned`): its download, then its one reference, then who removes it; and no
  file is without one (`Accounted`).
- *Audit* (`AuditInv`). The property speaks of all events; the steps need that the
  backups are in the order of their seconds and the file is the latest (`Ordered`), so
  that the pruning, which goes by the last event of each file, takes the oldest seconds
  (`PruningTakesOldest`). A rotation adds at most one backup, so the pruning leaves
  no more than MaxBackups.

Two definitions of AgentRun are written for the provers and mean what the code does: `later`
keeps, for each run, the runs with a later event, in place of the time of its last
event; `Kept` is the pass of `Sanitize` with a name of its own.

Only model-checked, and why:

- *Liveness* (`AcceptedIsSettled`, `WorkersExit`, `KeepsRunning`, `MessagesSettle`,
  `ShutdownEnds`, `RunsEnd`, `WorkEnds`): TLAPS does not reason about fairness and
  ENABLED.
- *Recursion over data.* What `SplitMessage`, `ProviderWire`, `HistoryPruning`,
  `MemoryBlocks`, `JsonlStore`, `ChatSend` and `SkillSearch` say rests on what
  recursive definitions, folds, SelectSeq or FlattenSeq compute of whole texts, lines
  and transcripts, for which no induction is available: `KeptAreReturned`,
  `AnswersStay`, `LimitsKept`, `RequestsKeep`, and the part of `Retention` about the
  cache of skill searches; its other part is `EndedSessionsGo`.
- `AnswersCurrent` and `RoutedRight`, conjunctions over subsystems of which several
  have such parts, and `TypeOK` of `MCSubsystems`, which speaks of all 28: what the
  eight invariants need of it is in them.
- Of SessionCompaction, only that the store under it is a conversation is proved; the
  run of the two together refutes a property.

## 6. Findings

Where the code and its documentation disagree, a run shows it; TLC's shortest
counterexample is the scenario.

| Run | Property | What happens |
|---|---|---|
| `cron_reminder` | `ReminderScheduled` | a reminder that falls due while the process is down has no next run after the restart: enabled for ever, it never triggers |
| `session_durable` | `Durable` | a meta file built by Save before an edit and written after it names an older leaf: after a restart the edit is gone |
| `session_compaction` | `NothingForgotten` | messages added while the compaction waits for the provider are overwritten by the history it read, and are in no summary |
| `gateway_rollback` | `RollbackRestores` | a failed reload restores the old manager under a context that the return of the reload cancels: it stays in use and delivers nothing |

Formulas whose comment says "Refuted" were each checked with TLC and found
violated in the instance of their module (`QuoteAcross` of MCInboundQueue gives
the quote that SessionSerial needs); no run of the project repeats that.

| Formula | What happens |
|---|---|
| `InboundQueue!SessionSerial` | a message that quotes an answer of another conversation is queued by its chat (`loop.go:312`) but runs the quoted session, at the same time as that session's worker; `docs/gateway.md:21` promises that a session is serial |
| `InboundQueue!SteeringTakenIn` | steering accepted while a run still counts as active, after its last look at the inbox, is thrown away by the next run, although `loop.go:385` says only what arrives after a run is |
| `InboundQueue!RunReturns` | a worker leaves at the cancellation while the dispatcher waits for room in its bucket (`loop.go:428`): Run never returns, its deferred clean-up never happens |
| `CronService!StaysDisabled` | a job disabled while its handler is about to store its session is enabled again by the stale record (`tools/cron.go:418`) |
| `CronService!CronScheduled` | a cron expression that `AddJob` accepts may have no next time (`service_schedule.go:33-43`): the job stays enabled and never runs |
| `ChannelManager!ShownOnce` | a send that was carried out and whose answer is lost is sent again (`manager_send.go:50-82`): the chat shows the piece twice |
| `ChatIndicators!TypingExpires` | the stop of a second typing indicator is stored over that of the first, which then never stops (`manager_typing.go:20`, against `channels/README.md:1091`) |
| `AgentRun!OrphansDropped` | a resume in parallel to another run interleaves results of two responses; `context.go:808` then keeps results without their calls |
| `ProviderFallback!TakenAsSaid` | any number of three digits from 300 to 599 in the text of an error passes for a status before the words count (`error_classifier.go:11-15`) |
| `PlanMode!ApproveEnds` | in a group whose default is plan, /mode and /approve look at `default_mode` only, and say "run" or "not active" while messages run with the order to plan |
| `PlanMode!ToolsDenied` | restricted tools are not denied in plan mode, against `config_tools.go:213-230` and `docs/gateway.md:286`: the agent loop never gives the mode to the executor (`loop_tools.go:188-214`), which would refuse them; the model is only asked not to call them (`pipeline_helpers.go:20-36`) |
| `PlanMode!ResumedAsPlanned` | a run that is resumed loses the mode of its session (`pipeline_resume.go:261-272`): not even the order to plan remains |
| `ProviderWire!ObjectsTell` | the anthropic client writes calls from Name and Arguments alone, which the transcript (`loop_tools.go:146-157`) and a reloaded history (`protocoltypes/types.go:17-18`) do not have |
| `ProviderWire!CallsRead` | command-line clients match braces in strings too (`tool_call_extract.go:60-73`): a call with a brace in an argument is shown instead of made |
| `WebFetch!OwnCancellation` | the failure of a cancelled leader is cached and given to all callers of the URL |
| `WebSearch!SatisfiedByResults` | the text for "no results" names the query, whose URLs count as evidence (`web_search.go:475-505`) |
| `WebSearch!SourcesFound` | Grok's streamed chunks are joined with a space, which cuts URLs (`web_search_llm.go:322-331`) |
| `SkillSearch!ShortApart` | queries of less than three bytes are all alike to the cache (`registry.go:486-513`) |
| `SkillRoots!LoadsListed` | skills are listed by the name in their metadata and loaded by directory, valid or not |
| `SkillRoots!NothingReplaced` | two repositories with one base name overwrite each other; a failed write leaves a directory that the next installation takes for the skill (`registry.go:263-305`) |
| `ChatIntake!NeverCrashes` | two Telegram updates at once write the map `chatIDs` without a lock (`telegram.go:479`); nothing reads it |
| `ChatIntake!EmojiHeard` | entity offsets are UTF-16 units, the code counts runes (`telegram.go:797-801`): a mention after an emoji is not seen |
| `ChatIntake!InOrder` | a message overtakes another of its chat whose files take longer |
| `ChatIntake!NeverEmpty` | a bare mention is published as an empty text (`telegram.go:550-571`) |
| `ChatIntake!TenthKept` | the key "@_user_1" of the bot is cut out of "@_user_10" (`feishu_format.go:262`) |
| `ChatIntake!ImagesCome` | images of a Feishu rich text are never downloaded, which `feishu_format.go:569` announces |
| `ChatIntake!SkippedOnce` | at the limit the import counts earlier skips again (`pipeline_media.go:64`) |
| `ChatSend!ShownOnce` | a retry sends again what is already shown (`telegram.go:275-283`, 438-444) |
| `LastActive!OfUsers` | the heartbeat's session becomes the last active one, against `state.go:26` |
| `LastActive!OneConversation` | chat and session are recorded in two steps, which concurrent runs interleave |
| `LastActive!OneBeat` | the first beat, of a timer, may overlap the ticker's |
| `LastActive!BeatsFollow` | the heartbeat has a copy of the state, read once (`service.go:63`): it does not follow the user |

Where a property holds only with an exception, its comment names it:

- `ChannelManager!InOrder` leaves out rollbacks: the dispatcher left behind may
  deliver its message after later ones, or a piece again. `QuietStop` leaves out a shutdown during
  a reload.
- `Routing!BucketServesSession` leaves out quotes of another conversation, and
  it and `ConversationsApart` leave out identity links under which one peer has
  two names (`LinksClear`): an id listed twice, or "tg:u" listed for one name and
  "u" for another, since a peer is looked up with its channel, as it is, and
  without the platform its id begins with (`session_key.go:221-238`). Bucket and
  session then go by the order of a Go map; two of the five values of the links
  are such, and without the exception both properties fail in the run.
- `HistoryPruning!PruningKeeps`: joined acknowledgements take the tool turns after
  them along, up to the next text, at the second sanitizing; and the cutoff of
  the last stage, taken before, reaches into the latest messages.
- `CronService!RecurringScheduled` and `KeepsRunning` leave out a cron job whose
  expression gave no time when its next run was last computed.
- `PlanMode!ApprovedOnly` is about the order to plan that a request carries, and
  leaves out resumed runs, which carry none.
- `ProcessManager!OutputOnce`: a poll of exec that ends by its timeout is given
  output it then drops (`shell_managed.go:53-57`).
- `SplitMessage!Fits` needs header lines that fit (`manager.go:656`): with a longer
  one the rest grows without end. The instance has none.

Things the models have that no property judges, because the code promises
nothing about them:

- A send may enter `bus.inbound` after `Close` drained it (`bus.go:34-51`).
- A full bucket blocks the dispatcher, hence all conversations (`loop.go:428`).
- A job disabled after it was collected runs once more (`service_runner.go:32`).
- An evicted conversation is not read back from its files; its next message
  starts a new root (`manager_gc.go:76`). A torn line makes the file unreadable,
  hence the conversation absent after a restart (`manager_load.go:196-203`).
- A late success wipes a newer cooldown; an override the user sets between the
  check and the downgrade is overwritten.
- A binding that names a peer and a guild applies to other peers of the guild
  (`route.go`, findGuildMatch).
- A bootstrap file replaced by one with an older time is not noticed by the
  prompt cache.
- A task approved right before the process dies is lost: /approve clears the
  file first.
- In the memory, a label that appears twice keeps its last section, text before
  the first label is lost, a repeated entry keeps its old position, and the
  Profile the flush asks for is a block it may not change.
- A detected loop's calls lose their thought signatures for the rest of the run
  (`loop_tools.go:82-94`); an override whose alias names another provider goes to
  the agent's own client (`loop.go:1216-1219`).
- The deferred cancel of a tool's policy timeout kills the background command
  that the tool left (`toolcall_executor.go:267-269`, against `docs/tools.md:445`).
- Files of messages that are not answered stay until their TTL.
- The results of heartbeats are delivered to nobody: the gateway's handler is
  silent. A cron job in an external chat counts as activity there.
- Parts of the program nothing calls: `ReleaseAll` of the media store,
  `ExecuteImage`, the registries, search cache and installer of skills (tests
  only), and the JSONL store.

## 7. Not modelled

Of the modelled components:

- Inbound queue: `PublishOutbound` looks at `closed` before its select
  (`bus.go:61-76`), which `Answer` does in one step; a run whose answer is refused or
  accepted late is settled either way.
- Reply contexts: the seven day TTL and the limit of 4096 entries; a lookup that
  misses is the case of an answer that was never shown.
- Agent run: the texts of prompts and notices, commands other than those of plan
  mode, voice. The answer of a model is which of its outcomes it is.
- Compaction: the legacy mode, the compression no caller uses, the text of
  summaries. AgentRun has the compaction in the foreground, SessionCompaction
  that in the background; they are not composed.
- Session store: the migration of legacy snapshots; the file name of a key
  (distinct keys may share one); a flush mark at compaction 0, which replay
  skips and which equals the initial mark; a failed append that leaves an empty
  file, or a line that lacks only its newline, with which the next one merges. Other
  conversations appear only as the eviction of this one.
- Cron: payloads (with the second save of a new job, of its command), previews, and
  the interval between two checks, which is shorter than a tick.
- Media store: the file is looked up before the lock is taken (`store.go:92-98`);
  `Store` does both in one step.
- Plan mode: unfinished runs older than the latest one, and a resume beside a run.
- Channel manager: the moment between the start of a candidate and its taking over
  (`reload.go:71-80`), in which nobody sees what was not there before; media messages,
  which take the same path; UnregisterChannel, which nothing calls; reactions, which are undone as typing is stopped.
- Memory: what embedders and scores compute; a search finds a subset.
- Providers: transport, usage figures, schemas of tools, prices.
- Tools: hooks, traces and confirmations; the extraction of text from pages;
  files and edits; the input of processes; MCP's protocol and discovery.

Whole components, with nothing a state machine would tell apart: token usage and
the task ledger (a counter and a list under a mutex, written whole), the parsing
and migration of configuration, secrets, login protocols (which no code calls),
logging, voice, the console's pages.

## 8. What could follow

- Runs for the refuted formulas of section 6, as far as a team wants them kept
  beside the code until it changes.
- Composition: AgentRun over SessionStore instead of a history of its own, and
  ChatSend under ChannelManager's retries.
- Proofs about SessionCompaction and the subsystems that section 5 leaves to TLC.

Each new module comes with small instances as above, two to four actors and a
bound on every counter, and with properties aimed at the hazards listed for its
lines.
