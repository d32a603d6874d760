# Zaram in TLA+

Zaram is a desktop assistant that keeps a person's documents and memory on
their own machine: an Electron host (`src/electron`) that supervises a Python
backend (`src/backend`), and a React front end (`src/frontend`) that talks to
the backend over loopback HTTP. Its promises are about what may happen without
the person: what leaves the machine, what a tool may change, what is on record
afterwards, what runs unattended, and what survives a crash. This directory
models the parts that carry those promises, checks them with TLC on small
instances and proves the ones that matter most with TLAPS for every instance.

## The system

| Component | State it keeps | Operations | Talks to |
|---|---|---|---|
| Egress policy `core/egress/policy.py` | host rules, class rules, class-wide defaults, the kill switch; `egress_policy.json` | `decide`, `has_rule`, `set`, `forget`, `set_class_default`, `set_kill_switch`, `_load`, `_save` | the gate, the privacy pane's routes in `main.py` |
| Egress gate `core/egress/gate.py`, `aio.py`, `network/session.py` | none of its own; a thread per request | `check`, `request`, `stream_lines`, `download_to_file`, the async sessions | the policy, the confirmations, the log, the network |
| Confirmations `core/egress/confirm.py` | a map of questions, each with an event a thread waits on | `ask`, `pending`, `decide`, `cancel_all` | the gate's threads, the front end's dialog, shutdown |
| Egress log `core/egress/log.py` | a hash-chained SQLite table | `append`, `verify`, `apply_retention`, `bytes_since` | six kinds of caller, the privacy pane |
| Backend launcher `electron/backend/backendLauncher.js`, `electron/main.js` | the child process, a poll timer, a restart timer, a count of silences, the window's page | `start`, `restart`, `stop`, the exit handler, the probe | the process, the port, the window |
| Triggers `core/triggers.py` | the triggers and runs tables, one asyncio lock | create, enable, delete, `tick`, "run now", `record_run`, prune | the chat route, which is asked in-process; obligations |
| Tool permissions `runtimes/mcp/policy.py`, `floors.py`, `runtime.py` | the write mode and the grants of a server, the grants of a session | `decide`, `floor_for`, `always_asks`, the card's offers | the tool loop, the list of servers, the permission card |
| Tool servers `runtimes/mcp/config.py`, `api.py`, `runtime.py` | the servers' file, connections, processes, session grants | attach, replace, detach, switch, grant, revoke, connect, call, shut down | tool permissions, the processes |
| A server's client `runtimes/mcp/client.py` | one pipe, one queue of replies, a counter of requests | handshake, `_request`, disconnect | the server process |
| Tool loop `core/execution_engine.py`, `core/tool_loop.py` | one reply's rounds, handoffs and checks; a session's Go, grants and task | model turn, tool call, hold, Go, continue, cancel | models, tool permissions, plan records |
| Plan records `projects/plans.py` | tasks with items, turns, a held call, approved and finished flags | `save`, `approve`, `finish`, `delete` | the tool loop, Activity |
| Memory `runtimes/memory` | facts in SQLite, an index rebuilt from it, vectors | remember, correct, pin, move, forget, purge, decay, repair | recall, ingest, the routes of `main.py` |
| Ingest and knowledge `ingest/` | sources, one outcome row per file, the facts each file made, a notifier | scan, drop, retry, re-read, withdraw, the notice in a reply | the file system, the Spine, the chat |
| Updates `core/updates.py`, `native/updateInstaller.js` | `updates.json`, a phase, a folder with an installer | check, fetch, tidy, status, pending | the gate, the host that runs the installer |
| Pairing `core/pairing.py`, `paired_clients.py` | codes on offer, paired clients, their table | issue, redeem, verify, revoke | the middleware of `main.py` |
| Task queue, scheduler, retries `core/task_queue.py`, `scheduler.py`, `retry_policy.py` | a heap of tasks, workers, events | schedule, take, retry, cancel, stop | nothing in production yet; its tests construct it |
| Local servers and their models `providers/`, `runtimes/models` | which server was launched and when, the catalogue of models | start, watch, rescan, warm, release | server processes that outlive the backend, cloud engines through the gate |
| Pictures `runtimes/images`, `imaging/` | a count of requests in flight, the loaded pipeline, what was put out for it | draw, make room, unload, bring the chat model back | the card, the chat model's server, cloud providers |

`PROJECT.json` lists the rest (settings, artifacts, conversations, speech, the
front end) with the reason each is left out.

What is hard here: a question parks a request's thread while the person edits
the policy it was read from; the answer races its own timeout, a second answer
and the shutdown; files are saved, damaged and read back; a row must be in the
log before the bytes go; the log is pruned and re-hashed in place; a process
crashes while its exit event, its respawn timer and several probes are on their
way; the scheduler works from copies of rows that are edited while it waits for
a model; a tool call is decided, then waits for its server to start; a card is
pressed after the task it stands on has moved on; several threads take replies
from one queue; files change while the batch that named them is being read; a
correction is two writes; the card is measured, then emptied, then measured
again, and filled by whoever comes first. `PROJECT.json` lists these hazards at their lines.

## The modules

    EgressPolicy <- EgressGate --> EgressPromise      (abstract: record, then send)
    ToolPolicy <- ToolCard                            (one call and its card)
    ToolPolicy <- ToolServers <- MCToolServers        (list, processes, calls)
    ToolPolicy <- ToolLoop <- MCToolLoop              (replies and tasks)
    Triggers <- MCTriggers     BackendLauncher
    EgressPolicy, EgressLog, MemorySpine, Knowledge                      <- MCRecords
    Updates, TaskQueue, McpClient, PairedClients, ToolCard, Knowledge,
      ImagesRuntime, ModelServers                                        <- MCServices

`X_proofs` holds the theorems about `X`, and four hold those of more than one
module: `EgressGate_proofs` (EgressPolicy and EgressGate), `Records_proofs`
(EgressLog, MemorySpine, Knowledge), `Services_proofs` (Updates, TaskQueue,
McpClient, PairedClients, ImagesRuntime, ModelServers) and `Tools_proofs`
(ToolCard and ToolServers, on the lemmas of `ToolPolicy_proofs`). `MC...` modules
give the constants their values. Names in the modules are the code's where TLA+
allows.

**EgressPolicy** - `policy.py`. Variables `rules`, `classRules`,
`classDefaults` and `killSwitch` are the object's fields, `disk` is the file
with the part of it that cannot be read. Each edit is one action because all of
them run under the policy's lock; it changes memory and then saves, and the
save either replaces the file (`os.replace`) or raises with memory already
changed. `Load` follows `_load`'s order (hosts, class defaults, classes, kill
switch) and its handler. `Decide` is `decide`, early return by early return.
`chosen`, `trusted` and `failedLoad` are history the properties need; no
action's guard reads them.

**EgressGate** - `gate.py`, `confirm.py`, `aio.py`; extends EgressPolicy. A
request is a thread with a program counter `pc`; each action is the code between
two points where another thread can run: `Consult` (the call of `decide` and the
branch on it), `ConsiderGrant` (the second and third reads of the policy),
`Ask`, `WaitReturns`, `Collect` (the three parts of
`PendingConfirmations.ask`), `Remember`, the three `Record...`, `Send`,
`Redirected`. `Answer` is `decide` of the confirmations, `CancelAll` is
shutdown. Routes from the event loop's thread are refused a question at once,
as `ask` refuses them. The log is the set of its rows here: the order and the
hashes are EgressLog's. Loopback requests, which return before any decision, and
transport errors after the send are left out.

**EgressPromise** - the abstract specification: a record that only grows, and
contents that leave only when recorded, as recorded. EgressGate implements it.

**EgressLog** - `log.py`. `rows` is the table; a hash is the sequence of
contents hashed so far, which is what a collision-free chain is. `CallSites`
holds what each caller really passes as `kind` and `decision`; they differ.
`ApplyRetention` is the whole transaction: the selection, the marker, the
re-linking; `Survivors` are the rows the selection keeps, in the table's order.
The clock is the machine's and can be set back. `Edit`, `Lose` and
`Reorder` are one change of the file from outside.

**BackendLauncher** - `backendLauncher.js` and the handlers of `main.js` on its
state. Each handler runs to its end on Node's one thread and is one action; the
environment is the set of processes and the port. A probe's answer is settled
when it leaves and arrives at any later step, so answers overtake each other and
outlive the process that gave them.

**Triggers** - `triggers.py`. The tick and each "run now" are tasks of one event
loop: `turn` is the task that runs, and a task gives it up only where the code
awaits (the lock, the question). `job[a].of` is the copy of the row the task
works from, which is what `record_run` counts from. `runs` is the set of the rows of the
runs table, which is only ever asked whether it has a row. `Restart` loses every task
and keeps the tables.

**ToolPolicy** - `policy.py` and `floors.py` of the tools, and the rule for a
plan let run without stopping (`_runs_uninterrupted`). Operators only. A call is
what these functions can tell of it: the words of its name, the list it is on,
the server's own annotation, what a floor sees in its arguments. `Decide` is the
gate's verdict in the code's order.

**ToolCard** - one call and the card it is asked about on, while the hints, the
mode and the grants its verdict is made of change.

**ToolServers** - `config.py`, `api.py`, `runtime.py`. A route and a decision
run whole; starting a process and calling a tool wait on a thread, so a request
is at `starting` or `ready` and everything else happens meanwhile. `procs` is
every process ever started, `connections` the table that shutdown goes by.
`said` is history: the grants the person made and has not undone.

**ToolLoop** - `_run_tool_loop`, `continue_task` and what calls them, with
`plans.py`. `reply[x]` is the reply a session is making: its turns, the round,
the calls made, the handoffs left, the failed checks, the one press it was
given. A `Lap` is the code between two turns of the model. `rows` is the store
of tasks, `cards` what the last card on a task showed. The model may ask for
anything; what is modelled is what the loop makes of it. Turns are kept as far as
the loop looks back at them: the plans among them, the calls nothing has
happened since, and whether a file was written since the last check.

**Updates** - `updates.py`, its routes and the host's step on quitting. Each
route is a thread that looks, sweeps, forgets; the download is another; the
files, the phase and `updates.json` are what they share. An installer is the
release it is of and whether it is whole.

**TaskQueue** - `task_queue.py`, filled by `scheduler.py`, retried by
`retry_policy.py`. What happens between two awaits is one step. `TriesAgain` and
`Stop` say what a cancel or a stop does in an attempt, in the sleep before one
and while idle.

**McpClient** - `McpServer` of `client.py`. The server's end is an environment
that answers in any order, late, twice, with an error, or not at all, and says
things nobody asked for. `replies` is the one queue every caller takes from.

**PairedClients** - `pairing.py` and the table behind it. The registry is
changed before the row is written, and the write may fail; a restart reads the
rows.

**MemorySpine** - the store, the index and the routes of `main.py` that call
them. A correction is two writes and may stop between; the repair of old vectors
writes back copies read before it awaited the embedder; `Restart` rebuilds the
index from the rows. `told` is what the person last said of a fact. `spoiled`
marks the facts that three paths of the code write over; see the table below for
what it excludes and why.

**Knowledge** - `ingest/` and the routes on it. `job` is what each thread is
reading (a scan, a drop, the watcher, a retry), at the step where it stores a
file's facts or records its rows; `changes` and `batch` are what the notifier
has noticed and handed over; `leaving` the facts a withdrawal has yet to forget.
`cut` is history: the facts that an abandoned stream or a stop left without a
row.

**ImagesRuntime** - `runtimes/images/runtime.py` with `card.py`,
`imaging/cloud.py`, `imaging/local_flux.py` and `warm_local_model`. `picture` is
where each request is in `execute`: a place per await, since between two of them
the loop runs it alone, and the places of the thread that draws. `inFlight`,
`evicted` and `loaded` are `_in_flight`, `_evicted` and the provider's
`_pipeline`; the card is a number of units that the chat model, the pipeline and
other programs take from. `Surroundings` is everybody else: a question that
loads the chat model, the Release button, the choice between cloud and card,
another program. A model that is being loaded counts as on the card.

**ModelServers** - `providers/model_servers.py` (`start`, `ensure_started`,
`refresh_when_up`), the Start button's route and the rescans of
`providers/manager.py`, for one server. `doing` is where each coroutine is: the
boot's, a press's or a listing's; the probe, the decision under `_lock` and the
two halves of a scan are steps. `process` has each spawned server and its age;
`launched` is `_launches`. `HalfMinute` passes only when everybody who has
something to do at once has done it. A boot that waits for Ollama before the
kernel differs in nothing but that wait.

**MCRecords**, **MCServices** - the sums. The components of each share a process
and nothing the properties speak of, so a behaviour of the sum picks one of them
at the start and is a behaviour of that one; the others stay where they began
and none of their fair actions is enabled. What is checked of a sum is what
would be checked of each part.

## The runs

| Run | What it asks | Bounds, and why they are enough |
|---|---|---|
| `records` | rules, log, facts and dropped files | rules: one host (`decide` never relates two), `prompt`, which a host rule speaks for, and `browse`, which it does not and which may have a class-wide answer; log: five rows ever, clock 0..2, one age, so two prunes with survivors that include a marker and a purge row, and a clock set back between them; facts: two, so a correction and its replacement, one project, one result per search; files: two dropped files, two streams and three starts, so a drop crosses a drop, a retry or a withdrawal; the notices of a reply, which touch nothing the property reads, over two starts |
| `gate_one` | decided before sent, with failing saves and logs | one request of each kind: a class that is asked about and remembered, a page handed over to read, a call from the event loop |
| `gate_two` | logged before sent, the last answer counts | two requests asking about one host, editable bodies; the policy and the log are all they share |
| `gate_download` | refusals final, `EgressPromise` implemented, every question ends | two hosts, one redirect, so a hop starts with what the one before left behind; the file may be damaged and the process restarted |
| `launcher` | one backend, none after quitting, the backend comes back | three process identities (one exiting, one running, one to spawn), two probes in flight (every 2 s with a 3 s timeout), a limit of 2 silences |
| `triggers_ticks` | the breaker and the drafts, with toggles, deletes, restarts | a drafting and a daily trigger, a breaker of 2 (a count goes through 0, 1 and the limit), two days of two moments, runs kept two ticks so that some are pruned |
| `triggers_live` | the lock, the slots, liveness | the same two, a press that queues behind the tick and a tick behind the press |
| `tools_servers` | unasked changes, known processes | a built-in and one other server, two programs (so that one entry replaces another), one of which undoes its writes, one session, two processes ever |
| `tools_loop` | cards, Go, presses | one conversation, two tasks, a change that can be allowed, a removal that cannot, a plan long enough to be reviewed, two rounds; two tasks are what it takes for a card or a Go to meet the wrong one |
| `tools_reply` | calls bounded, replies end | a look, a change of a file, the project's check, a tool of a read-only server, a plan; two rounds, one handoff, one failed check, so each way to start again is taken once and refused once |
| `services` | the eight services | updates: two releases, two routes and the download; queue: four tasks in two plans, a chain of three, one retry, two workers; client: two callers, three requests, one stray message; pairing: two codes, three clients, expiry within the clock, failing writes; card: every call the lists can tell apart; watcher: one folder, one file, three changes; pictures: two requests on a card that holds the pipeline or the chat model and not both, with questions, releases, changes of the choice and failures; servers: the boot, a press and a listing, two processes, a server that answers within a minute or dies |
| `loop_plan` | finding | the smallest instance that shows it |

Constants that are bounds only: `MaxHops`, `MaxRows`, `MaxTime`, `MaxProbes`,
`Day`, `MaxProcs`, `Ids`, `MayAllow`, `MaxId`, `MaxNotes`, `MaxClients`,
`MaxClock`, `MaxFact`, `PerFolder`, `MaxDropped`, `MaxStarts`, and the sets
`Pictures`, `Presses`, `Listings` and `Processes`.
`UNANSWERED_LIMIT`, `BREAKER_AFTER`, `RUN_TTL_DAYS`, `MAX_TOOL_ROUNDS`,
`MAX_AUTO_CONTINUATIONS`, `MAX_CHECKS_BEFORE_DONE`, `MaxRetries` and `Ttl` are
the code's own with small values; nothing in the modules depends on the size.
`RELAUNCH_GUARD`, `STALLED` and `PATIENCE` are the code's in half minutes, and
`SlowestStart` says how many a server may take: with 1 it answers within the
guard, with 3 it does not.

`SYMMETRY` is used where a run tells two of a set apart nowhere: the requests of
`gate_two` and the streams of `records`, neither with a liveness property.

`CHECK_DEADLOCK FALSE` is set where the system really stops or a bound stops it:
the launcher once the app has quit, the triggers' clock, the numbers of facts,
rows, requests, tasks and processes that are ever made.

Each property has a mutant of the code that breaks it, kept beside the
definition it replaces and marked "Mutant of".

### Fairness

- Gate: weak fairness of each thread's own steps. Threads run, and
  `event.wait(timeout)` returns whether or not anybody answers, so `WaitReturns`
  is always enabled. Nothing is assumed of the person, the servers or the
  machine.
- Launcher: weak fairness of timers, exit events, bind and death, since Node and
  the operating system deliver them; strong fairness of a probe that finds the
  port served, because the interval probes for ever and a live backend answers
  some of them. `Recovers` is asked only of behaviours in which crashes and
  manual restarts end and no spawn fails, which the launcher never tries again.
- Triggers: weak fairness of the tick, of waking from the lock and of a task's
  own steps. The last includes that a question ends, which the code does not
  enforce: `ask_in_process` has no timeout. It is an assumption about the chat
  route.
- Tool loop: weak fairness of `Lap`: a turn of the model and a tool call end,
  by their own timeouts. Nothing is assumed of the person or of what the model
  says; `EveryReplyEnds` names the one thing a model can do for ever.
- Task queue: weak fairness of each worker: the event loop runs it, an attempt
  ends. `EveryTaskEnds` is asked while the queue runs and its head waits on
  nothing but work under way; without that proviso it is `QueueDrains`, which
  the code does not keep.
- Client: weak fairness of a caller's wait, which has a timeout, and of what
  follows it. Used by `RequestsEnd`.
- Updates: weak fairness of the download's steps and of each route. Used by
  `ChecksEnd`.
- Watcher: weak fairness of its own steps and of a retry's; strong fairness of
  `Watches`, the watcher's look at what was handed over, since a retry keeps
  the event loop again and again and always lets it go.

- Pictures: weak fairness of each request's steps, of a reload that was
  scheduled and of a load under way; nobody has to ask for a picture, or to stop
  asking. Used by `CardIsGivenBack`, asked of behaviours in which requests end.
- Servers: weak fairness of each coroutine. A server need not answer, nor time
  pass. Used by `WatchedIsListed`.

## What is proved

Every safety and action property that a passing run checks is also the statement
of a theorem, for any values of the constants that their assumptions admit.
`PROJECT.json` lists them; each rests on an inductive invariant whose conjuncts
are named, was first checked by TLC, and is carried by one lemma or step per
action.

The assumptions on constants are those the modules declare, and TLC evaluates
them in the runs. Most say that a set does not hold the value that stands for
nothing, or that a limit is a number. Three say more. The traits of a call are
ones that the word lists, the floors and the servers can give it together
(`Coherent`).
The sets of processes, pictures, tasks and conversations are finite, where
something in the code counts them. A `Trait`, a `Kind` or a `Due` is fixed for a
behaviour, as the code reads it from a row or a name that nothing in the module
rewrites. Some promises need a condition the code does not keep; it is then a
hypothesis of the theorem, named below, and a configuration of the next section
shows that the promise fails without it.

- **Policy** (`EgressGate_proofs`): `PolicyTypeCorrect`,
  `ConsentNeverWidens`. The invariant `PolicyInv` is the type, and that every
  `allow` in memory and every `allow` in the file was chosen. The file must be
  in it because a restart reads it back, and a failed save is why memory and
  file cannot simply be equal. `BlocksHold`, `SealHolds`: the invariant
  `Faithful` says that while every save has succeeded and nothing else touched
  the file, memory, file and the person's choice agree on the host rules and the
  switch; `decide` asks about those two before anything else. The proviso is
  part of both properties, and the code needs it: a failed save is undone by the
  next restart.
- **Gate** (`EgressGate_proofs`): `TypeCorrect`, `NothingUndecidedLeaves`,
  `LoggedBeforeSent`, `LastWordIsFinal`, `RefusalsHold`, `GateKeepsPromise`. The
  invariant `Inv` adds to `PolicyInv` what a thread's place in the code says of
  it (`ThreadInv`): at `remembering`, `allowing` and `cleared` there is a reason
  it may go ahead, at `cleared` its row is in the log, an approval on a waiting
  question is the person's and agrees with the last word.
  `NothingLeavesUndecided` alone is not inductive: it says nothing of a request
  that has yet to leave. `OthersKeepInv` carries the invariant over the threads
  that do not move, because records only grow. `RefusalsHold` needs an invariant
  of its own: a request that may still go on has no refusal on record for the
  url it is at, nor anything on the wire for it, since it visits each hop once.
  `LoggedBeforeSent`, `NothingUndecidedLeaves` and `GateKeepsPromise` assume
  `CheckedRedirects`, that only downloads are redirected; the first and the last
  also assume `LoggedMethods`, that nothing posts through `GatedSession`. The
  code guarantees neither (`EgressGate_redirect`, `EgressGate_post`).
- **Log** (`Records_proofs`): `LogTypes`, `ChainHolds`, `RequestsAccounted`,
  `TamperingShows`. `verify` skips the markers and what they follow, so that it
  passes says less than the invariant `Linked`, that every row is on the one
  before it. An append adds a link; of a prune, which rewrites the whole table,
  `Relinks` shows that the rows it leaves are linked, whichever survive. The
  counts need that contents are those of a write (`AsWritten`), that the numbers
  of the rows rise but for the markers (`Rising`), so that nothing is counted
  twice, and that the requests in the table and those the markers count are the
  requests written (`AddsUp`); `Survive` says what a prune's selection leaves, in
  what order. A hash is of one row only (`HashIsOfOne`), so a table changed from
  outside has a row that does not fit, or is one the chain does not look at.
- **Memory** (`Records_proofs`): `SpineTypesHold`, `CorrectionsHold`,
  `FactsStandAsTold`, `PurgesGoBack`, `PinsStay`. `AsTold` relates each row to
  the last thing said of it, and is silent about one fact: the original of a
  correction between its two writes. `Mending` is what that correction
  remembers of it. Neither property is inductive without the other, since the
  second write strikes the original through by a copy made at the first.
  `PurgesGoBack` is about `Earlier`, a recursive function on the numbers, which
  TLAPS knows only as a CHOOSE: `Iterates` shows there is such a function, and
  `EarlierIsClosed` that its set is closed, by least numbers (`LeastNatural`),
  as the library's induction needs an operator for a parameter. What is
  `spoiled` is left out of both properties, as `Records_refuted` shows it must.
- **Knowledge** (`Records_proofs`): `RowsAreTheFilesOwn`. `OneRowPerFile` is
  about the table, and a table of one row per file can get two from what the
  threads still hold. `FilesInv` says that ids come from one counter, so that
  the facts in the hands of two threads, or in one thread's results, are apart
  and in no row; that a source is of one root; that the results of a batch are
  of different files. `DropsComeBack`: a dropped file is in one row or read by
  one job (`DropsAreKept`), what a retry rewrites is a row without facts
  (`RetriesInPlace`), and every fact of a dropped file is in a row, in a hand,
  cut off by a mishap or being forgotten (`Accounted`). It assumes `~Sparse`,
  that a file recorded as a problem has made no facts.
- **Launcher** (`BackendLauncher_proofs`): `OneAtMost`, `NoneAfterStop`, for any
  number of processes. `OneBackend` counts living processes and is not
  inductive: a dead one whose exit event is still under way has a respawn
  before it. `Unaided` says that until a restart by hand one process at most
  exists in whatever state, the host knows it while it is alive, and a respawn
  is due only when there is none.
- **Triggers** (`Triggers_proofs`): `TypeCorrect`, `SlotsAreBegunOnce`,
  `ObligationsAreDraftedOnce`, `TheBreakerTrips`, for any period, threshold and
  time to keep runs. `ControlInv` says who is past the lock, that a task stands
  in line once, and that it has one copy of a trigger at most. `SlotInv`: the
  slot served is behind what every copy still to be begun would serve, which
  needs that a slot grows with the clock (`SlotGrows`). `DraftInv`: what has
  been drafted is past, or has a row young enough to be found. It assumes
  `RecordsOutlast`, that no trigger looks as far ahead as runs are kept.
  `CountInv`: the count in the row, and the count in each copy the tick has yet
  to record from, are no less than the holds in a row. It assumes
  `OneRecordAJob`, that nobody presses "run now" and there is at most one
  obligation where a trigger drafts. `Triggers_drafts` shows what two
  obligations and a long look ahead do, `Triggers_refuted` what a press does.
- **Tool card** (`Tools_proofs`): `NoGrantIsEnough`, `HintsNarrow`,
  `AllowingIsEnough`. The invariant is that the call is one there can be; the
  rest is a case split over the policy's early returns, in lemmas about
  `Decide`.
- **Tool servers** (`Tools_proofs`): `ServersTypes`, `UnaskedWereAllowed`,
  `ProcessesAreKnown`. `GrantsWereMade`: whatever is granted on the list was
  granted by the person, to the program that the list names for that server now,
  since replacing an entry drops its grants with it. `Connected` and `Requested`:
  the table, and whoever has started a process, is on one of the server's own.
  `ProcessesAreKnown` assumes `OneRequest`, that one request is made at a time,
  and needs that a process is started only for a server that has none
  (`StartsAreFirst`); `ToolServers_refuted` shows two requests that break it.
- **Tool loop** (`ToolLoop_proofs`): `LoopTypes`, `WorkHasAnEnd`,
  `RemovalsAndSendsHold`, `GoIsItsOwn`, `CardsHold`. `PlacesInv` says where the
  task of a reply and of a conversation is; `Pace`, that the calls made never
  exceed the rounds begun, each handoff paying for one more set of them, which
  is why the bound holds whatever the model asks for. `RemovalsAndSendsHold`
  follows a call from the lap that runs it back through the gate's verdict to the
  press. `GoIsItsOwn` and `CardsHold` assume `Unshared`, that no two
  conversations are on one task, and the second that saves succeed: a second
  window on a task saves its older copy over the first's
  (`ToolLoop_twowindows`), and a save that fails leaves the card without its
  call (`ToolLoop_refuted`).
- **Paired clients** (`Services_proofs`): `RevokedForGood`,
  `CodesAreSingleUse`. A restart reads the rows, so what is refused in memory
  and what the person was told has to be in them too (`RevokedInv`); a code that
  a client holds, in memory or in a row, is one that can pair no other
  (`CodesInv`).
- **Updates** (`Services_proofs`): `OnlyNewerIsRun`. What a route remembers over
  its steps is still what it was when the route is done, since the build changes
  only when every route has ended.
- **Task queue** (`Services_proofs`): `DependenciesGoFirst`. What was taken
  from the heap had its dependencies completed, and keeps them so, since an end
  is final.
- **Client** (`Services_proofs`): `HandedOnesOwn`. Numbers are given out upwards
  (`NumbersInv`), so what is asked or answered under the number of a request
  under way is that request (`MatchInv`), whatever else stands in the queue.
- **Card** (`Services_proofs`): `TheCardIsOwed`. `SomeoneGivesBack` rests on
  the count: `CountInv` says that `_in_flight` is the number of requests between
  the first line and the `finally`, so whoever is not the last out leaves
  another behind.
- **Model servers** (`Services_proofs`): `OneServerAtATime`, if a server
  answers or dies within the guard and the backend is not started again
  (`WithinTheGuard`). The decision is made on a probe that may be old:
  `YoungInv` says that while somebody is about to decide, whatever is alive is
  younger than the guard, so the lock's check spares it. The code keeps neither
  condition (`Services_refuted`).

Only checked, not proved: that something eventually happens
(`EveryRequestEnds`, `Recovers`, `EveryDueTriggerRuns`, `EveryReplyEnds`,
`CardIsGivenBack`, `EveryTaskEnds`, `EveryChangeIsRead`). They rest on fairness,
so on ENABLED, which TLAPS does not reason about. The refuted statements of the
next section are TLC's too.

## Where comments and names say more than the code does

The run `loop_plan` ends in a counterexample. Under a plan let run without
stopping, `_runs_uninterrupted` (`execution_engine.py:578`) reads the floors and
the word lists and never `policy.always_asks`, so a call of a tool listed as
asking every time, such as the one by which the model grants a tool to itself,
reaches the gate as confirmed and runs. `runtimes/mcp/policy.py:424` says of
such a tool that a standing yes is never kept.

The modules also state what other comments, names and tests promise, in the
section at their end, and the configurations below make TLC refute them. They
are disagreements to settle in the code or in the comment, and not part of what
the runs above show. Leave one property in the configuration to see its trace;
what a configuration's first lines say holds, does.

| Configuration (module) | Statement | What the code does |
|---|---|---|
| `EgressGate_refuted` (MCEgressGate) | `SealedMeansSealed`, policy.py:197, main.py:2919 | a request parked on a question, or already cleared, is sent after the switch is on |
| | `AnsweredOnce`, confirm.py:28-30 | a second answer before the thread wakes replaces the first |
| | `RememberedUnderAHostRule`, policy.py:556-559 | a host forgotten while its question waits gets a class rule and no host rule |
| `EgressGate_facts` (MCEgressGate) | `FactsAreAskedFirst`, policy.py:79-82 | a chat body is never classed SPINE, so recalled facts go to any host allowed for prompts |
| `EgressGate_post` (MCEgressGate) | `WireIsOnRecord`, gate.py:374-377 | `GatedSession.post` logs a POST and sends a GET; nothing calls it yet |
| `EgressGate_redirect` (MCEgressGate) | `WireIsOnRecord`, gate.py:3 | `urlopen` follows a redirect by itself; only `download_to_file` checks hops |
| `Records_refuted` (MCRecords) | `CorruptFileFailsClosed`, policy.py:316-318 | damage after `classDefaults` was read leaves the class-wide browse permission in force |
| | `TruncationIsSeen`, log.py:39-41 | a table whose newest rows are cut off verifies |
| | `MarkerIsNoBlindSpot`, tests/test_egress_gate.py:313 | a row removed in front of a purge marker is not reported |
| | `PruningKeepsTheEvidence`, log.py:20-22 | a prune recomputes the hash of an altered row |
| | `RetentionForgets`, log.py:379 | rows of a kind other than `request` are never pruned |
| | `BytesSinceCountsWhatLeft`, log.py:312 | rows whose callers spell the decision or the kind otherwise are not counted |
| | `CorrectedIsNeverRecalled`, main.py:4322-4323 | the repair of vectors writes a corrected fact back as it read it; a corrected fact moved to another scope is put into the index; a correction that stops after its first write leaves both wordings standing |
| | `ScopeIsNotCrowdedOut`, retrieval.py:22 | the index returns a fixed number of matches before they are filtered by scope |
| `BackendLauncher_refuted` (BackendLauncher) | `StopAlwaysLeavesNone`, main.js:173 | after a manual restart the old process's exit sets `this.child` to null (backendLauncher.js:309), and `stop()` finds nothing to kill |
| | `GoneMeansGone`, backendLauncher.js:163-165 | the same exit reports the running backend as gone |
| `Triggers_drafts` (MCTriggers) | `BreakerTrips`, triggers.py:40-41 | every run of one morning's job counts from the copy read before it, so any number of held drafts add one (triggers.py:333) |
| | `DraftedOnce`, triggers.py:24-25 | with `days_ahead` above 30 a draft's row is pruned before its obligation is due, and it is drafted again |
| `Triggers_refuted` (MCTriggers) | `DisabledNeverRuns`, the test at test_work_that_runs_on_its_own.py:75 | the tick's copy is checked, not the trigger: one turned off while another runs is still asked |
| | `PausedUntilReenabled`, triggers.py:40-41 | a run made by hand takes the pause back |
| | `RunsHaveATrigger`, the test at test_work_that_runs_on_its_own.py:204 | a trigger deleted while it runs leaves the run's record |
| `ToolServers_refuted` (MCToolServers) | `RunsTheProgramNamed`, api.py:211-213 | an entry replaced under its name keeps the old program's process connected |
| | `OffIsOff`, api.py:275-276 | a connect under way when the switch is thrown puts the server into the table afterwards |
| | `RemovedWithItsGrants`, api.py:260 | grants made for a session stay, and hold for the next server of that name |
| | `EveryProcessIsKnown` | two requests that find no connection each start a process; the table keeps the last and nothing stops the other |
| `ToolLoop_refuted` (MCToolLoop) | `CardsKeepTheirCall` | with saves that fail the card is shown and the task does not hold its call |
| | `DeletedStaysDeleted`, plans.py:401-402 | a reply that runs on saves the task again from its copy |
| | `TheLevelPressedHolds`, execution_engine.py:2795-2797 | "ask" pressed after "without stopping" on the same session leaves the session not stopping |
| `ToolLoop_resends` (MCToolLoop) | `BoundedAllTheSame`, execution_engine.py:1833 | a plan sent again costs no round and no handoff |
| `ToolLoop_twowindows` (MCToolLoop) | `GoIsKept` | a second conversation on the task saves its older copy over the Go |
| `Services_refuted` (MCServices) | `FetchedIsKept`, updates.py:395 | `_tidy` reads the phase and the record, lets go of the lock, and sweeps an installer finished since |
| | `ChecksEnd` | an error that `_send` does not catch leaves the phase at "checking" (updates.py:355 on) |
| | `QueueDrains`, task_queue.py:178-192 | a head that waits for what stands behind it is put back and taken again |
| | `StopTellsWaiters`, task_queue.py:338 | a stop in the sleep before a retry ends the worker, and the task's event is never set |
| | `RequestsEnd` | the timeout is per message, so a server that keeps talking keeps a caller |
| | `AnswersReachTheirCaller`, client.py:297-300 | a thread that takes another's reply drops it |
| | `RevokedEvenIfUnsaved`, paired_clients.py:146 | a failed write leaves the row as it was, and a restart reads the client back |
| | `OneServer`, model_servers.py:110-111 | the guard spares a launch for 60 s and a start may take 120, so a press in between spawns a second server beside the first; with `"relaunch"` a backend started again during a launch does too |
| | `ServingIsListed`, providers/api.py:296-298 | two scans overlap, and the one that read before the server answered replaces the catalogue last |
| | `LoadsWhereItFits`, images/runtime.py:41-43, card.py:11 | a question loads the chat model between the second reading and the load; and a picture asked for while the last one's model is being unloaded finds it loaded, skips the reading, and loads beside the chat model's way back |
| | `ChatComesBack`, images/runtime.py:132-134 | the reload is refused while the next picture has the card, and what was put out is already forgotten (line 624) |
| `Knowledge_refuted` (Knowledge) | `RereadLeavesOtherRows`, records.py:169 | the watcher records a re-read of one file as the rows of its whole source (watcher.py:160-161, 182) |
| | `WithdrawTakesAll`, KnowledgeWorkspace.tsx:710 | facts of earlier readings have no row, and stay |
| | `RecallIsCurrent`, watcher.py:3-7 | a re-read adds facts beside the old ones |
| | `ProjectsKeepTheirFacts`, service_api.py:353 | the watcher and a retry read for everyone |
| | `WithdrawnStaysWithdrawn`, watcher.py | a re-read under way makes the withdrawn source again under a new id |
| | `NoticeIsNotSwallowed`, records.py:315 | a scan that ends between the notice's reading and its mark is marked as told (service_api.py:528) |
| | `MarkedGoneIsGone`, watcher.py:12 | a file deleted and made again within a batch is read and then marked as gone (watcher.py:147) |

Constants such as `Redirecting`, `Calls`, `Events`, `SavesFail`, `MayRaise`,
`Endless`, `Replaces`, `Sparse` and `Mishaps` exist for this reason: the passing
runs and the theorems say under which of their values a promise is kept.

Three things met on the way that no model is needed for: the server annotations
that `runtimes/mcp/policy.py:38-44` describes are never passed to the check of a
held plan; a server of the person's own that is named like a built-in is listed
and the built-in runs; the ingest policy of a source is stored and read by
nothing.

## Not modelled

- Text and ranking: extraction, planning, routing, retrieval scores, prompts,
  the context budget. They hold little control that could go wrong in an order
  nobody tested, and what they compute is a matter of words.
- Which model is chosen for a question and whether it fits (`providers/manager.py`,
  `runtimes/models`): arithmetic over sizes and a ranking. The swap a question
  makes is a server's own.
- Conversations: retention and deletion against a turn in flight. Planned.
- Artifacts, speech, documents: wrappers of models and libraries.
- The front end's views; the confirm dialog and the card's buttons are the
  gate's and the tool loop's person.
- Consolidation, conflicts and extraction of memory; folders inside folders; the
  older knowledge runtime.
- Timeouts of the transport, which end a request after it left and change
  nothing the properties speak of.

SQLite's transactions and `os.replace` are taken to be atomic, a SHA-256 hash to
be collision-free, and what is hashed with a salt to be unguessable.

## Plan

1. **Conversations** composed with ToolLoop: a conversation deleted or pruned
   while its reply is being written.
2. **One card for both**: ImagesRuntime composed with ModelServers, so that the
   server the chat model comes back to may itself be starting.
3. Theorems beside the disagreements: for the statements of the table above, the
   condition under which each holds, as `OneRequest`, `Unshared` and
   `WithinTheGuard` already are for three of them.

## Running

    tlc -config Services.cfg MCServices
    tlc -config EgressGate_two.cfg MCEgressGate
    tlapm EgressGate_proofs.tla
