# A TLA+ development for manox

manox is an agent harness written in Rust: a loop that talks to a language
model and runs its tool calls (`crates/manox-harness`), an engine with sessions,
permissions, goals and sub-agents around it (`crates/manox-agent`), and a server
that shows sessions to clients over the AHP protocol (`crates/manox-ahp`,
`crates/manox-ahp-runtime`, `crates/manox-session-core`). This directory holds
models of the parts whose correctness depends on interleavings, failures and
order, the TLC instances that check them, and the TLAPS proofs about them.
Paths below are relative to `crates/`; `core/` is `manox-harness/src/core/`.

Contents: [1 The system](#1-the-system) · [2 Modules and code](#2-modules-and-code)
· [3 Runs](#3-runs) · [4 Fairness](#4-fairness) · [5 Proofs](#5-proofs)
· [6 Where code and comments disagree](#6-where-code-and-comments-disagree)
· [7 What is not modelled](#7-what-is-not-modelled) · [8 Plan](#8-plan)

To check a run: `tlc -workers 2 -config AgentLoop.cfg MCAgentLoop` (the pairs of
configuration and module are the runs of `PROJECT.json`); to check the proofs:
`tlapm AgentLoopProofs.tla`, and so for each of the eight `...Proofs` modules.

## 1 The system

### Components, their state and operations

| Component | State it keeps | Operations | What makes it correct |
|---|---|---|---|
| **Agent loop** `core/agent_loop.rs`, `core/agent.rs` | steering and follow-up queues, the run's context, the agent's transcript, turn, escalation and bounce counters, a cancellation token | prompt, continue, reset; steer, follow-up, retract, clear, abort from any task | context and transcript differ only by what the loop keeps to itself; every tool call is answered before the next request; no input lost, doubled or reordered; a cancelled run ends and says so |
| **Tool scheduler** `core/tool.rs` | per batch: dependency graph, in-degrees, one result slot per call | layers of concurrent calls, cancel | conflicting calls keep emission order; one final result per call; a cancelled batch settles |
| **Agent harness** `core/harness.rs` | session handle, entry-id index, retry and overflow budgets, mutation queue, next-turn queue, runtime snapshot, shutdown flag | prompt, continue, append, compact, restore, settle loop; the handle's steer, append, set_model, abort, shutdown | retries bounded; what is written can be restored; queued mutations written once, in order; an operation returns |
| **Session journal** `core/session/` | the entries of a JSONL file, the leaf, a fence on the file's length, deferred rows | append, reload, branch, cursor, broadcast to feeds | one append-only log: ids unique, each row on its predecessor's cursor, no acknowledged row lost between two writers of one file |
| **Session claim and lease** `manox-agent/src/session_lease.rs`, `file_lock.rs` | a process-wide registry, lock files | acquire, join, drop | one process writes a session at a time |
| **Engine actor, thread** `manox-agent/src/engine/`, `thread*.rs` | command queue, active run, relay of the journal feed | commands from the server; relay with an in-band lag mark | a feed either delivers a row or says that it lagged |
| **Approval and question gates** `approval.rs`, `permission.rs`, `questions.rs` | pending cards by id, session grants, a journal of decisions | ask, decide, cancel, time out, restore | the journalled decision is the outcome the tool saw; an ask is settled once |
| **Goals** `goal.rs`, `goal_driver.rs` | goal state, reserved round, budgets | reserve, admit at settle, pause, finish | rounds charged exactly when they ran; the round cap |
| **Sub-agents** `manox-harness/src/ext/subagent/`, `steer_bus.rs` | run table, capacity permits, settled ids | start, continue, guide, abort, forget, watch, settle by drive or net | slots conserved; a running child can be stopped; no more settlements than activations; a budgeted run is always reported |
| **Background tasks** `ext/bash/` | tasks, output cursors, exit status | start, poll, kill, collect | exit collected once, no output skipped |
| **AHP host** `manox-ahp/src/host.rs`, `router.rs`, `sequencer.rs` | sequence counter, folded states, subscriptions, replay buffer, pending requests | publish, subscribe, reconnect, reject, request, answer, close | a snapshot and the envelopes above its watermark give the folded state (but for publications that cross the snapshot, section 6); every request is answered or cancelled |
| **AHP journal bridge** `manox-ahp-runtime/src/ahp/backend.rs` | seeds, one bridge per session with its tail | seed, ensure, forward, resync, restart | no state row skipped, none doubled, one bridge per session |
| Providers, MCP, web fetch, sandbox, LSP, changesets, prompts, hashline edits, supervisor, bindings | configuration, sockets, caches, text | input and output, text | see section 7 |

### How they interact

A client command reaches the AHP host, which asks its backend; the backend's
command reaches a thread's engine, an actor that owns one `AgentHarness`. A
prompt runs the agent loop; each reply's tool calls go through the tool
scheduler, and each finished message is written to the session journal by a
middleware of the loop. An append is broadcast; the engine's relay passes the
broadcast on to feeds of a bounded window; the bridge of the session turns rows
into protocol actions and publishes them to the host, which numbers, folds and
broadcasts them. Abort, steer and shutdown come in beside this path through
shared handles, on other threads.

### What is hard

* *Interleavings.* Handles act on queues and tokens that the loop and the
  settle loop read at a few places; a flush reads the head of a queue, awaits a
  write and then removes the head; a submit aborts a task that may be running.
* *Two copies.* Loop context and transcript, transcript and entry-id index,
  live transcript and session, seed and host chat, folded state and envelopes.
* *Partial failure.* A middleware that fails ends a run in the middle; a
  continuation inside the settle loop leaves the operation early.
* *Lag.* Broadcast channels drop their oldest rows when a reader is slow.
* *Budgets.* Retries, overflow recovery, length escalation, turn caps and
  bounces are counters reset by different events.

Every hazard found is listed in `PROJECT.json` at its line, with the properties
that watch it or the reason why none does yet.

## 2 Modules and code

| Module | Code | Composition |
|---|---|---|
| `AgentLoop`, `MCAgentLoop`, `AgentLoopProofs` | `core/agent_loop.rs`, `core/agent.rs` | |
| `ToolScheduler`, `ToolBatch`, `MCToolScheduler`, `ToolSchedulerProofs` | `core/tool.rs` | implements `ToolBatch`; one step of AgentLoop |
| `HarnessSettle`, `MCHarnessSettle`, `HarnessSettleProofs` | `core/harness.rs` | takes a run as AgentLoop announces it |
| `SessionJournal`, `AppendLog`, `MCSessionJournal`, `SessionJournalProofs` | `core/session/jsonl.rs` | implements `AppendLog` |
| `SessionLease`, `MCSessionLease`, `SessionLeaseProofs` | `manox-agent/src/session_lease.rs`, `core/fs_lock.rs` | |
| `SubagentRuns`, `MCSubagentRuns`, `SubagentRunsProofs` | `manox-harness/src/ext/subagent/`, `manox-agent/src/subagent.rs`, `steer_bus.rs` | runtime, drive, host side together |
| `JournalBridge`, `MCJournalBridge`, `JournalBridgeProofs` | `manox-ahp-runtime/src/ahp/backend.rs` | journal, relay, bridges, host seed together |
| `AhpHost`, `MCAhpHost`, `AhpHostProofs` | `manox-ahp/src/host.rs`, `router.rs`, `connection.rs` | the bridge is a publisher |

Definitions keep the source's names where there is one. Each action stands for
the code between two points at which another task's action can be observed: an
await that can wait, a lock that is released and taken again, a read of a token
or a queue. The definitions with `Mutant` in their name are plausible bugs of
the definition they precede; they are used by nothing, and `PROJECT.json` says
which property each of them breaks.

### AgentLoop

One agent with any number of runs, one after the other. `context` is the loop's
own list, `transcript` what the agent folds from `MessageEnd`. `pc` walks through
`run_loop_inner`: `start` (first drain of steering), `outer`, `inner` (turn
start: pending messages are announced and injected), `stream` (the request),
`tools` (the batch, one step here; ToolScheduler opens it), `prepare` (the
`prepare_next_turn` hook and the turn cap), `turnEnd` (nudge, turn-end gate),
`followUp` (last poll), `final` (the terminal Aborted message), `ended`. The
handle's operations (`Steer`, `FollowUp`, `CancelSteer`, `ClearSteering`,
`ClearFollowUp`, `Abort`) are enabled in every state. A drain takes the head or
everything, since the mode is a setter away at any time. `MiddlewareFails` is an
event sink that returns an error: the run ends where it stands, as the `?`
operators have it. Abstracted: text, deltas, usage, models, which only travel
along; a stream is its final message.

### ToolScheduler and ToolBatch

One batch of `N` calls. A call's `ToolCallMeta` (read-only, exclusive, paths) is
any combination, so all batches are initial states. `PickLayer`, `JoinLayer`,
`AbortRest`, `AllDone` and `FailBatch` are the scheduler; `Refuse`, `AbortEarly`,
`Execute`, `Finish`, `AbortExecution` and `SinkFails` are `execute_one` of a call
of the current layer, concurrent with the other calls of the layer. `Minus` is
the saturating subtraction. `Denotes` gives the files behind a path string: the
code compares strings, and the property is about files.

`ToolBatch` is what the loop is promised, without layers, counts and futures: a
partial order of calls, each started when all its predecessors are answered and
answered once, by an abort only after a cancel; the batch is over when every call
is answered, or when an answer got lost and nothing runs. `SchedulerIsBatch` is
the refinement: `Order` is `should_depend` on earlier calls, `CallView` a call's
result or the progress of its future. `Execute` and `JoinLayer` are stutters.

### HarnessSettle

One `AgentHarness` with its `HarnessHandle`. A message is the number of the
session entry it was written as; `session` is the durable record,
`ProjectedMessages` what `build_session_context` rebuilds from it. `pc` walks
through `prompt_input`/`continue_`, the run's turn boundaries, and
`settle_after_run`: auto-retry with backoff, overflow compact-and-retry, threshold
compaction, delivery of queued input, and then the merge of entry ids, the
adoption of flushed messages and the flush of what is still queued. A run is
here what reaches the session and the boundaries at which the mutation queue is
flushed; the results of a tool round are written with the reply that asked for
them, as one entry, and a round may end the run (`terminate`). A continuation is
refused only behind an assistant's reply (`Continues`): behind tool results, the
ones a dropped failed turn leaves at the end included, it is a further request.
The end of the live transcript is not known where a reply was announced but not
written ("lost"); a continuation there may be granted or refused. A run that fails
reverts the transcript, and the revert may fail too (`RevertFails`). `Openings` are the sessions a harness is built on: restored ones too.
A request's outcome is one of seven (`Replies`): an answer, tool calls, a reply
that silently overflowed, a retryable error, an overflow error, another error,
an abort. Token counts are abstracted: a threshold, a cut point and whether a
compaction succeeds are free choices, within the code's limits on the cut.
`episode` counts, as history, the retries since the last input or good reply.

### JournalBridge

One session: its journal as a sequence of row kinds, the storage broadcast into
the engine's relay, the relay's feed into the bridges, the first subscription
(`SeedSubscribe`, `SeedSnapshot`, `SeedInstall`, and `EnsureSession`, the host's
own installation after the backend returns), and the bridge tasks: they
subscribe if they were given no feed, replay the durable rows above their resume
point, and then receive; a lag mark makes them resync, an error makes them exit.
`EnsureBridge` and `Submit`/`TakeBridge`/`RestartBridge` start others. A row is
accounted for after it was forwarded, in another step, since the watermark is
read by a restarting task. An aborted bridge on another worker goes on to its
next await that waits (`Cancelled`). A thread is found cold, without an engine,
or live, and its journal may still be deferred (in memory only).

### SessionLease

Threads of several processes acquire the write lease of one session. A lease is
an exclusive flock on the inode of the lock file, shared inside a process by a
registry of weak references. `acquire` is cut where threads can meet: the stat
before the registry lock (`join_live`), the look-up under it, open, flock with
its retries until the budget is spent, the second stat, the insert. `Drop`
releases the last reference, `Crash` a whole process; `Wipe` removes the lock
file under a live lease, after which the next open makes another inode.

### SessionJournal and AppendLog

Storage instances over one JSONL file, each with the rows it has in memory and
the file size it last saw. A row is parented on the instance's cursor
(`AppendEntry`; ids may collide, `IdsOf`), goes through the fence (`LookForFile`,
`OpenFence`, `LockFence`: open by path, flock, compare the inode with the path, at
most `Attempts` times) and `Refresh` (a reload when the size moved, with the row
moved onto the current leaf), and then takes one of the write paths, or is refused
when its parent is not among the rows (`Refuse`: after a removal, a cursor may name
a row that the new file does not have): buffer (a deferred session), rewrite and rename (first write,
v3 migration, heal of an inverted file, a removed file), or append. Faults: an
instance dies anywhere, a write stops inside its line, a user removes the file.
`AppendLog` is the promise to the rest of the system: one log that only grows at
its end, each row on the cursor its predecessor left, no acknowledged row lost.
`JournalIsAppendLog` is the refinement: `log` is what a fresh reader parses from
the file behind the path, `broken` that a user removed it or a torn line was
continued. HarnessSettle and JournalBridge take the journal as such a log.

### AhpHost

One channel. Each publication is stamped, folded and broadcast in separate steps
(`Stamp`, `Fold`, `Collect`, `Send`), by the bridges and by the readers of the
connections, whose `Dispatch` publishes a client's action and then what the
backend derives from it. `Subscribe`, `ReadState` and `ReadWatermark` serve a
snapshot. A connection may be killed at any point. The state is the sequence of
actions folded, so that losing, doubling and reordering are visible. `raced` is
history: the publications that were, between the two reads of a snapshot, stamped
and not folded.

### SubagentRuns

The live table with its permits, the dispatch calls on their way through
`start_gated` (`Reserve`, `ProviderStarts` or `StartFails`, `Register`) and
`dispatch` (`Started`, `ForegroundEnds`, `Promote`,
`AbandonWait`), and one record per
activation: its drive (`DriveSettles`, `SendsResult`, `DropsFaces`), its settle
watcher and its settlement delivery, with the net that gives up on a drive
(`NetFires`, `NetDelivers`). An id is shared by the activations of a run that is
continued; the table, the observer's marker and watchdog and the faces are keyed
by it. A drive may hang for ever or settle after its net has fired. `forgotten`
is history. In the program the tool scheduler serialises Steer calls of one turn;
two calls at once are what `SubagentRuntime` itself promises to stand.

The modules are separate: they share the concepts, not variables. `AgentLoop`
takes a tool batch as the one step that `ToolBatch` allows (every call has one
final result, or the batch fails); `HarnessSettle` takes a run as the
sequence of messages `AgentLoop` announces.

## 3 Runs

| Run | Instance | Checks | Distinct states |
|---|---|---|---|
| `agent_loop` | 2 inputs, up to 2 calls per reply, 1 reply that asks for another round, 1 bounce | `TranscriptIsContext`, `RequestsAnswerEveryCall`, `AbortIsAnnounced`, `CancelWindsDown`, `CancelledRunSettles` | 366 019 |
| `agent_loop_faults` | 3 inputs (symmetric), no calls, turn cap 2, 1 failing sink | `InputsConserved`, `InputsAtMostOnce`, `SteersInOrder` | 329 327 |
| `tool_scheduler` | all batches of 3 calls over 2 paths, both modes; an exclusive call is a writer of unknown paths | `SerialOrder`, `NeverFallsBack`, `SchedulerIsBatch`, `CancelSettlesBatch` | 286 629 |
| `harness_settle` | a new session, 1 operation, retry budget 1, 1 tool turn, 1 queued input, 1 failing session call, 1 abort, compactions that keep 1 message | `BudgetHolds`, `RestoreCovers`, `OperationReturns` | 687 539 |
| `harness_flush` | a session whose last turn was aborted, 1 operation, 2 asides, 1 next-turn message, 1 model pick, no tool turn, 1 failing session call, 1 abort, a shutdown, compactions that keep any tail | `AsidesOnceInOrder`, `RestoreCovers` | 1 112 266 |
| `journal_bridge` | up to 3 rows, windows of 1, 2 bridge tasks at a time, 1 submit, 1 ensure, every state of the thread | `NoGap`, `ForwardsOnceInOrder`, `FoldedNotForwarded`, `SingleBridge`, `CatchesUpUnlessExited` | 826 917 |
| `session_lease` | two threads of one process and one of another, lock file there or not, 1 wipe, crashes | `OneDriver`, `LeaseIsFenced`, `NoOrphanFlock`, `RefusesOnlyStrangers`, `AcquireReturns` | 67 791 |
| `session_journal` | 2 instances, 2 ids that both may use and 1 for a leaf row of the second, four kinds of session at the start, 2 attempts of the fence, 1 fault | `ViewIsPrefix`, `RemovalHeals`, `JournalIsAppendLog`, `OldFormatUntouched`, `AppendReturns` | 83 585 |
| `ahp_host` | 2 connections, one of which dispatches, 1 bridge, 3 stamps | `NothingMissed`, `NothingReducedTwice`, `EchoFirst` | 1 405 842 |
| `subagent_runs` | one settled run, 2 calls at once, 2 slots, 2 more activations on the settled id or a new one, foreground or budgeted background | `SlotsConserved`, `NoStray`, `RowsPerActivation`, `NewestHasFaces`, `NetCovers` | 311 808 |
| `agent_loop_runaway`, `session_journal_torn` | the smallest instance that shows it | one claim of the source each, violated (section 6) | |

Each module states its `TypeOK`; it is proved for all eight modules (section 5), and
no run checks it.

What the properties say:

* `TranscriptIsContext`: from a run's first step to its end, what the loop's
  context has beyond the agent's transcript is known: the host's asides, the
  prompts not yet announced - never, if the run is cancelled before its first
  turn - and, once a turn has died, the results of the calls it left unexecuted.
  That it has nothing (`TranscriptMatchesContext`) does not hold, section 6.
  `RequestsAnswerEveryCall`: a request never carries a tool call of its run without
  its result right behind it, over truncated, cut and vetoed turns. A failed turn
  ends its run, so its calls are dangling in the context of the next one only,
  before `base` and outside the statement: the provider layer pairs them when it
  converts a request (`core/provider/transform.rs`), which is not modelled. `AbortIsAnnounced`: a run whose tools were cut ends with the
  terminal Aborted message. `CancelledRunSettles`: whatever is queued meanwhile;
  `CancelWindsDown` is its safety half: after a cancel each step of the loop is a
  step towards the end, at most nine of them, and no other task adds one.
* `InputsConserved`: until some run is disturbed, an accepted input is in
  exactly one place. `InputsAtMostOnce` and `SteersInOrder` hold always.
* `SerialOrder`: a call is dispatched only when every earlier call it conflicts
  with - over files, not strings - has settled. `NeverFallsBack`: the scheduler's
  "cycle detected" branch is dead code. `SchedulerIsBatch`: the refinement of
  section 2; that a result is final (`ResultsAreFinal`) is part of it.
* `BudgetHolds`: after an input or a good reply, at most `MaxRetries` retries and
  one overflow recovery. `RestoreCovers`: each message of the live conversation
  is rebuilt from the session, and the order is the same. `AsidesOnceInOrder`: through failed
  writes, two flushers and shutdown. `OperationReturns`: liveness.
* `NoGap`: a state-bearing row below any watermark is with the clients - so a
  bridge that resumes there skips nothing. `ForwardsOnceInOrder`,
  `FoldedNotForwarded`: nothing is applied twice by one bridge or on top of the
  seed. `SingleBridge`: at most one bridge that is not being aborted.
  `CatchesUpUnlessExited`: liveness while a bridge runs.

* `OneDriver`: while the lock file is left alone, all leases are references to
  one entry of one process. `LeaseIsFenced`: a lease in hand still has its flock,
  on the inode behind the path if nobody removed the file; after a removal it may be
  a flock on an unlinked inode, which fences nobody.
  `NoOrphanFlock`: a flock has a thread that holds it or is about to.
  `RefusesOnlyStrangers`: a process is not refused because of itself, if the lock
  file existed. `AcquireReturns`: liveness.
* `JournalIsAppendLog`: the refinement of section 2. `ViewIsPrefix`: what an
  instance has in memory is a prefix of the log. `RemovalHeals`: after a removal
  the next append restores the chain. `OldFormatUntouched`: no v4 line lands in
  a v3 file, whatever version an instance remembers. `AppendReturns`: liveness, over renames and
  crashed lock holders.
* `NothingMissed`: every folded action is in a subscriber's snapshot, or comes by
  its stream above the snapshot's `from_seq` - so that the client which skips what
  the snapshot covers reduces it - or was published across the two reads of that
  snapshot. An action of the third kind may be lost to that client (section 6).
  `NothingReducedTwice`: an action in both is covered by the watermark.
  `EchoFirst`: a derived action follows its echo at every client.
* `SlotsConserved`: no slot leaks or comes back twice. `NoStray`: a running child
  is in the table, being registered or disposed. `RowsPerActivation`: no more
  settlement rows than activations; a missing row is not seen. `NewestHasFaces`: the
  exit of an old drive takes nothing from a newer one; an older one that wins the
  table and loses its faces to a later, disposed one is outside the statement. `NetCovers`: a budgeted run is reported, frees
  its slot and lands its row even if its drive hangs.

`NoStray` excepts ids whose entry a net has dropped, and `RefusesOnlyStrangers`
lock files that are just being created: the code gives no guarantee there
(section 6). `NoGap` leaves two kinds of row out (`Recoverable`), because the code gives no
such guarantee for them: rows that were in memory only when a receiver was
dropped, and row 0 of a journal that was empty when it was seeded.

### Bounds, and why they are enough

*Agent loop.* Two inputs are the least that can be reordered, and three let a
drain of one and a drain of all differ after a retraction. One more round is
enough for a turn after tools, after a nudge or after a bounce; the bound counts
replies over all runs, so several runs happen. *Tool scheduler.* Three calls
give chains, forks and joins of the dependency relation, two paths overlapping
and disjoint footprints; the proofs remove the bound for safety. `should_depend`
ignores the other fields of an exclusive call, so one such call stands for all: a
writer of unknown paths, which conflicts most. *Harness.* A
budget of one has the steps below, at and above it; one fault and one abort may
fall on every step. Tool turns are with the settle loop's run, and with them the
retries and recoveries behind tool results; the asides' run has
the boundary of a single turn and the flush after it, and the proofs of the safety
properties remove the bounds. `MaxKept` bounds what a compaction retains: one
message is what the settle loop's outcome can depend on, and the tails of any
length are in the asides' run, where what is rebuilt does depend on them. The
shutdown, which empties the queue and stops compactions, is in the asides' run
alone for the size of the liveness check. The two safety properties were also checked on `harness_settle` with any
tail and a shutdown (2 540 154 states) and passed. `NextTurn` is offered only while a prompt can
still take the message. *Bridge.* Windows of one row make every lag reachable
with two rows; three rows give a folded, a lost and a live one; two tasks are
the aborted one and its successor. Two submits and three tasks (8 to 11 million
states) were also checked for the safety properties and passed. *Lease.* Two
threads of one process are the twins, a third is the stranger; one wipe gives
two inodes; the proofs remove the bounds. *Journal.* Two instances alternate as
writer and stale reader; the ids 1 and 5 are shared and collide, 4 is a move of
the cursor, and a fault may fall on every step; sizes are in units that keep the differences of
the formats. *Host.* Three stamps are a client's action, its derived action and
one of the bridge. *Sub-agents.* Starting with one settled run, two further
activations give both races: two continuations of one id, and a recovered drive
beside a continuation; two slots are contended by two calls and an entry.

`CHECK_DEADLOCK FALSE` everywhere: an idle agent, a finished batch and a session
without traffic rest, and the bounds stop the environment.

## 4 Fairness

* `AgentLoop`: weak fairness of the loop's steps only once the run is cancelled.
  Of a provider or a tool nothing is assumed before; afterwards every await of
  the loop is raced against the token.
* `ToolScheduler`: the scheduler's task and the preparation of a call are polled;
  an execution ends only under cancellation, by being dropped.
* `HarnessSettle`: the task that owns the harness is polled, a request ends
  (streams carry their own timeouts), a backoff elapses.
* `JournalBridge`: the relay, the seeding and submitting calls, and every bridge
  that can take a step are polled. Nothing is assumed of clients or of appends.

* `SessionLease`: every step of an acquire, and strongly the end of its budget:
  the budget is wall-clock time, so it is spent however often the flock is free
  in between.
* `SessionJournal`: strong for each instance's step: the wait for the flock is
  disabled again and again by the other instance, and the kernel hands a flock
  over to its waiters.
* `SubagentRuns`: the settle watcher and the delivery task are polled, and the
  net's timer expires. Nothing is assumed of a drive.

All but the two named are weak: tokio polls a woken task eventually; no choice is
assumed fair.

## 5 Proofs

Every theorem is about the specification without fairness, `Spec`, holds for
every value of the constants, and rests on the named `ASSUME` of its module
alone: types and signs of the bounds, and what the code fixes (window sizes that
are not zero, a harness opened on a session that a harness wrote). The bounds of
the models (rows, bridges, activations, stamps, turns) are arbitrary naturals
there.

### ToolScheduler

`ToolSchedulerProofs` proves for every number of calls, every set of paths and
every aliasing:

* `TypeCorrect`: `Spec => []TypeOK`;
* `SerialOrderHolds`: `Spec => []SerialOrder`, assuming `PathsAreFaithful` - two
  path strings that denote a common file are the same string. The assumption is
  needed: the code compares strings, and with two spellings of one file the
  property fails;
* `NeverFallsBackHolds`: `Spec => []NeverFallsBack`;
* `ResultsAreFinalHolds`: `Spec => ResultsAreFinal`;
* `SchedulerImplementsBatch`: `Spec => SchedulerIsBatch`, the refinement.

None of the properties is inductive. `IndInv` is their strengthening:

* `StageInv`: between layers nothing is in flight, within one exactly the layer;
* `ResultInv`: a call has a result exactly when it settled, until the final abort;
* `DegreeInv`: `inDegree[j]` is the number of predecessors of `j` that are not
  `Finished` (settled and folded into the counts);
* `OrderInv`: a dispatched call's predecessors are all `Finished`.

`DegreeInv` is the heart: `JoinLayer` subtracts the layer's part of the
predecessors, which is disjoint from what had finished, so the saturation never
cuts and a count of zero means that nothing is left to wait for (`CountIsZero`).
`NeverFallsBack` then follows since the least open call has only finished
predecessors (`LeastCall`, from the well-foundedness of `<` on the naturals).
The sequential mode does not look at `inDegree`: there, the call chosen is the
least open one, and its predecessors are smaller.

The refinement has one lemma per kind of step: a pick of a layer is a `Start` of
its calls, whose predecessors are `Finished` and so answered (`PickIsStart`), at a
boundary where nothing runs (`PickIsQuiet`); a step of a call is an answer, a loss
or a stutter (`CallStepIsBatchStep`). It needs no assumption on paths: the order
is the one the code computes.

### SessionLease

`SessionLeaseProofs` proves for any number of processes, threads and removals of
the lock file: `TypeCorrect`, `OneDriverHolds`,
`LeaseIsFencedHolds`, `NoOrphanFlockHolds` and `RefusesOnlyStrangersHolds`. `IInv`
adds to the invariants: inodes are numbered as they are created (`Numbering`); a
thread's position determines what it holds (`Positions`); a thread between flock
and insert shares its inode with nobody (`WindowIsExclusive`); a registry entry
is held by a thread of its process (`RegistryIsLive`); and on a lock file that
was there and stays there is one inode, one identity, and a process with a lease
has it in its registry (`Untouched`). `LeaseIsFenced` is `LeaseIsLocked`, the flock
under every lease, and the numbering of inodes. Exclusion then is a chain: two leases are
on the one inode, a lease's inode is flocked by the thread's own process, and an
inode has one flock. There is one lemma per conjunct (`...Step`), with one case
per action.

### AgentLoop

`TypeCorrect`, `TranscriptIsContextHolds`, `RequestsAnswerEveryCallHolds`,
`AbortIsAnnouncedHolds`, `CancelWindsDownHolds`, `SteersInOrderHolds`,
`InputsAtMostOnceHolds` and `InputsConservedHolds`, for any inputs, calls per reply,
faults, vetoes and turn cap.

None of the statements on inputs is inductive: they count occurrences, and say
nothing of what a poll is about to move. The invariant sees the places of an
input as a line - transcript, prompts, pending messages, steering queue - with
the follow-up queue and what was handed back beside it. `InnerOrder` says that no
place holds an input twice and each holds steered ones in the order of steering;
`PlacesApart` says the same between places; `Conserved` says that until a cancel
or a sink failure every accepted input is somewhere, and that the run's hands are
empty where they are refilled or thrown away. Every operation and every poll takes
from the head of one place and adds to the tail of the one before it
(`Drained`, and one lemma per kind of move), which keeps all three.
`Replied` localises the open calls: only the reply whose tools are executing may
have unanswered ones. `CutIsCancelled` is what `AbortIsAnnounced` lacks: a cut
run never reaches the provider again.

`Mirrored` is the invariant of `TranscriptIsContext`: beside the statement itself, no
aside is in the transcript, the prompts are announced once a request is out, and a
turn has died only where the loop goes straight to its end. The statement filters a sequence; what the
filter makes of a longer one is needed for every sequence. The induction over its
length is done by hand: the filter is a recursive function, and a least length at
which two solutions differ is excluded (`WFMin`). `CancelWindsDownHolds` is the part
of the liveness property `CancelledRunSettles` that can be proved here: a measure on
`pc` that every step of a cancelled run decreases, so that at most nine follow; that
they are taken is the fairness of section 4, which TLC checks.

### HarnessSettle

`BudgetHoldsAlways`, `AsidesOnceInOrderHolds`, `RestoreCoversHolds` and
`TypeCorrect`, each with an invariant of its own. The counters `attempt` and `recovered` do not bound the requests of an
episode by themselves, since `attempt` is cleared between a retry and an overflow
recovery: `Budget` adds where the operation is and why it is there (`after`).
`Asides` numbers the asides as they are queued: the queue is in order, and what it
has still to write - all of it, except the head that a flush has written and not
yet removed (`Unwritten`) - comes after everything written. Sessions may be opened
on any `Openings`; `OpeningsAssumption` says that the
asides they hold were queued by no handle of this life of the harness, and that a
harness wrote them: the tail of a compaction refers to entries before it, and to
an entry of the conversation once.

`RestoreCovers` compares the live transcript with the projection of the session, a
recursive walk over the entries from the last boundary. `Restorable` says that both
of them are covered by the projection - the second because a failed run reverts the
transcript to it - and that what boundaries flushed and the operation adopts at its
end are asides, which may join out of order. What the walk yields for a session with
one more entry (`StoreCases`) follows from its having one solution, by a least
counterexample again (`WalkExists`, `WalkUnique`). A compaction is the hard case: the
new projection is the tail it carries, and whatever the live transcript keeps is in
that tail, in order.

### JournalBridge

`BridgesInStep`, and from it `NoGapHolds`, `ForwardsOnceInOrderHolds`,
`FoldedNotForwardedHolds`, `SingleBridgeHolds` and `TypeCorrect` (with `Within`: what
the clients were sent are rows of the journal), for any journal, window sizes and
number of bridges, submits and commands.

`Owed` is the set of state-bearing recoverable rows the clients do not have, and
`Reached(m, ...)` says that nothing below `m` is owed, that `m` is beyond the seed
and within the journal. `NoGap` is `Reached(tail + 1)` of every bridge; to keep it,
the invariant must say where every owed row will still come from:

* `RelayInStep`: the relay's receiver holds the newest rows without a hole, so the
  next row it passes on is `Frontier`, unless it has lost some and says so first;
* `FeedsInStep`: a receiver that has lost nothing is consecutive between lag marks
  and ends just before the frontier, unless a lag is still to be announced;
* `FeedCovers` (in `BridgesSound`): a row owed below the head of such a feed - or
  below the frontier, when the feed is empty - is in the rest of the bridge's
  replay;
* a replaying bridge has `Reached(next)`; one that has forwarded a row and not yet
  accounted for it has `Reached(next + 1)`; a submit that took the entry carries a
  point that is `Reached` (`ResumesSound`), which is why a bridge aborted between
  forwarding and accounting costs a duplicate and never a hole;
* `Phases` and `SlotHoldsIt`: nothing runs before the seed is installed, one
  receiver is held meanwhile, and the entry is the only bridge not on its way out.

Each step moves one bridge (`MovedKeeps`), starts one (`StartKeeps`), or moves the
frontier (`SoundAppend`, `SoundPush`). The proof showed one flaw of an earlier
version of the model: `Push` was a `CASE` whose guards overlapped for a receiver
that is not open, so that its value was not determined by the semantics of TLA+,
while TLC took the first guard. It is a nested `IF` now.

### AhpHost

`TypeCorrect`, `NothingMissedHolds`, `NothingReducedTwiceHolds` and
`EchoFirstHolds`, for any number of connections, publishers and stamps. The
invariant adds that a stamp belongs to one task and was handed out by the
sequencer (`StampsDiffer`, `Stamped`), that a snapshot holds nothing stamped after
its watermark (`SnapshotBelow`), that what is yet to reach a connection was not
queued to it before (`Unsent`), that an echo is folded before its derived action
is stamped (`EchoFolded`), and that the connections which have read the state know
the cause of every derived action being published (`CauseKnown`,
`ReceivedCauses`). For `NothingMissed`, `Delivered` says that a folded action is in
the snapshot, queued or on its way, and `SnapshotAccounts` that an action which is
folded or about to be is in the snapshot, above its watermark or among those that
`raced` it: what is folded later was stamped before the watermark was read, or gets
a stamp above it (`WatermarksBelow`). Publishers overtake each other between stamp and broadcast, so
nothing is said of the order of stamps in a stream.

### SubagentRuns

`TypeCorrect`, `SlotsConservedHolds`, `NoStrayHolds`, `RowsPerActivationHolds` and
`NewestHasFacesHolds`, for any capacity and any number of dispatch calls, ids and
activations. The invariant adds what a dispatch call knows of the activation it
started (`CallsOwn`), that the table names activations of its own ids
(`TableNames`), that a settle watcher still waiting is that of the activation the
table names (`WatchersOwn`), and that an id whose newest epoch is open has one
activation more than settlement rows (`RowsToSpare`). The counts of slots and rows
are cardinalities, handled with the library's theorems on finite sets.

### SessionJournal

`FenceExcludes`, `ViewIsPrefixHolds`, `RemovalHealsHolds`, `TypeCorrect`,
`OldFormatUntouchedHolds` and the refinement `JournalImplementsAppendLog`, for any number of instances, ids (shared ones
included), attempts, inodes and faults, and for each way in which a session may
start.

`KeptHolds` is the inductive invariant. `Fence` ties positions to flocks and holds
through removals as well. As long as nobody removes the file, `Kept` says:

* `Inodes`: there is one file, or a legacy file (v3 or inverted) and the one that
  replaced it, which starts with the legacy rows and is larger;
* `ViewAt`: a view is a chain of rows, a prefix of the file's, and no larger; at the
  file's size it is the file (`InStep`), which is what the comparison of sizes in
  `append_entry_locked` relies on; a view of a legacy file makes its instance a
  `Rewriter`;
* `RowAt`: the row on its way hangs on its instance's cursor, and an instance about
  to write has the file's size and, through the fence, the file to itself;
* `AckedInFile`: what was acknowledged is in the file.

`Chain` is what all rows have in common: each hangs on the cursor left before it,
under its own id, one deeper than its parent. What the parser makes of a file
rests on it. The depth of a line is a recursive function along the parent walk;
that it has one value (`DepthsAre`) follows from `Acyclic`, taken at the set of
lines where two solutions differ: the cycle guard of the parser is the induction
principle, and no induction over data is needed. A file of a chain then parses, is
not inverted and reads as it was written (`GrownReads`); the two legacy files read
as the same two rows (`LegacyReads`).

The refinement follows step by step (`JournalGrows`): a write extends the lines of
an intact file by one row or by nothing, a rewrite replaces nothing or a legacy
file by a file that continues it, and nothing else touches the disk.
`RemovalHeals` needs an invariant of its own (`HealInv`), since removals end `Kept`:
the only instance, as long as it did not die, knows the newest inode, whether the
path still leads to it or not, and all inodes are sound. TLC checked both
invariants with two faults (about a million states) before they were proved.

`TypeCorrect` and `OldFormatUntouchedHolds` hold through removals, where the files
of two instances may diverge and nothing is a chain any more. `TypedInv` says that
the first inode is the only one that may be of the old format and is unchanged
then; that, as long as it is the only file, every loaded view is of the old format;
and that an instance which has it open to write remembers that version. What the
parser returns is typed even where it orders an inverted file: positions ordered by
depth, then by place, have every rank once (`RanksExist`, since a finite set has no
injection into itself that misses an element), and in a v4 file the depths are the
stamped numbers, or it does not parse.

The proof showed that the model had left out three checks of the code: the bail on
an unknown parent (`Refuse`), the refusal of an unknown cursor by `get_leaf_id`
(`CursorKnown`) and the cycle guard (`Acyclic`). Without the first, a row could be
stamped with the depth of a parent that is not there.

### Only model-checked

* Liveness, out of TLAPS's reach like `ENABLED`: `CancelledRunSettles`,
  `CancelSettlesBatch`, `OperationReturns`, `CatchesUpUnlessExited`,
  `AppendReturns`, `AcquireReturns` and `NetCovers`.

Every invariant and every action property that a run checks, and both refinements,
have a theorem.

## 6 Where code and comments disagree

Two have a run that TLC must find violated; `PROJECT.json` quotes the lines.

1. `agent_loop_runaway`: the nudge after a reply cut off at the output limit is
   meant to stop after three strikes; the guard compares a counter that never
   exceeds three (`core/agent_loop.rs:336`).
2. `session_journal_torn`: a write that stops inside its line is dropped by the
   reader, as its comment says; the next append continues the torn line, and the
   session can no longer be loaded (`core/session/jsonl.rs:589`).

For these the claim is a definition of the module and has no run of its own; to
see the counterexample, put it in place of the properties of the component's cfg:

3. `HarnessSettle!IdsAligned`: a retry drops the failed reply's id from an index
   that has not received the run's ids yet (`core/harness.rs:2487`).
4. `HarnessSettle!OnlyWrittenLeaves`: a shutdown clears the mutation queue between
   a flush's write and its `remove(0)` (`core/harness.rs:3999`; HarnessFlush.cfg).
5. `HarnessSettle!RestoreIsExact`: an aside flushed before a compaction of the
   same operation survives in the live transcript only (`core/harness.rs:3290`;
   HarnessFlush.cfg).
6. `JournalBridge!LagIsResynced`: a bridge that lags on its own receiver exits
   instead of resyncing (`manox-ahp-runtime/src/ahp/backend.rs:971`).
7. `JournalBridge!ChatKeepsForwarded`: `ensure_session` installs the seed's chat
   again after the bridge has advanced it (`manox-ahp/src/host.rs:642`).
8. `SessionLease!TwinsJoin`: a thread that looks for a lock file which its twin is
   just creating retires the twin's entry (`manox-agent/src/session_lease.rs:89`).
9. `AhpHost!ClientsConverge`: two publications folded in one order may be queued
   to a client in the other (`manox-ahp/src/host.rs:439`; two publishers, two
   stamps).
10. `AgentLoop!TranscriptMatchesContext`: the results of the calls that a dead turn
    left unexecuted, and the prompts of a run cancelled before its first turn, are
    in the loop's context and in no `MessageEnd`, so not in the transcript
    (`core/agent_loop.rs:294`, `841`-`881`), which `core/agent.rs:803`-`805` says is
    "current throughout the run and matches what the loop's own context built".
11. `AhpHost!SnapshotAtWatermark`: a snapshot's state is read before its watermark, so
    an action stamped before the one and folded after the other is not in the state
    although its stamp is not above `from_seq` (`manox-ahp/src/host.rs:566`-`570`);
    `sequencer.rs:4`-`5` has it that snapshots carry the watermark they were taken at.
12. `SessionLease!JoinsAreFenced`: a lock file that is removed and made anew between
    the open and the second stat gives an entry the identity of an inode it has not
    locked (`manox-agent/src/session_lease.rs:147`); a twin joins it, a no-op lease
    that lines 21-23 say a join must detect.

Others are hazards with a note: input drained and then dropped by a cancel
(`agent_loop.rs:163`), aliases of one file (`tool.rs:543`), asides adopted twice
after a reverted run (`harness.rs:2242`), a backoff armed after a shutdown
(`harness.rs:2466`), a model change written behind the first reply of the new
model (`harness.rs:1904`), cursor 0 of an empty journal (`backend.rs:722`), a
settle watcher that removes the entry of a continued run (`runtime.rs:313`), a
report that retires the watchdog of a reopened one (`subagent.rs:905`).

## 7 What is not modelled

* In the modelled parts: the `should_stop_after_turn` hook (no caller sets it),
  the pinned entry a hook may accept, hooks that override prompts or compactions,
  tree navigation and branch summaries, thinking level and tool selection (they
  travel with the model), tools' progress updates; the child-session bridge, a
  journal that cannot be read, the translation of a row into actions, a second
  concurrent seeder, rows a deferred session loses by a restart of its bridge;
  `append_entries` (the batch of a fork) and the read paths of the journal; a cursor
  move between the two steps of an append of the same instance (`move_to` takes no
  append lock, `core/session/mod.rs:711`-`713`); the turn cap in HarnessSettle (it is
  in AgentLoop), where a tool round is one entry of the session; claims
  and identities; requests of the host to a client, reseat, dispose; guidance
  messages, team members, the watchdog's clock, a child's worktree.
* Providers, MCP, web fetch, sandbox, LSP: input and output, with protocols that
  live in external libraries. The loop's view of a provider is modelled.
* Projection, reducers, hashline edits, prompts: pure functions on large texts
  and records whose reference definition would be the code again.
* Changesets and resources: scans of the file system.
* The rest of the table in section 1 (approval and question gates, goals,
  background tasks, the engine's command loop) is planned.

## 8 Plan

1. **ClientRequests**: requests of the host to a client with timeout, late answer,
   reseat and the closing of a connection (`host.rs:300`-`423`): each returns
   once, no waiter is left behind.
2. **ApprovalGate** with questions: ask, verdict, cancel, timeout, restore; the
   journalled decision is the outcome.
3. **GoalDriver**, **BackgroundTask**, the file mutation queue, the command loop
   of the engine.

Theorems: every safety property of a run has one. The next would be about the
planned modules, and measures like `CancelWindsDown` for the liveness properties of
the other components.
