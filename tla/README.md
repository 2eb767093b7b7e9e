# AgentMeld: who may act, what was done, and what the user sees

A TLA+ development of AgentMeld. It has three parts:

* **the server** (Rust, `src/crates/agentmeld-server`): approvals, the
  controller lease, and the supervisor that runs one agent turn at a time;
* **the proof-of-concept service and its worker** (JavaScript, `src/apps`): the
  local store and pump, the worker process that runs one turn, the socket
  between the two, and the browser client;
* **the durable journal and its hosts** (`src/crates/agentmeld-m0` and
  `src/experiments`): the control journal, the native tools, the recovery of
  uncertain outcomes and the shared browser.

Every definition is translated from the source; `PROJECT.json` names the lines.

## The system

| part | state | operations | interacts with |
|---|---|---|---|
| Approval store (server `db.rs` 4808–5540, `approvals.rs`) | `approvals` rows, tickets, service-written steps | propose, decide, revoke, expire, claim | runs (parks and resumes them), lease and grant (fences) |
| Controller lease (`db.rs` 4014–4800) | one `computer_leases` row | takeover, ack, private begin/end, resume, observed, heartbeat, auto-release, revoke | settles the undecided approvals; gates `begin_turn` |
| Turns in the store, restart recovery (`db.rs` 174, 1624–2760, 3125, 5553) | `runs` status, generation, reply | claim, stop, begin, interrupt, worker events; two recovery transactions | pump and supervisor |
| Supervisor, waiter registry, sweeper, handlers, pump (`supervisor.rs`, `approvals.rs`, `api.rs`) | the active turn, one-shot channels, requests in flight | run a turn, cancel, block on an approval, sweep, serve | store and worker socket |
| PoC store and pump (`apps/poc/server.mjs`, `conversations.mjs`, `profile.mjs`) | one state object, its JSON file, the chain of saves | admit, stop, archive, edit the profile, pump, shut down | supervisor, browser |
| PoC supervisor (`apps/poc/supervisor.mjs`) | the child process, `pendingCancel`, the turn's promise | run a turn, apply events, deliver artifacts, cancel, reap | worker over a Unix socket |
| Worker seam (`apps/worker/seam.mjs`, `framing.mjs`) | queue, timer, flight, retries | append, flush, acknowledge, retry, fail | service's event handler |
| Worker (`apps/worker/runtime.mjs`, `codex-live-client.mjs`, `worker.mjs`) | the turn's await, docker resources, native client, text buffer | run the turn, stop, clean up, abort | docker, provider, seam |
| Event track (`public/client-track.js`, `sse-parse.js`) | cursor, connection, tool steps | connect, handle, reconnect, resync, hydrate | event stream, local storage |
| Control track (`public/client-track.js`) | approvals and lease on view, polls and clicks in flight | poll, decide, revoke, lease actions, heartbeat | service, other devices |
| Composer (`public/app.js`, `composer.js`) | one box, a draft per conversation, pending message | type, attach, switch, send, retry | service's admission |
| Open conversation (`public/app.js`) | session token, state, last markup, reply bubble | pair, poll, stream, paint | service, event track |
| Durable journal (`agentmeld-m0/src/durable.rs`) | one snapshot per record, fsynced | propose, decide, admit, dispatch, settle, takeover, private, resume, reconcile | authority process |
| Authority link (`experiments/rust-browser-control.mjs`) | pending commands, one deadline each | request, answer, fail | journal process |
| Tool broker (`native-tool-broker.mjs`, `container-computer.mjs`, `owned-worker.mjs`, `result-archive.mjs`) | a pending proposal, the worker, the archive | propose, decide, execute, archive, settle, terminate | journal |
| Recovery (`recovery-assessment.mjs`, `reviewed-recovery.mjs`, `recovery-worker.mjs`) | a review plan and its evidence | prepare, commit, reconcile | journal, archive, containers |
| Shared browser (`rust-browser-control.mjs`, `viewer-server.mjs`, `viewer.js`) | a queue of operations, the viewer's lease, the page | click, take over, private bracket, resume, capture | journal, computer |
| Not modelled: see the end | | | |

What is hard in it, and what makes each part correct:

* **Approvals and lease.** Handlers read, commit, and act on what they read;
  deadline, human, worker and crash race for a row. One undecided row per run,
  final verdicts, tickets used once and only while granted, nothing undecided
  survives a change of hands, no lost stop.
* **The PoC service.** One thread, but every save is an await, the whole state is
  written each time, and a failed write poisons the store. What was
  acknowledged survives; a stop reaches its turn; a resumed provider session
  knows the current profile; every turn ends.
* **The seam.** A late acknowledgement has the batch sent again while its first
  copy may still be applied. Order and durability must survive; nothing may wait
  without somebody to send it.
* **The worker.** Docker commands, the provider, a stop and the loss of the
  connection interleave with one long coroutine. A clean report must mean a
  clean machine, no text may be lost, an early stop prevails, the process ends.
* **The browser.** Overlapping requests whose answers come in any order,
  reconnection, a session that ends under way, and several writers of one
  element. Nothing skipped, nothing reopened, nothing sent twice, no draft
  lost, and the page comes to show what the service holds.
* **The journal's hosts.** A crash at any point between dispatch, execution,
  archive and settlement: no tool runs twice, no effect is hidden, and a human
  who was told "yours" is alone with the computer.

## Modules

| module | what it is |
|---|---|
| `ApprovalContract` | the abstract promise: asked once, answered once, used once; a seizure closes everything undecided in one step |
| `ApprovalStore` | one action per SQLite transaction; any caller at any time |
| `TurnSupervisor` | the serving process: pump, turn, sweeper and handlers, each step one transaction of `ApprovalStore` or a volatile one |
| `UnheardExpiry` | `TurnSupervisor` with a history of the approvals a read expired; states beside it what blocked turns are promised |
| `EventJournal` | the abstract promise of the seam: a prefix on disk, acknowledgements that can be relied upon |
| `WorkerSeam` | the seam, message by message and microtask by microtask; implements `EventJournal` |
| `WorkerTurn` | one turn inside its worker, await by await |
| `PocService` | the PoC store, its admissions, pump, stop, shutdown and the life of a turn |
| `EventTrack` | the event stream as the page follows it |
| `ControlTrack` | approvals and lease as the page shows and moves them |
| `Composer` | drafts, attachments and sending |
| `LivePage` | the session, the state poll and the streamed reply |
| `DurableJournal` | the journal's operations as operators on its snapshot (no state of its own) |
| `AuthorityLink` | the process that owns the journal, and the pipe to it |
| `ToolBroker` | tools and recovery over `AuthorityLink` |
| `SharedBrowser` | agent, viewer and browser over `AuthorityLink` |
| `MC*` | instances: the symmetry set of the store, the events the worker awaits |
| `TurnSupervisorProofs` | theorems about the store, then about the process that serves it |
| `BrowserPageProofs` | theorems about `LivePage`, `EventTrack` and `ControlTrack` |
| the other `*Proofs` | theorems about the module they are named after |

```
ApprovalContract <-- ApprovalStore <-- TurnSupervisor <-- UnheardExpiry  (implements, implements, extends)
EventJournal     <-- WorkerSeam                            (implements)
WorkerTurn, PocService                                     (each with the others reduced to what it sees of them)
DurableJournal   --> AuthorityLink --> ToolBroker, SharedBrowser   (extended by)
EventTrack, ControlTrack, Composer, LivePage               (one page, four concerns)
```

### State and code

*Server.* `ApprovalStore`: `run`, `turn`, `reply` are `runs.status`,
`runs.generation` and the state of the response; `state`, `bound`, `consumed`,
`step`, `started` are an approval's row, what it was proposed under, its
`consumed_at`, the step `approval:{id}` and the gated step that cites it; `lease`
is the lease row, `grant` is `workspaces.grant_revision`. Time is reduced to what
the code derives from it (`due`, `lease.stale`). `epoch` is history: it counts
the transactions that close the undecided surface. `TurnSupervisor`: `pump` is
the control point of `pump_once`/`run_turn`, `active` the supervisor's mutex,
`waiter` the registry's channels, `worker` the child, `http[d]` what device `d`'s
handler has still to do, `sweep` the rows expired but not woken.

*PoC service.* `PocService`: `mem` is the state object, `disk` is `state.json`,
`saves` the promise chain with who awaits each link and the text it will write,
`storeFailed` the `failure` that poisons it; `admission` and `stop` are the
requests under way; `turn` is `active` and the point `runTurn` is at; `child` the
worker as the service sees it. An action is what runs between two awaits.
`acked`, `stopped`, `requested`, `starts` are history.

*Seam.* `WorkerSeam`: `next`, `settled`, `queue`, `timer`, `flight`, `failures`,
`fatal` are `WorkerSeam`'s fields and the promises it gave; `toService` and
`toWorker` are the socket; `chunk` and `ready` are the frames of one read and the
microtasks behind them, which run after the chunk and before any other callback;
`handlers` are the event handlers that wait for `readFile` or a save; `log` is
what was applied, in order, `disk` the last snapshot written.

*Worker.* `WorkerTurn`: `pc` names the await `executeTurn` is at; `stopper` and
`abort` are `stopWorker` and `abortHook` beside it; `exists`, `running`,
`created` are docker and the coroutine's own list; `streaming` whether the native
client may still print text, `text` how much was streamed and which units of it
wait in the buffer; `log` the events handed to the seam, of which the
service has applied a prefix (`EventJournal`).

*Page.* `EventTrack.page` is one page load's loop, cursor, steps and hydration;
`stored` is local storage, which outlives it; `page.handled` and `page.skipped`
are history. `ControlTrack`: `polls`, `reads` and `calls` are requests with what
the service had when it read; `pended` is history, what the page last remembered
of each request. `Composer`:
`box` is the one text box, `drafts` the `Map`, `sending` the submission.
`LivePage`: `rendered` is `lastRender`, `bubble` the element the deltas write
behind its back. In `Composer`, `lapsed` counts the sessions that ended on a draft's
submission.

*Journal and hosts.* `DurableJournal` has one definition per command with its
`require`s and the recovery at open. `AuthorityLink`: `mem` is the process's
snapshot, `disk` what its file ends with, `pipe` the callers in the order they
wrote. `ToolBroker` and `SharedBrowser` add the hosts' own state. `MaxLines` is
the journal's size limit, counted in lines.

A definition whose comment starts with "Bug:" is a mutant, not model: the
definition after it with a plausible mistake, used to confirm that a property
notices that mistake. `ApprovalStore!StoreTypeOK` and the `...TypeOK` of the
other modules are their type invariants.

### Abstractions

* *Store and supervisor.* A worker batch is one event per action: more
  interleavings, never fewer outcomes. Each run has a conversation of its own. A
  heartbeat refreshes a hold that is not stale, so only its guard is visible.
  One request in flight per device. A request refused without a change is left
  out unless the handler's outcome matters. Left out: the digest-mismatch branch
  of `decide_approval`, answer text, artifacts, audit rows, SQLite errors other
  than the two the schema makes certain (`runs.current_activity` and
  `runs.failure_stage` are written at `db.rs` 2521, 2637, 2656, 3401 and created by
  no migration; `lease_revoked` is not in the CHECK of `approvals.revoked_reason`).
* *PoC service.* The worker is what the service sees of it: it says hello, binds a
  session, reports, and dies. Texts are left out; a profile is its revision.
* *Seam.* An explicit `service.error` for a batch, which the handler never
  sends, is left out.
* *Worker.* Contents of workspaces, prompts and files are counted, not spelled out.
  A docker command that fails, or is killed after its 45 s, may have taken effect
  all the same. Text arrives also after the native client has failed or is being
  closed, as long as its output is read; the native server ends the text of a turn
  with `turn/completed`, which is its contract (external). `ClientStarts` says
  whether `codex-live-client.mjs` gets the process its class is written for.
  `fatal` set through `onServiceError` is left out: both services send
  `service.error` in reply to a request, where the seam takes it first, and one
  without `in_reply_to` only to a message without an id, which the worker never
  sends.
* *Event track.* The journal is external: it replays after the cursor it is
  named, at least once and in order. A step is one frame: the frames of a chunk are
  handled in one browser task, and the states in between are those of chunks of a
  frame each.
* *Control track.* Time is counted in poll periods, a period ends when its polls
  have. Acknowledgement and private brackets are requests like the others and are
  left out.
* *Composer.* Limits on the size and number of files are left out. The service
  finds a message it admitted by its key. A session may end under any submission;
  the page is then paired again with its drafts in place.
* *Journal.* Digests and scopes are taken for what they bind; limits on lengths
  and counts are left out, the observation after a hand-back too.
* *Shared browser.* A command is taken as it is written to the pipe, which keeps
  their order; only the answer may come later.

## Runs

| run | instance | shows |
|---|---|---|
| `store` | 1 run, 2 approvals, 2 devices, 3 generations, 1 revoked grant; 604 880 states | no stale proposal survives a change of hands, steps agree with verdicts, generations fence, finished runs stay finished, the contract is implemented |
| `supervisor` | `UnheardExpiry`: 1 run, 1 approval, 1 device, which also reads, fair; 170 057 | no orphan run, outcomes agree with rows, stops are heard, the process is a caller of the store; blocked turns are released and turns end, but on a row that a read expired |
| `worker_seam` | 5 events in batches of 2, 1 retry, 2 frames to a read, fair; 83 438 | order, nothing stranded, `EventJournal` is implemented, the turn settles |
| `poc_service` | 2 keys, 2 turns, 1 profile edit, 1 crash, failing writes at boot and while the worker reports, fair; 522 699 | what was acknowledged is kept, sessions are fresh, stops arrive, turns end |
| `worker_turn` | 2 faults, 3 units of text with a buffer of 2, 2 input chunks, 2 changed files, fair; 891 147 | clean reports, no outcome before the text that had come, early stops prevail, the process leaves |
| `event_track` | 3 rows, 2 tool calls, 2 faults (reloads included), fair; 393 120 | no row skipped, settled steps stay settled, the page catches up |
| `control_track` | 1 approval, 2 generations, a hold of 3 periods with a beat of 1, 1 fault, 1 click, fair; 318 838 | denials and revocations leave their step, holds do not lapse, the view settles |
| `composer` | 2 conversations, 1 text, 1 file, 2 keys, 2 faults (sessions that end included); 1 179 952 | drafts stay intact, a message is admitted once while its session lasts |
| `tool_broker` | 1 request, 16 journal lines, 3 generations, 3 faults; 781 010 | no tool runs twice, no effect is hidden, the human is alone |
| `shared_browser` | 2 clicks, 3 generations, 20 lines, fair; 920 012 | private frames stay hidden, one hand at a time, takeovers end, but after an action of uncertain outcome |
| `live_page` | 2 chunks of reply, 2 sessions, 1 switch, 1 fault, fair; 74 847 | an unpaired page is quiet, state and reply converge |
| `late_delta` | as `live_page` | fails: finding 1 |

### Findings

Five configurations end in a counterexample to what the repository says of itself;
the first is a listed run, the others are run by hand (below). The passing
property named with each says what does hold.

1. `late_delta`. `app.js` 171–173: a terminal event's refresh "reconciles any
   divergence". A delta that arrives after a refresh which already held it doubles
   its text on screen; the refresh at the end finds the markup it last *wrote*
   unchanged and skips the paint (`app.js` 247). What holds: `ReplyConverges`.
2. `ReadExpires`. `docs/design/approval-path.md` 41: "expiry returns the run to the
   agent's control path rather than hanging it". `GET /approvals`, which the page
   polls, expires a row that is due and wakes nobody (`api.rs` 701), and the sweeper
   wakes only for rows it expires itself: the turn sleeps on. What holds:
   `ReleasedUnlessRead` and `EndsUnlessRead`.
3. `LateText`. `runtime.mjs` 58–60: "the service rebuilds its own copy from the
   run.answer_delta events". Text that the native client still prints after the turn
   was given up goes to the buffer (`runtime.mjs` 86), which the catch block has
   flushed for the last time. What holds: `NoTextLost`.
4. `ExpiredRetry`. `app.js` 472: "Retry sends the same message once." A message is
   admitted, its answer lost, the session ends; the retry's 401 drops the key, and
   the next attempt is admitted as another message. What holds: `SentOnce`.
5. `StuckTakeover`. `docs/specs/architecture.md` 228: a takeover "settles the active
   command, records paused state, and then enables human input". An action that a
   working computer answers with an error leaves its ticket dispatched; a takeover
   after it stays in `pausing` until somebody cancels. What holds: `TakeoverEnds`.

### Configurations to run by hand

These belong to the project and are run as `tlc -config X.cfg M`. The first
passes and looks at the server without readers; the others each end in a
counterexample on a sentence of a doc or a comment, or on what one would expect.

| configuration | module | property | what it shows |
|---|---|---|---|
| `SupervisorLiveness` | `TurnSupervisor` | `BlockedIsReleased`, `TurnEnds`, `StopEnds`, `SettledIsWoken` | passes: where nobody reads the approvals, every blocked turn is released and every stop ends its run |
| `ReadExpires` | `TurnSupervisor` | `BlockedIsReleased` | finding 2 |
| `KillSwitch` | `TurnSupervisor` | `KillSwitchWorks` | revoking the lease while a row is undecided rolls back: the reason violates the CHECK |
| `UndispatchedTicket` | `TurnSupervisor` | `UndispatchedIsRevoked` | a takeover leaves an approved, unclaimed row approved |
| `TakeoverRace` | `TurnSupervisor` | `HumanStopsWorker` | a turn begins between a takeover's read and its commit |
| `LateStop` | `TurnSupervisor` | `StopInSetupCancels` | a stop just before `begin_turn` ends as interrupted |
| `PrecheckFailure` | `TurnSupervisor` | `ClaimIsResolved` | a failed pre-turn gate leaves the run claimed |
| `StrayStop` | `PocService` | `CancelHitsItsTurn` | `pendingCancel` survives its turn and cancels the next one ("Stop targets that turn", `docs/poc.md`) |
| `ReapWedge` | `PocService` | `TurnOver` | `reapChild` waits for ever for a child that a signal killed before: no exit code, and its exit event has gone by |
| `LostWork` | `PocService` | `LostWorkIsClosed` | a crash after `run.completed` was saved by somebody else and before its snapshot was read leaves the conversation open without its files |
| `ClientCrash` | `WorkerTurn` | `DeathIsCleaned` | as written, `new POCClient(worker, …)` is given a container's name: the turn fails at once, and the client's timer, left behind, kills the process before its cleanup has ended |
| `LateText` | `WorkerTurn` | `AnswerIsRebuilt` | finding 3 |
| `UntrackedResource` | `WorkerTurn` | `NothingIsLeft` | a container or network whose creation times out in the worker (`binding.mjs` 16 kills the client of docker only) and takes effect is not in the list of what to remove: it stays, behind a clean report |
| `DuplicatedText` | `MCWorkerSeam` | `AppliedOnce` | two copies of a batch in one read are both applied: an event is remembered only after an await |
| `LiveStateWins` | `EventTrack` | `LiveStateWins` | hydration rows can reopen a step the stream had finished, if they were read before |
| `StepSkipped` | `ControlTrack` | `NoStepSkipped` | an answer to `GET /approvals` that another one overtook takes a new request off the page; the next answer shows it settled and gives it no step ("newly terminal rows that never streamed a step get their projection", `client-track.js` 196) |
| `LeaseNotice` | `ControlTrack` | `FailureNoticeIsTrue` | a lease action that succeeded is reported as failed: the code calls `res.json` on what is already a body |
| `ExpiredRetry` | `Composer` | `RetrySendsOnce` | finding 4 |
| `StuckTakeover` | `SharedBrowser` | `TakeoverEnables` | finding 5 |
| `DraftOwned` | `Composer` | `DraftOwned` | a retry whose first answer was lost clears the draft begun meanwhile in the conversation it opened |

Seen while modelling, and not stated as a property: two tabs share one cursor in
local storage; a track's click listener outlives `stop()` and a new pairing; a
failed hydration and a failed session lookup are never tried again; a decision
carries the lease generation of the last poll; the shutdown of
`server.mjs` 140 throws when a turn is active, because its `stop()` returns no
promise (`PocService!ShutdownThrows`); a refresh with
an expired token whose refusal arrives after a new pairing stops the new track
(`app.js` 484); the server accepts after a terminal event only a batch of nothing
but `run.terminated` (`db.rs` 2393–2401), so that a late delta in the same batch has
the teardown refused; a ticket admitted but not dispatched at a crash cannot be
reconciled. A row of the server proposed during a human hold becomes undecidable
when the hold's release moves the generation, and waits for its deadline.

### Bounds

`MaxGeneration` and `MaxHands` bound changes of hands: two generations are a
takeover and its release, three add a contested one. `MaxGrant` bounds device
revocations, `MaxTurn` the times a run begins (the code begins a run once). Two
approvals are what one turn needs to ask twice, two devices a contested lease.
Larger server instances, checked while the modules were written, show nothing new:
the supervisor with
2 runs and 1 generation (382 124 states), the store with 2 runs, 2 approvals, 1
device, 2 generations and 1 grant (2 872 102 states).

Five events make three batches, so a batch can be retried with one applied before
it and one queued behind; two frames to a read are what duplicates need; one
failure is the retry, two are fatal, and both happen (`MaxSends` is derived, not
assumed: `SeamIsCorrect` proves that no message has a higher number). Two keys and two turns let a second admission
race the first turn's end, and a retry race its first attempt. `WritesFail` names
the writers whose write may fail: all of them at once square the space, so the
run takes the boot's and the worker's, which poison the store with a turn
under way. Three units of text are one full buffer and a remainder; a manifest of
one file makes two changed files two deliveries; two faults are one that loses
the turn and one in the cleanup after it. Three rows give a replay, a lost tail
and a live row; `SeenCap` 2 makes the page forget. Two faults in the composer are
a lost answer and a failed or refused retry. Sixteen journal lines are a whole tool
call with a takeover, its recovery and a restart; three faults are a failed write,
the restart after it and one more. When the journal is full the process refuses,
as in the code. The control track runs with one approval, since its polls and
calls carry whole views; two approvals without a failure pass as well (726 404
states), and the theorems hold for any number. Two chunks are needed for a delta to repeat one of two.

Deadlock is not checked: at the bounds, and when every turn has ended, nothing is
left to do; that the systems do not stop early is what the liveness properties say.
Symmetry is used in the safety run of the store only.

### Fairness

Only what runs by itself is fair. *Server*: pump and supervisor are one tokio
task, the sweeper another, a committed handler runs on; deadlines pass; a worker
does not live for ever (it enforces its own deadline). *PoC service*: timers fire,
the disk answers, a worker's turn has a deadline and the exit of a process is
reported. *Seam*: both event loops run; nothing has to fail. *Worker*: docker
commands end or time out, the service answers or the seam gives up, a native
process that has ended is noticed. *Event track*: the page's own steps are taken,
the service answers and orders a resync when it can no longer replay; the stall
timer detects a dead stream. *Control track*: requests end, periods pass, and the
page polls in each. *Broker and browser*: answers come, or the transports'
deadlines do. *Live page*: the timer fires, requests end, the stream delivers, the
browser paints. Never fair: users, other devices, providers, failures and their
absence, and the restart of a crashed service. Fairness is weak throughout.

`UnheardExpiry` states what blocked turns are promised under the same fairness; its
history `unheard` records the rows a read expired, and the only turns excepted are
those asked about such a row.

What the runs exclude, by a constant: workers killed by a signal in `poc_service`
(`SignalDeaths`, see `ReapWedge`), a client that is given a container's name in
`worker_turn` (`ClientStarts`, see `ClientCrash`), and faults of the link in
`shared_browser` (`tool_broker` has them; the computer's own failures are there).

## Proofs

Every safety invariant and every action property of the runs is a theorem, for
every value of the constants.

| module | theorem | property | assumes |
|---|---|---|---|
| `TurnSupervisorProofs` | `TypeCorrect` | `StoreTypeOK` | `StoreAssumption` |
| | `StoreInvariant` | `StoreInv` | |
| | `NoStaleProposal` | `PendingIsOfThisEpoch`, `PendingUnderCurrentGrant` | |
| | `WaitingIsExclusive` | `OnePendingPerRun`, `PendingParksRun` | |
| | `StepsTellTheTruth` | `StepMatchesVerdict`, `StartedWasClaimed` | |
| | `FenceHolds` | `GenerationFences`, `LeaseConsistent` | |
| | `VerdictsAreFinal`, `RunsStayFinished` | `VerdictIsFinal`, `FinishedStaysFinished` | |
| | `StoreImplementsContract` | `ImplementsContract` | |
| | `ServiceUsesStore` | `UsesStore` | `SupervisorAssumption` |
| | `SupTypeCorrect` | `SupTypeOK` | |
| | `NoTurnOrphaned` | `NoOrphanRun` | |
| | `NoStopDropped` | `StopIsHeard` | |
| | `VerdictIsDelivered` | `OutcomeMatchesRow` | |
| | `NobodyAskedUnheard` | `PendingHasWaiter` | |
| `WorkerSeamProofs` | `QueueIsServed` | `NothingStranded` | `SeamAssumption` |
| | `SeamIsCorrect` | `SeamInv` | |
| | `EventsApplyInOrder` | `AppliedInOrder` | |
| | `AckedEventsAreDurable` | `AckedIsDurable` | |
| | `SeamImplementsJournal` | `ImplementsJournal` | |
| `WorkerTurnProofs` | `EarlyStopPrevails` | `StopPrevails` | `TurnAssumption` |
| | `TextIsKept` | `NoTextLost` | |
| | `CleanReports` | `CleanupTruthful` | |
| `PocServiceProofs` | `ServiceInvariant` | `PocInv` | `PocAssumption` |
| | `AcknowledgedIsKept` | `AcknowledgedKept` | |
| | `SessionIsFresh` | `SessionFresh` | |
| | `StopIsKept` | `StopNotLost` | |
| | `OneTurnAtATime`, `SentOnce` | `SingleTurn`, `StartedOnce` | |
| | `StoppedForGood` | `StoppedNeverStarts` | |
| | `NoWorkArchived`, `LostIsNotResumed` | `ArchivedIsIdle`, `NoTurnAfterLoss` | |
| `ToolBrokerProofs` | `BrokerCorrect` | `BrokerInv` | `JournalAssumption`, `LinkAssumption`, `BrokerAssumption` |
| | `ExecutedOnce` | `RanOnce` | |
| | `EffectsOnFile` | `NoHiddenEffect` | |
| | `HumanHasHands` | `HumanAlone` | |
| | `OutcomeIsFinal`, `OutcomeWasProduced` | `ClosedIsDead`, `OutcomeIsProven` | |
| `SharedBrowserProofs` | `BrowserCorrect` | `BrowserInv` | `JournalAssumption`, `LinkAssumption`, `BrowserAssumption` |
| | `PrivateStaysHidden` | `PrivateIsHidden` | |
| | `OneHandAtATime` | `OneHand` | |
| | `CutOffForGood` | `CutOffStays` | |
| `ComposerProofs` | `RetriedOnce` | `SentOnce` | |
| | `DraftsKept` | `DraftIntact` | |
| `BrowserPageProofs` | `PairingScreenIsQuiet` | `UnpairedIsQuiet` | |
| | `TrackInvariant` | `TrackInv` | `TrackAssumption` |
| | `NothingSkipped`, `RowsHandledOnce` | `NoEventSkipped`, `HandledInOrder` | |
| | `SettledStepStays` | `SettledStays` | |
| | `ControlTypeCorrect` | `ControlTypeOK` | `ControlAssumption` |
| | `StepsAreProjected` | `SettledIsProjected` | |
| | `HoldIsKept` | `HoldKept` | `HeartbeatMargin` |

The assumptions named `...Assumption` only say that bounds are numbers and sets
finite. One theorem assumes more: `HeartbeatMargin` says that the heartbeat, which is due after `Beat` periods, has room for `MaxFailures` failed
requests before the service's deadline of `Lapses`: without it the statement is
false. In the code a period is 10 s, the heartbeat due after 60 s and the deadline
5 min, so 23 requests in a row may fail.

Each theorem rests on an inductive invariant, with a lemma per action or group of
actions. What the property lacks for being inductive is the argument.

*Server.*

* `StoreInv` is `StoreTypeOK` with `Surface` (a pending row's run is parked, no
  other pending row has that run, its ticket is unused, it carries the current
  epoch and grant), `Verdict` (a row, its step and its ticket) and
  `LeaseConsistent`. A second proposal is impossible because the first parked the
  run and nothing unparks it without settling the row. The action properties and
  the refinement follow action by action: a settling transaction is a `Close` or
  a `Seize` of the contract, a claim a `Use`, a revoked grant a `TakeBack`.
* `SupBase`: every step of the process is a step of the store or leaves its rows
  alone, so `StoreInv` holds; with the types and the `TurnShape`, what is active
  and whose worker lives at each point of the turn.
* `OwnedRuns`: a busy run is the pump's, or the service is down. It needs that a
  run some handler or the registry still names is the driven one or has finished,
  so that a late stop cannot set another one to cancelling, and that a turn is
  cleared only after its run has finished.
* `CancelHeard`: from the moment a turn has begun, the cancel of a cancelling run
  is on its way in a handler, armed in the registry, or told to the worker. It is
  only then that it holds: before, the stop settles in `begin_turn`.
* `TellsTruth`: whatever carries an outcome, channel, answer, sweep or ticket, the
  row says the same, or was approved and revoked after. `NobodyAskedUnheard` uses
  it: a channel is only taken by somebody whose row is settled.

*Seam.* `QueueInv` is `NothingStranded` with the types of the flight: a timer
cleared during a flush is covered by the end of that flush. `SeamInv` follows an
event through the seam: of the events emitted the first *k* are acknowledged and
the rest are in flight or queued, in order (`WorkerHolds`); a batch on the wire, or
what a handler has left of one, begins with the first event of all or follows one
that was applied (`Follows` in `WireHolds`, `HandlersHold`), so that what is applied
is a prefix at any time (`LogHolds`), even when a batch is applied twice; each save
holds more than the one before and all of the batch its handler will acknowledge
(`SavesHold`, `AcksHold`). The refinement maps the prefix lengths.

*Worker.*

* `StopInv`. `StopPrevails` alone is not inductive: that the turn does not
  complete after a stop in the setup needs that the stop is remembered
  (`StopIsKept`), that nothing was completed before the answer
  (`NotYetCompleted`), and that a stopped turn is still in its setup or already
  on the way out (`StoppedTurnsBack`). The checkpoint after the answer sends it
  back.
* `TextHolds`. While the connection is up, each unit streamed is in an event or
  in the buffer (`Whole`), in order (`Ordered`), also after an outcome, since text
  may come late; from the snapshot on nothing is streamed and the buffer is
  empty. An outcome is said where the buffer is empty or has just been
  flushed (`Decides`); that a turn which fails says it after its text is the order
  of the two calls in the catch block.
* `CleanInv`. What exists of what the worker knows of and it has tried to remove is
  on the list of failures (`Noted`), a resource leaves that list only when it is
  gone, and `run.terminated` says `ok` only of an empty one (`ReportIsTrue`,
  `TaskIsTrue`). No failure of docker is excluded; a resource whose creation timed
  out is not among what the worker knows of (`UntrackedResource`).

*PoC service.* `PocInv` orders all states of the store there are at a time: what
the file holds, the texts in the chain of saves and what is in memory, each reached
from the one before by steps that keep keys, settled turns and withdrawn ones
(`ChainHolds`). A flow that waits for its save finds its own change in that text
(`WaitsHold`), so that what it answers afterwards is on file (`AnswersHold`) also
when a later write fails. `TurnHolds` says that the active turn alone is under way
and on file before its worker is looked for, `RunHolds` that a session resumed is
of the store's revision and that a stop asked for is armed or sent.

*Journal's hosts.*

* `BrokerInv`. A snapshot is `Sound`: a pending ticket has its own line and no
  outcome, and nothing is pending while a human acts. The file is equal to the
  process's snapshot or, once a write has failed, at most ahead of it
  (`JournalHolds`). An answer under way belongs to the broker's stage (`CallsMatch`,
  `TicketsHold`); a request is at one place of proposal, approval, decision, worker
  and past (`OneChance`); nothing reaches the worker before its line says
  "dispatched" (`EffectsShown`); what is settled ran and is archived, what is closed
  was reviewed when no worker was left (`EvidenceHolds`, `ReviewHolds`).
* `BrowserInv`. Only the first operation of the queue runs (`QueueHolds`); input
  under way is pending in the journal, which nothing but its own settlement clears
  (`HandsHold`); a picture of the private screen carries an older generation than
  the journal's, since each change of privacy raises it, and is dropped on its way
  out (`Discreet`, `PicturesHold`); a refresh that started before a command is
  stale (`PageHolds`).

*Page.*

* `OnceInv`. A message admitted in the draft's present turn, since a session last
  ended on it, bears the key the draft still waits with, and what was refused was
  not admitted since then (`CurrentIsPending`); keys are made before they are sent (`KeysAreMade`). A
  retry therefore finds what the first attempt left.
* `IntactInv`. While files are read no submission goes on, and the box shows the
  files of the draft they are read for if it shows that draft (`UploadIsShown`).
* `QuietInv` is `UnpairedIsQuiet` with the sessions' type: a boot gives the page a
  session before it starts anything.
* `TrackInv`. Every row up to the stored cursor, and up to where a live stream
  stands, is accounted for; a connection names the cursor, and from then on the
  cursor follows the stream (`CursorHolds`). The page forgets old sequence numbers,
  which is harmless because the last row it handled is the last it remembers, and
  nothing remembered lies beyond the cursor (`SeenHolds`).
* `ShownIsViewed`: a request remembered as shown is on the page, so that the answer
  that settles it finds it pending or has projected it.
* `HoldInv`. The age of a hold is what the failed requests explain
  (`AgeExplained`). For that the page must not mistake an old answer for the hold's
  age: a period ends only when nothing is under way, so that every answer of a
  period shows the age the hold has (`AgeShown`); and a page that does not know its
  device yet holds nothing older (`NewIsYoung`).

Only model-checked: all liveness (fairness and `ENABLED` are out of the proof
system's reach), and what the runs check of it: `ReleasedUnlessRead`, `EndsUnlessRead`,
`TurnSettles`, `TurnOver`, `WorkerLeaves`, `CaughtUp`, `ViewSettles`,
`TakeoverEnds`, `StateConverges`, `ReplyConverges`. No theorem needs induction over
data: the text of a turn is a set of numbered units, not a sum over its events.

Stated in the modules, checked while they were written, and not part of a listed
run because a listed property says more or enough: the type invariants; with a
theorem, `SingleTurn`, `StartedOnce`, `StoppedNeverStarts`, `ArchivedIsIdle`,
`NoTurnAfterLoss` (`PocService`), `AckedIsDurable` (`WorkerSeam`), `HandledInOrder`
(`EventTrack`), `ClosedIsDead`, `OutcomeIsProven` (`ToolBroker`), `CutOffStays`
(`SharedBrowser`), `PendingHasWaiter` (`TurnSupervisor`); without one, `OneOutcome`,
`StartedFirst`, `CompletedHasAll` (`WorkerTurn`), `NoCallMissing` (`EventTrack`),
`RetrySendsDraft` (`Composer`), `TurnEnds` (`TurnSupervisor`, true where nobody reads
the approvals), `DecisionEnds` (`ToolBroker`), `ExpiredTrackStops`
(`LivePage`).

## Not modelled

* Previews, library and settings of the browser client: latest-request-wins
  fetches whose only state is what is on screen.
* `experiments/browser-control.mjs` (the in-memory predecessor of
  `rust-browser-control.mjs`, without a journal), probes, benches and scripts.
* The server's ports of admission, event stream, pairing and profile revisions.
  Their rules are modelled where the JavaScript has them: admission and profile in
  `PocService`, the stream as `EventTrack`'s journal, sessions in `LivePage`.
* The server's seam codec and proposal validation: pure conversions with tests
  of their own. Import, backup, the M0 sandbox, channel and artifact files: I/O,
  seen as steps that fail in `ToolBroker`.

What remains of the plan: proofs of what is stated but in no run (`OneOutcome`,
`CompletedHasAll`, `NoCallMissing`); that `AuthorityLink` keeps a sound snapshot,
proved once for both of its hosts; the server's bounded event queue; handlers of
the server that are dropped at an await when their client leaves.
