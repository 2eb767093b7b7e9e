----------------------------- MODULE WorkerTurn -----------------------------
(***************************************************************************)
(* One turn inside its worker process: executeTurn of                      *)
(* apps/worker/runtime.mjs with the docker resources it makes, the native  *)
(* protocol client of codex-live-client.mjs, cancellation and its          *)
(* checkpoints, the transfers of seam.mjs and, on the service's side,      *)
(* applyEvent and onArtifactsDeliver of apps/poc/supervisor.mjs.           *)
(*                                                                         *)
(* executeTurn is one coroutine: pc names the await it is at.  The cancel  *)
(* handler, stopWorker, the client's frames and abortHook run between its  *)
(* steps.  Events go through the seam as EventJournal describes it: the    *)
(* service holds a prefix of them, and an awaited event is one whose whole *)
(* prefix it holds.                                                        *)
(***************************************************************************)
EXTENDS Naturals, Sequences, FiniteSets

CONSTANTS
  MaxText,        \* bound on the text the model streams, in units
  Threshold,      \* units of text that are sent at once (4096 characters)
  Chunks,         \* chunks of the inputs to fetch
  MaxChanged,     \* bound on changed top-level files
  MaxManifest,    \* files per delivered manifest (64)
  MaxFaults,      \* bound on failures of docker and of the provider
  ClientStarts    \* the client gets the process its class is written for; FALSE
                  \* is `new POCClient(worker, {timeout})` with a container name

ASSUME TurnAssumption ==
  /\ MaxText \in Nat /\ Chunks \in Nat /\ MaxChanged \in Nat /\ MaxFaults \in Nat
  /\ Threshold \in Nat \ {0} /\ MaxManifest \in Nat \ {0}
  /\ ClientStarts \in BOOLEAN

Resources == {"network", "proxy", "worker"}
Outcomes  == {"completed", "failed", "cancelled"}
Awaits    == {"started", "restored", "bound", "delivered", "completed", "lost", "terminated"}
Ended     == {"exit", "dead"}

VARIABLES
  pc,         \* the await executeTurn is at
  cancelled,  \* a stop has come, or the turn's time is over
  stopper,    \* stopWorker calls that wait for docker
  up,         \* the connection to the service
  abort,      \* the step abortHook is at
  exists,     \* docker: which resources exist, and
  running,    \* whether the worker container runs
  created,    \* the *Created flags
  client,     \* the LiveClient: "none", "up", "failed", "closed"
  streaming,  \* the native turn was started and has not said turn/completed
  bomb,       \* its constructor threw and left its timer behind
  text,       \* how many units were streamed, and which are still in deltaBuf
  fetched,    \* chunks of the inputs
  failures,   \* resources whose removal failed
  changed,    \* changed files found, and those delivered
  log,        \* the events emitted
  applied,    \* how many of them the service has applied and saved
  task,       \* the service's task: its status, artifacts, terminated
  faults,
  stoppedAt   \* history: pc when the stop came

dockerVars == <<exists, running>>
controlVars == <<cancelled, stopper, up, abort, bomb, stoppedAt>>
flowVars   == <<controlVars, streaming>>
dataVars   == <<text, fetched, changed, log, applied, task>>
vars == <<pc, dockerVars, created, client, flowVars, dataVars, failures, faults>>

TurnInit ==
  /\ pc = "binding" /\ cancelled = FALSE /\ stopper = 0 /\ up = TRUE /\ abort = "off"
  /\ exists = {} /\ running = FALSE /\ created = {}
  /\ client = "none" /\ streaming = FALSE /\ bomb = FALSE
  /\ text = [streamed |-> 0, buffered |-> {}]
  /\ fetched = 0 /\ changed = [found |-> 0, delivered |-> 0]
  /\ log = <<>> /\ applied = 0
  /\ task = [status |-> "running", artifacts |-> 0, terminated |-> FALSE]
  /\ failures = {} /\ faults = 0 /\ stoppedAt = "never"

-----------------------------------------------------------------------------
(* Events, checkpoints and the catch block.                                *)

\* emit: n is the files of a delivery or the failures of a cleanup; a delta
\* carries units of text, which are numbered as the model streams them.
Event(t, n) == [type |-> t, n |-> n, units |-> {}]
Delta(units) == [type |-> "delta", n |-> 0, units |-> units]
Emitted(s) == IF up THEN log \o s ELSE log
Emit(s) == log' = Emitted(s)

\* flushDelta, followed by the events s.
Flushed(s) ==
  /\ log' = Emitted((IF text.buffered # {} THEN <<Delta(text.buffered)>> ELSE <<>>) \o s)
  /\ text' = [text EXCEPT !.buffered = {}]

\* Bug: the catch block emits the outcome without flushDelta.
ThrowUnflushed ==
  /\ Emit(<<Event(IF cancelled THEN "cancelled" ELSE "failed", 0)>>)
  /\ pc' = "lost" /\ UNCHANGED text

\* The catch block: what is buffered, then the outcome.
Throw ==
  /\ Flushed(<<Event(IF cancelled THEN "cancelled" ELSE "failed", 0)>>)
  /\ pc' = "lost"

\* checkpoint(), after which the turn goes on at `next` having emitted s.
Checkpoint(next, s) ==
  IF cancelled THEN Throw ELSE pc' = next /\ Emit(s) /\ UNCHANGED text

\* The event the turn waits for is on the service's disk, with all before it: it
\* is the last one but for text that came late.
Acked == up /\ \A i \in DOMAIN log : i > applied => log[i].type = "delta"

\* The turn is at an awaited event: it goes on when that is acknowledged, and
\* throws when the connection is lost.
Await(at, next, s) ==
  /\ pc = at
  /\ \/ Acked /\ pc' = next /\ Emit(s) /\ UNCHANGED text
     \/ ~up /\ Throw
  /\ UNCHANGED <<dockerVars, created, client, flowVars, fetched, changed, applied, task,
                 failures, faults>>

AwaitStarted  == Await("started", "network", <<>>)
AwaitRestored == Await("restored", "thread", <<>>)

\* client.turn: turn/start is sent unless the client has failed.
AwaitBound ==
  /\ pc = "bound"
  /\ \/ /\ Acked /\ pc' = "turn" /\ Emit(<<Event("thinking", 0)>>) /\ UNCHANGED text
        /\ streaming' = (client = "up")
     \/ ~up /\ Throw /\ UNCHANGED streaming
  /\ UNCHANGED <<dockerVars, created, client, controlVars, fetched, changed, applied, task,
                 failures, faults>>

-----------------------------------------------------------------------------
(* Setup.                                                                  *)

\* readBinding and the comparison with expected_binding.
ReadBinding ==
  /\ pc = "binding"
  /\ \/ /\ Checkpoint("started", <<Event("started", 0)>>) /\ UNCHANGED faults
     \/ /\ faults < MaxFaults /\ faults' = faults + 1
        /\ Throw
  /\ UNCHANGED <<dockerVars, created, client, flowVars, fetched, changed, applied, task, failures>>

\* A docker command that makes resource r: done and noted, failed, or timed out
\* in the worker, which kills the docker client, while the daemon completes it.
Make(at, r, next) ==
  /\ pc = at
  /\ \/ /\ exists' = exists \cup {r} /\ created' = created \cup {r}
        /\ pc' = next /\ UNCHANGED <<log, text, faults>>
     \/ /\ faults < MaxFaults /\ faults' = faults + 1
        /\ exists' \in {exists, exists \cup {r}}
        /\ Throw /\ UNCHANGED created
  /\ UNCHANGED <<running, client, flowVars, fetched, changed, applied, task, failures>>

MakeNetwork == Make("network", "network", "proxy")
MakeProxy   == Make("proxy", "proxy", "ready")
MakeWorker  == Make("create", "worker", "start")

\* The proxy is connected and started; its log is polled, with a checkpoint each
\* time, until it is ready or thirty polls are over.
AwaitProxy ==
  /\ pc = "ready"
  /\ \/ {"network", "proxy"} \subseteq exists /\ Checkpoint("create", <<>>) /\ UNCHANGED faults
     \/ /\ IF {"network", "proxy"} \subseteq exists
           THEN faults < MaxFaults /\ faults' = faults + 1 ELSE UNCHANGED faults
        /\ Throw
  /\ UNCHANGED <<dockerVars, created, client, flowVars, fetched, changed, applied, task, failures>>

\* docker start, which may time out and take effect, and the client.  A string has no .on: the constructor throws
\* after it has armed its timer.
StartWorker ==
  /\ pc = "start"
  /\ \/ /\ "worker" \in exists /\ running' = TRUE
        /\ IF ClientStarts
           THEN client' = "up" /\ pc' = "fetch" /\ UNCHANGED <<bomb, log, text>>
           ELSE bomb' = TRUE /\ Throw /\ UNCHANGED client
        /\ UNCHANGED faults
     \/ /\ IF "worker" \in exists
           THEN faults < MaxFaults /\ faults' = faults + 1 /\ running' \in BOOLEAN
           ELSE UNCHANGED <<faults, running>>
        /\ Throw /\ UNCHANGED <<client, bomb>>
  /\ UNCHANGED <<exists, created, streaming, cancelled, stopper, up, abort, stoppedAt, fetched,
                 changed, applied, task, failures>>

-----------------------------------------------------------------------------
(* Restore, continuation, execution.                                       *)

\* sendRequest: the reply comes, or the request is rejected: it timed out, was
\* answered with an error, or the connection is lost.
SendRequest(answered, rejected) ==
  \/ up /\ answered /\ UNCHANGED faults
  \/ up /\ faults < MaxFaults /\ faults' = faults + 1 /\ rejected
  \/ ~up /\ rejected /\ UNCHANGED faults

\* onInputsFetch: the chunk at `offset`, and whether it is the last.
onInputsFetch(offset) == [next |-> offset + 1, eof |-> offset + 1 >= Chunks]

\* fetchInputs: one request per chunk until the end; the whole is checked against
\* its size and digest.
FetchChunk ==
  /\ pc = "fetch"
  /\ LET data == onInputsFetch(fetched) IN
     \/ /\ fetched < Chunks
        /\ SendRequest(/\ fetched' = data.next
                       /\ pc' = IF data.eof THEN "restore" ELSE pc
                       /\ UNCHANGED <<log, text>>,
                       Throw /\ UNCHANGED fetched)
     \/ fetched = Chunks /\ pc' = "restore" /\ UNCHANGED <<fetched, log, text, faults>>
  /\ UNCHANGED <<dockerVars, created, client, flowVars, changed, applied, task, failures>>

\* docker exec of the restore program in the worker container.
Restore ==
  /\ pc = "restore"
  /\ \/ /\ running /\ Checkpoint("restored", <<Event("restored", 0)>>) /\ UNCHANGED faults
     \/ /\ IF running THEN faults < MaxFaults /\ faults' = faults + 1 ELSE UNCHANGED faults
        /\ Throw
  /\ UNCHANGED <<dockerVars, created, client, flowVars, fetched, changed, applied, task, failures>>

\* thread/start or thread/resume.
OpenThread ==
  /\ pc = "thread"
  /\ \/ /\ client = "up" /\ Checkpoint("bound", <<Event("bound", 0)>>)
     \/ /\ client = "failed" /\ Throw
  /\ UNCHANGED <<dockerVars, created, client, flowVars, fetched, changed, applied, task, faults, failures>>

\* item/agentMessage/delta: text beyond the threshold is emitted at once.
\* POCClient.frame queues what a client that has failed or is being closed still
\* reads, for super.frame merely returns: such text comes after the catch block's
\* flushDelta, and stays in deltaBuf unless it reaches the threshold.
StreamText ==
  /\ streaming /\ pc \notin Ended /\ text.streamed < MaxText
  /\ LET unit == text.streamed + 1
         b    == text.buffered \cup {unit}
     IN
     IF Cardinality(b) >= Threshold
     THEN /\ Emit(<<Delta(b)>>)
          /\ text' = [streamed |-> unit, buffered |-> {}]
     ELSE /\ text' = [streamed |-> unit, buffered |-> b]
          /\ UNCHANGED log
  /\ UNCHANGED <<pc, dockerVars, created, client, flowVars, fetched, changed, applied, task, faults, failures>>

\* LiveClient.fail: its process ended, its time is over, the model was rerouted
\* or a limit passed.  Whatever waits is rejected.
ClientFails ==
  /\ client = "up"
  /\ IF running THEN faults < MaxFaults /\ faults' = faults + 1 ELSE UNCHANGED faults
  /\ client' = "failed"
  /\ UNCHANGED <<pc, dockerVars, created, flowVars, dataVars, failures>>

\* Bug: no checkpoint between the model's answer and the snapshot.
TurnCompletedUnchecked ==
  /\ pc = "turn" /\ client = "up"
  /\ \/ /\ Flushed(<<Event("saving", 0)>>)
        /\ pc' = "snapshot" /\ UNCHANGED faults
     \/ /\ faults < MaxFaults /\ faults' = faults + 1
        /\ Throw
  /\ streaming' = FALSE
  /\ UNCHANGED <<dockerVars, created, client, controlVars, fetched, changed, applied, task,
                 failures>>

\* turn/completed, which ends the text: the checkpoint comes before anything is
\* saved.
TurnCompleted ==
  /\ pc = "turn" /\ client = "up"
  /\ \/ /\ cancelled /\ Throw /\ UNCHANGED faults
     \/ /\ ~cancelled /\ Flushed(<<Event("saving", 0)>>)
        /\ pc' = "snapshot" /\ UNCHANGED faults
     \/ /\ ~cancelled /\ faults < MaxFaults /\ faults' = faults + 1   \* status interrupted or failed
        /\ Throw
  /\ streaming' = FALSE
  /\ UNCHANGED <<dockerVars, created, client, controlVars, fetched, changed, applied, task,
                 failures>>

\* Bug: LiveClient.fail rejects the turn only when a stop is under way.
TurnRejectedOnStop ==
  /\ pc = "turn" /\ client = "failed" /\ cancelled
  /\ Throw
  /\ UNCHANGED <<dockerVars, created, client, flowVars, fetched, changed, applied, task, faults, failures>>

TurnRejected ==
  /\ pc = "turn" /\ client = "failed"
  /\ Throw
  /\ UNCHANGED <<dockerVars, created, client, flowVars, fetched, changed, applied, task, faults, failures>>

-----------------------------------------------------------------------------
(* Snapshot, artifacts, completion.                                        *)

\* The snapshot is taken in the container and checked; n files have changed.
Snapshot ==
  /\ pc = "snapshot"
  /\ \/ /\ running
        /\ \E n \in 0..MaxChanged :
             /\ changed' = [changed EXCEPT !.found = n]
             /\ IF n = 0 THEN pc' = "completed" /\ Emit(<<Event("completed", 0)>>)
                ELSE pc' = "deliver" /\ UNCHANGED log
        /\ UNCHANGED <<text, faults>>
     \/ /\ IF running THEN faults < MaxFaults /\ faults' = faults + 1 ELSE UNCHANGED faults
        /\ Throw /\ UNCHANGED changed
  /\ UNCHANGED <<dockerVars, created, client, flowVars, fetched, applied, task, failures>>

\* onArtifactsDeliver: a manifest of n files that checks out adds them to the
\* task, which is saved before the reply.
onArtifactsDeliver(t, n) ==
  IF n \in 1..MaxManifest THEN [t EXCEPT !.artifacts = @ + n] ELSE t

\* deliverArtifacts: a manifest at a time.  A refusal throws, and so does a reply
\* that is late, when the files may have been added all the same.
DeliverArtifacts ==
  /\ pc = "deliver"
  /\ LET left  == changed.found - changed.delivered
         batch == IF left < MaxManifest THEN left ELSE MaxManifest
         kept  == onArtifactsDeliver(task, batch)
     IN SendRequest(/\ task' = kept
                    /\ changed' = [changed EXCEPT !.delivered = @ + batch]
                    /\ pc' = "delivered" /\ Emit(<<Event("delivered", batch)>>)
                    /\ UNCHANGED text,
                    /\ task' \in {task} \cup (IF up THEN {kept} ELSE {})
                    /\ Throw /\ UNCHANGED changed)
  /\ UNCHANGED <<dockerVars, created, client, flowVars, fetched, applied, failures>>

AwaitDelivered ==
  IF changed.delivered < changed.found
  THEN Await("delivered", "deliver", <<>>)
  ELSE Await("delivered", "completed", <<Event("completed", 0)>>)

AwaitCompleted == Await("completed", "close", <<>>)

-----------------------------------------------------------------------------
(* The finally block.                                                      *)

\* The outcome of the catch block is acknowledged, or given up.
AwaitLost ==
  /\ pc = "lost" /\ (Acked \/ ~up)
  /\ pc' = "close"
  /\ UNCHANGED <<dockerVars, created, client, flowVars, dataVars, failures, faults>>

\* client.close() waits until the native process has ended.
CloseClient ==
  /\ pc = "close"
  /\ client' = IF client = "none" THEN client ELSE "closed"
  /\ pc' = "rmWorker"
  /\ UNCHANGED <<dockerVars, created, flowVars, dataVars, failures, faults>>

\* docker removes resource r.
Gone(r) ==
  /\ exists' = exists \ {r}
  /\ running' = (running /\ r # "worker")

\* ... or the command fails, or times out and takes effect.
MaybeGone(r) == Gone(r) \/ UNCHANGED dockerVars

\* Bug: a removal that fails is swallowed, as docker stop's failure is.
CleanUpQuiet(at, r, next) ==
  /\ pc = at
  /\ pc' = next
  /\ \/ /\ IF r \in created THEN Gone(r) ELSE UNCHANGED dockerVars
        /\ UNCHANGED faults
     \/ /\ r \in created /\ faults < MaxFaults /\ faults' = faults + 1
        /\ MaybeGone(r)
  /\ UNCHANGED <<created, client, flowVars, dataVars, failures>>

\* What was created is removed; a failure is noted and does not stop the rest.
CleanUp(at, r, next) ==
  /\ pc = at
  /\ pc' = next
  /\ \/ /\ IF r \in created THEN Gone(r) ELSE UNCHANGED dockerVars
        /\ UNCHANGED <<failures, faults>>
     \/ /\ r \in created /\ faults < MaxFaults /\ faults' = faults + 1
        /\ failures' = failures \cup {r}
        /\ MaybeGone(r)
  /\ UNCHANGED <<created, client, flowVars, dataVars>>

RemoveWorker  == CleanUp("rmWorker", "worker", "rmProxy")
RemoveProxy   == CleanUp("rmProxy", "proxy", "rmNetwork")
RemoveNetwork == CleanUp("rmNetwork", "network", "report")

\* run.terminated, with cleanup_ok when nothing failed.
ReportTerminated ==
  /\ pc = "report"
  /\ pc' = "terminated" /\ Emit(<<Event("terminated", Cardinality(failures))>>)
  /\ UNCHANGED <<dockerVars, created, client, flowVars, text, fetched, changed, applied, task,
                 failures, faults>>

\* ... acknowledged or given up; worker.mjs then exits.
AwaitTerminated ==
  /\ pc = "terminated" /\ (Acked \/ ~up)
  /\ pc' = "exit"
  /\ UNCHANGED <<dockerVars, created, client, flowVars, dataVars, failures, faults>>

-----------------------------------------------------------------------------
(* Stop, the turn's deadline and a lost connection.                        *)

\* service.turn.cancel, or the turn timer: a container that has been created is
\* stopped, while the coroutine goes on.
Stop ==
  /\ ~cancelled /\ pc \notin Ended
  /\ cancelled' = TRUE /\ stoppedAt' = pc
  /\ stopper' = IF "worker" \in created THEN stopper + 1 ELSE stopper
  /\ UNCHANGED <<pc, dockerVars, created, client, streaming, up, abort, bomb, dataVars, failures,
                 faults>>

\* docker stop; its failure is swallowed, and may have stopped the container.
StopWorker ==
  /\ stopper > 0 /\ pc \notin Ended
  /\ stopper' = stopper - 1
  /\ \/ running' = FALSE /\ UNCHANGED faults
     \/ faults < MaxFaults /\ faults' = faults + 1 /\ UNCHANGED running
  /\ UNCHANGED <<pc, exists, created, client, streaming, cancelled, up, abort, bomb, stoppedAt,
                 dataVars, failures>>

\* The seam fails: what waits is rejected, onFatal starts abortHook, and the
\* service fails a turn that has no outcome (onWorkerClose).
Disconnect ==
  /\ up /\ pc \notin Ended /\ faults < MaxFaults
  /\ faults' = faults + 1
  /\ up' = FALSE /\ abort' = "worker"
  /\ task' = IF task.status = "running" THEN [task EXCEPT !.status = "failed"] ELSE task
  /\ UNCHANGED <<pc, dockerVars, created, client, streaming, cancelled, stopper, bomb, stoppedAt,
                 text, fetched, changed, log, applied, failures>>

\* abortHook removes what the flags say by now, one after the other.
Abort ==
  /\ abort \in Resources /\ pc \notin Ended
  /\ \/ /\ IF abort \in created THEN Gone(abort) ELSE UNCHANGED dockerVars
        /\ UNCHANGED faults
     \/ /\ abort \in created /\ faults < MaxFaults /\ faults' = faults + 1
        /\ MaybeGone(abort)
  /\ abort' = CASE abort = "worker" -> "proxy" [] abort = "proxy" -> "network" [] OTHER -> "done"
  /\ UNCHANGED <<pc, created, client, streaming, cancelled, stopper, up, bomb, stoppedAt, dataVars,
                 failures>>

\* ... and the process exits, wherever executeTurn is.  Or it dies because the
\* timer left behind calls fail(), whose proc.kill throws outside of any promise.
\* The service fails a turn that has no outcome by then.
WorkerDies ==
  /\ abort = "done" \/ bomb
  /\ pc \notin Ended
  /\ pc' = "dead"
  /\ task' = IF task.status = "running" THEN [task EXCEPT !.status = "failed"] ELSE task
  /\ UNCHANGED <<dockerVars, created, client, flowVars, text, fetched, changed, log, applied,
                 faults, failures>>

-----------------------------------------------------------------------------
(* The service applies the next event (applyEvent).                        *)

Outcome(t, e) ==
  CASE e.type \in Outcomes -> [t EXCEPT !.status = e.type]
    [] e.type = "terminated" ->
         [t EXCEPT !.terminated = TRUE,
                   !.status = IF @ = "running" \/ e.n > 0 THEN "failed" ELSE @]
    [] OTHER -> t

ApplyEvent ==
  /\ up /\ pc \notin Ended /\ applied < Len(log)
  /\ applied' = applied + 1
  /\ task' = Outcome(task, log[applied + 1])
  /\ UNCHANGED <<pc, dockerVars, created, client, flowVars, text, fetched, changed, log,
                 failures, faults>>

-----------------------------------------------------------------------------
Turn ==
  \/ ReadBinding \/ AwaitStarted \/ MakeNetwork \/ MakeProxy \/ AwaitProxy
  \/ MakeWorker \/ StartWorker \/ FetchChunk \/ Restore \/ AwaitRestored
  \/ OpenThread \/ AwaitBound \/ TurnCompleted \/ TurnRejected
  \/ Snapshot \/ DeliverArtifacts \/ AwaitDelivered \/ AwaitCompleted
  \/ AwaitLost \/ CloseClient \/ RemoveWorker \/ RemoveProxy \/ RemoveNetwork
  \/ ReportTerminated \/ AwaitTerminated

Beside == StreamText \/ ClientFails \/ Stop \/ StopWorker \/ Disconnect

Next == Turn \/ Beside \/ Abort \/ WorkerDies \/ ApplyEvent

Spec == TurnInit /\ [][Next]_vars

\* docker commands end or time out, the service answers or the seam gives up, and
\* a native process that has ended is noticed.
FairSpec ==
  /\ Spec
  /\ WF_vars(Turn) /\ WF_vars(ApplyEvent) /\ WF_vars(Abort) /\ WF_vars(WorkerDies)
  /\ WF_vars(StopWorker) /\ WF_vars(ClientFails /\ ~running)

-----------------------------------------------------------------------------
(* What must hold.                                                         *)

Said(t) == \E i \in DOMAIN log : log[i].type = t

\* The types of the turn's state and the bounds of what it counts.
TurnTypeOK ==
  /\ pc \in Awaits \cup Ended \cup {"binding", "network", "proxy", "ready", "create", "start",
        "fetch", "restore", "thread", "turn", "snapshot", "deliver", "close", "rmWorker",
        "rmProxy", "rmNetwork", "report"}
  /\ exists \subseteq Resources /\ created \subseteq Resources /\ failures \subseteq created
  /\ running => "worker" \in exists
  /\ client \in {"none", "up", "failed", "closed"}
  /\ Cardinality(text.buffered) < Threshold /\ text.streamed <= MaxText
  /\ applied <= Len(log) /\ fetched <= Chunks
  /\ task.status \in Outcomes \cup {"running"}

\* A turn the service reports as completed or stopped has left in docker nothing
\* that its worker knew of: cleanup_ok is only said of what is gone, whichever
\* command failed, timed out or took effect nevertheless (docs/poc.md: Stop
\* "verifies worker shutdown").
CleanupTruthful ==
  task.terminated /\ task.status \in {"completed", "cancelled"} => exists \cap created = {}

\* Nothing at all is left.  A resource whose creation timed out in the worker is not
\* noted as created, and stays.
NothingIsLeft ==
  task.terminated /\ task.status \in {"completed", "cancelled"} => exists = {}

\* Whatever fails where, a turn has one outcome, and run.terminated, if it comes,
\* comes once, after it, with nothing but late text behind it.
OneOutcome ==
  LET outcomes == {i \in DOMAIN log : log[i].type \in Outcomes}
      ends     == {i \in DOMAIN log : log[i].type = "terminated"}
  IN /\ Cardinality(outcomes) <= 1
     /\ \A i \in ends :
          /\ \A j \in DOMAIN log : j > i => log[j].type = "delta"
          /\ \E j \in outcomes : j < i

\* The events carry the text in the order in which it was streamed.
TextInOrder ==
  \A j, k \in DOMAIN log : j < k => \A u \in log[j].units, v \in log[k].units : u < v

\* The events carry the text in order and each unit once, and a turn does not say
\* how it ended before it has sent all the text that had come by then, also when
\* it fails or is stopped (flushDelta).
NoTextLost ==
  [][/\ TextInOrder'
     /\ \A i \in DOMAIN log' \ DOMAIN log :
          log'[i].type \in Outcomes
            => \A u \in 1..text.streamed : \E j \in 1..i : u \in log'[j].units]_vars

\* "answer accumulates the full streamed text ...; the service rebuilds its own copy
\* from the run.answer_delta events" (runtime.mjs 57): when the worker leaves, still
\* connected, the events carry all that was streamed.
AnswerIsRebuilt ==
  pc = "exit" /\ up => \A u \in 1..text.streamed : \E i \in DOMAIN log : u \in log[i].units

\* A stop that comes before the model has answered is never answered by a
\* completed turn, wherever in the setup it falls.
StopPrevails ==
  stoppedAt \in {"binding", "started", "network", "proxy", "ready", "create", "start", "fetch",
                 "restore", "restored", "thread", "bound", "turn"} => ~Said("completed")

\* Nothing is made in docker before the service has run.started on disk.
StartedFirst ==
  exists # {} => \E i \in 1..applied : log[i].type = "started"

\* A completed turn has every changed file among its artifacts, each once.
CompletedHasAll == task.status = "completed" => task.artifacts = changed.found

\* The worker process ends, so that the service can reap it.
WorkerLeaves == <>(pc \in Ended)

\* "Best-effort container cleanup if the worker process itself dies mid-turn":
\* while docker does not fail, a process that died left nothing behind.
DeathIsCleaned == pc = "dead" /\ faults = 0 => exists = {}
=============================================================================
