----------------------------- MODULE PocService -----------------------------
(***************************************************************************)
(* The local service of the proof of concept: admissions, the queue and    *)
(* its pump, stop, shutdown and the JSON store of apps/poc/server.mjs,     *)
(* conversations.mjs and profile.mjs, with the life of a turn in           *)
(* apps/poc/supervisor.mjs from runTurn to the reaping of its worker.      *)
(*                                                                         *)
(* The service is one JavaScript thread: an action here is what runs       *)
(* between two awaits.  The worker is reduced to what the service can see  *)
(* of it (WorkerTurn models its inside, WorkerSeam the socket).            *)
(***************************************************************************)
EXTENDS Naturals, Sequences, FiniteSets

CONSTANTS
  Keys,          \* request keys the browser makes up
  Convs,         \* conversations
  MaxTasks,      \* the store holds this many turns (30 in admit)
  MaxRevision,   \* bound on edits of the agent profile
  MaxCrashes,    \* bound on crashes of the service
  SignalDeaths,  \* the worker may be killed by a signal (out of memory, kill)
  WritesFail     \* those whose write of the store may fail (any writer, in the code)

ASSUME PocAssumption ==
  /\ MaxTasks \in Nat \ {0} /\ MaxRevision \in Nat /\ MaxCrashes \in Nat
  /\ SignalDeaths \in BOOLEAN
  /\ WritesFail \subseteq {"boot", "admission", "stop", "turn", "worker", "none", "shutdown"}

None     == 0
TaskIds  == 1..MaxTasks
Running  == {"running", "cancelling"}
Settled  == {"completed", "failed", "cancelled", "interrupted"}

VARIABLES
  service,      \* "down", "booting", "up", "stopping" (shutdown waits), "leaving"
  mem,          \* the state object: tasks, conversations, profile revision
  disk,         \* state.json
  saves,        \* the chain of saves: who awaits, the text, refused by `failure`
  storeFailed,  \* `failure`
  admission,    \* the request at the head of the chain of admissions
  stop,         \* the /api/stop handler
  turn,         \* `active` and its runner
  child,        \* the worker process
  pendingCancel,\* Supervisor.pendingCancel
  crashes,
  acked,        \* history: tasks acknowledged for each key
  stopped,      \* history: tasks answered {stopped: true}
  requested,    \* history: tasks whose stop was answered {requested: true}
  starts        \* history: turn.start frames per task

serverVars  == <<mem, saves, admission, stop, turn>>
historyVars == <<acked, stopped, requested, starts>>
vars == <<service, serverVars, disk, storeFailed, child, pendingCancel, crashes, historyVars>>

\* A session is None or 1 + the profile revision its provider thread began under.
NoConv   == [exists |-> FALSE, ready |-> FALSE, archived |-> FALSE,
             revision |-> 0, session |-> None]
NoTurn   == [at |-> "idle", task |-> None, resumed |-> None,
             done |-> FALSE, terminal |-> FALSE]
NoChild  == [state |-> "none", exitSeen |-> FALSE, cancel |-> FALSE, says |-> "nothing"]
NoWait   == [at |-> "idle", task |-> None]

PocInit ==
  /\ service = "down"
  /\ mem = [tasks |-> <<>>, conv |-> [c \in Convs |-> NoConv], revision |-> 0]
  /\ disk = mem
  /\ saves = <<>> /\ storeFailed = FALSE
  /\ admission = NoWait /\ stop = NoWait /\ turn = NoTurn
  /\ child = NoChild /\ pendingCancel = FALSE /\ crashes = 0
  /\ acked = [k \in Keys |-> {}] /\ stopped = {} /\ requested = {}
  /\ starts = [t \in TaskIds |-> 0]

-----------------------------------------------------------------------------
(* The store.                                                              *)

\* save(): the text is taken now and written after the saves before it; once a
\* write has failed every further save is refused.
Save(q, by, m) == Append(q, [by |-> by, text |-> m, refused |-> storeFailed'])

\* The save that `by` awaits is answered: written whole and renamed, or failed.
\* A refused one is answered without waiting for the chain.
Due(by) == {i \in DOMAIN saves : saves[i].by = by /\ (i = 1 \/ saves[i].refused)}
Answering(by) == CHOOSE i \in Due(by) : \A j \in Due(by) : i <= j
Answered(by, ok) ==
  LET s == saves[Answering(by)]
  IN /\ Due(by) # {}
     /\ IF ok THEN ~s.refused ELSE by \in WritesFail \/ s.refused
     /\ disk' = IF ok THEN s.text ELSE disk
     /\ storeFailed' = (storeFailed \/ ~ok)
\* The chain without the save that is answered.
Without(q, i) == SubSeq(q, 1, i - 1) \o SubSeq(q, i + 1, Len(q))
Rest(by) == Without(saves, Answering(by))

SetStatus(m, t, s) == [m EXCEPT !.tasks[t].status = s]
ConvOf(m, t) == m.tasks[t].conv
\* The status of a turn that is lost, and a conversation that cannot go on.
Lose(m, t, s) == [SetStatus(m, t, s) EXCEPT !.conv[ConvOf(m, t)].ready = FALSE]

\* openStore: turns found running are interrupted, never resumed.
Recover(m) ==
  LET lost == {t \in DOMAIN m.tasks : m.tasks[t].status \in Running} IN
  [m EXCEPT
     !.tasks = [t \in DOMAIN m.tasks |->
        IF t \in lost THEN [m.tasks[t] EXCEPT !.status = "interrupted"] ELSE m.tasks[t]],
     !.conv = [c \in Convs |->
        IF \E t \in lost : m.tasks[t].conv = c
        THEN [m.conv[c] EXCEPT !.ready = FALSE] ELSE m.conv[c]]]

Queued(m) == {t \in DOMAIN m.tasks : m.tasks[t].status = "queued"}
Working(m, c) == \E t \in DOMAIN m.tasks :
                   m.tasks[t].conv = c /\ m.tasks[t].status \in Running \cup {"queued"}

\* pump(), called with `m` in memory and `q` as chain while no turn is active.
\* A session made under another profile revision is dropped before the turn.
Pump(m, q) ==
  IF service' \notin {"up", "booting"} \/ storeFailed' \/ Queued(m) = {}
  THEN mem' = m /\ saves' = q /\ turn' = NoTurn
  ELSE LET t == CHOOSE x \in Queued(m) : \A y \in Queued(m) : x <= y
           c == ConvOf(m, t)
           fresh == m.conv[c].revision = m.revision
           m1 == IF ~m.conv[c].ready THEN SetStatus(m, t, "failed")
                 ELSE [SetStatus(m, t, "running") EXCEPT
                         !.conv[c].revision = m.revision,
                         !.conv[c].session = IF fresh THEN @ ELSE None]
       IN /\ mem' = m1
          /\ saves' = Save(q, "turn", m1)
          /\ turn' = [NoTurn EXCEPT !.at = IF m.conv[c].ready THEN "start" ELSE "end",
                                    !.task = t]

-----------------------------------------------------------------------------
(* The service process.                                                    *)

Boot ==
  /\ service = "down"
  /\ service' = "booting" /\ storeFailed' = FALSE
  /\ mem' = Recover(disk)
  /\ saves' = Save(<<>>, "boot", mem')
  /\ UNCHANGED <<disk, admission, stop, turn, child, pendingCancel, crashes, historyVars>>

\* All memory is gone; the worker sees its socket close and ends (it is not the
\* child of the next service).
Gone(stored) ==
  /\ service' = "down"
  /\ mem' = stored /\ saves' = <<>> /\ storeFailed' = FALSE
  /\ admission' = NoWait /\ stop' = NoWait /\ turn' = NoTurn
  /\ child' = NoChild /\ pendingCancel' = FALSE

\* openStore's own save; the requests of a service that starts are refused (503).
BootSaved ==
  /\ service = "booting" /\ saves # <<>>
  /\ \/ /\ disk' = Head(saves).text
        /\ service' = "up" /\ storeFailed' = FALSE
        /\ Pump(mem, <<>>)
        /\ UNCHANGED <<admission, stop, child, pendingCancel>>
     \/ "boot" \in WritesFail /\ Gone(disk) /\ UNCHANGED disk
  /\ UNCHANGED <<crashes, historyVars>>

Crash ==
  /\ service # "down" /\ crashes < MaxCrashes
  /\ crashes' = crashes + 1
  /\ Gone(disk)
  /\ UNCHANGED <<disk, historyVars>>

\* shutdown(): closing is set at once, then the admissions under way are awaited.
Shutdown ==
  /\ service = "up" /\ crashes < MaxCrashes
  /\ crashes' = crashes + 1
  /\ service' = "stopping"
  /\ UNCHANGED <<serverVars, disk, storeFailed, child, pendingCancel, historyVars>>

\* With a turn active, running.stop() returns nothing to call .catch on: the
\* rejection is not handled and the process ends without waiting for the turn.
ShutdownThrows ==
  /\ service = "stopping" /\ admission = NoWait /\ turn.at # "idle"
  /\ Gone(disk)
  /\ UNCHANGED <<disk, crashes, historyVars>>

ShutdownSaves ==
  /\ service = "stopping" /\ admission = NoWait /\ turn.at = "idle"
  /\ service' = "leaving" /\ storeFailed' = storeFailed
  /\ saves' = Save(saves, "shutdown", mem)
  /\ UNCHANGED <<mem, admission, stop, turn, disk, child, pendingCancel,
                 crashes, historyVars>>

ShutdownEnds ==
  /\ service = "leaving"
  /\ \E i \in Due("shutdown") :
        \/ ~saves[i].refused /\ disk' = saves[i].text
        \/ ("shutdown" \in WritesFail \/ saves[i].refused) /\ UNCHANGED disk
  /\ Gone(disk')
  /\ UNCHANGED <<crashes, historyVars>>

-----------------------------------------------------------------------------
(* Requests.  Admissions run one after the other; each ends with its save.  *)

Admitting == service = "up" /\ ~storeFailed /\ admission = NoWait

Admit(at, t, m) ==
  /\ admission' = [at |-> at, task |-> t]
  /\ mem' = m
  /\ saves' = Save(saves, "admission", m)
  /\ UNCHANGED <<service, disk, storeFailed, stop, turn, child, pendingCancel, crashes,
                 historyVars>>

\* Bug: only turns that are not settled are searched for the key of a retry.
PostTaskAnew(k, c) ==
  /\ Admitting /\ UNCHANGED storeFailed
  /\ LET prior == {t \in DOMAIN mem.tasks :
                     mem.tasks[t].key = k /\ mem.tasks[t].status \notin Settled}
         opened == [NoConv EXCEPT !.exists = TRUE, !.ready = TRUE]
     IN IF prior # {}
        THEN \E t \in prior : ConvOf(mem, t) = c /\ Admit("task", t, mem)
        ELSE /\ Len(mem.tasks) < MaxTasks
             /\ mem.conv[c].exists => mem.conv[c].ready /\ ~mem.conv[c].archived
             /\ Admit("task", Len(mem.tasks) + 1,
                  [mem EXCEPT
                     !.tasks = Append(@, [key |-> k, conv |-> c, status |-> "queued", promoted |-> FALSE]),
                     !.conv[c] = IF @.exists THEN @ ELSE opened])

\* POST /api/tasks: admit().  A known key answers with its task; a new one adds
\* a turn to conversation c, which is created when it does not exist.
PostTask(k, c) ==
  /\ Admitting /\ UNCHANGED storeFailed
  /\ LET prior == {t \in DOMAIN mem.tasks : mem.tasks[t].key = k}
         opened == [NoConv EXCEPT !.exists = TRUE, !.ready = TRUE]
     IN IF prior # {}
        THEN \E t \in prior : ConvOf(mem, t) = c /\ Admit("task", t, mem)
        ELSE /\ Len(mem.tasks) < MaxTasks
             /\ mem.conv[c].exists => mem.conv[c].ready /\ ~mem.conv[c].archived
             /\ Admit("task", Len(mem.tasks) + 1,
                  [mem EXCEPT
                     !.tasks = Append(@, [key |-> k, conv |-> c, status |-> "queued", promoted |-> FALSE]),
                     !.conv[c] = IF @.exists THEN @ ELSE opened])

\* Bug: the profile may be edited while a turn is queued or under way.
EditProfileAnytime ==
  /\ Admitting /\ UNCHANGED storeFailed
  /\ mem.revision < MaxRevision
  /\ Admit("other", None, [mem EXCEPT !.revision = @ + 1])

\* POST /api/agent: refused while work is queued or active.
EditProfile ==
  /\ Admitting /\ UNCHANGED storeFailed
  /\ turn.at = "idle" /\ Queued(mem) = {}
  /\ mem.revision < MaxRevision
  /\ Admit("other", None, [mem EXCEPT !.revision = @ + 1])

\* updateConversation, of the archived flag: archiving waits for the work queued
\* or under way; title and pinned are of no consequence to the turns.
updateConversation(m, c, a) ==
  IF m.conv[c].exists /\ ~(a /\ Working(m, c))
  THEN [m EXCEPT !.conv[c].archived = a] ELSE m

\* POST /api/conversations, which also looks at the turn the runner is busy with.
SetArchived(c, a) ==
  /\ Admitting /\ UNCHANGED storeFailed
  /\ ~(a /\ turn.at # "idle" /\ ConvOf(mem, turn.task) = c)
  /\ LET m == updateConversation(mem, c, a) IN m # mem /\ Admit("other", None, m)

\* The admission is saved: it is answered, and a new task pumps the queue.
AdmissionSaved(ok) ==
  /\ Answered("admission", ok)
  /\ admission' = NoWait
  /\ IF ok /\ admission.at = "task"
     THEN acked' = [acked EXCEPT ![mem.tasks[admission.task].key] = @ \cup {admission.task}]
     ELSE UNCHANGED acked
  /\ service' = service
  /\ IF ok /\ admission.at = "task" /\ turn.at = "idle"
     THEN Pump(mem, Rest("admission"))
     ELSE saves' = Rest("admission") /\ UNCHANGED <<mem, turn>>
  /\ UNCHANGED <<stop, child, pendingCancel, crashes, stopped, requested, starts>>

\* POST /api/stop: a queued task is cancelled, the active one asked to stop.
PostStop(t) ==
  /\ service \notin {"down", "booting"} /\ stop = NoWait /\ t \in DOMAIN mem.tasks
  /\ storeFailed' = storeFailed
  /\ \/ /\ mem.tasks[t].status = "queued"
        /\ mem' = SetStatus(mem, t, "cancelled")
        /\ stop' = [at |-> "queued", task |-> t]
     \/ /\ turn.at # "idle" /\ turn.task = t /\ mem.tasks[t].status \in Running
        /\ mem' = SetStatus(mem, t, "cancelling")
        /\ stop' = [at |-> "active", task |-> t]
  /\ saves' = Save(saves, "stop", mem')
  /\ UNCHANGED <<service, disk, admission, turn, child, pendingCancel, crashes, acked,
                 stopped, requested, starts>>

\* cancelActiveTurn: sent to a worker that has its turn, armed otherwise.
CancelActiveTurn ==
  IF turn.at = "running"
  THEN child' = [child EXCEPT !.cancel = TRUE] /\ UNCHANGED pendingCancel
  ELSE pendingCancel' = TRUE /\ UNCHANGED child

\* The stop is saved; if its turn is still the active one the worker is told.
StopSaved(ok) ==
  /\ Answered("stop", ok)
  /\ saves' = Rest("stop")
  /\ stop' = NoWait
  /\ IF ok /\ stop.at = "active" /\ turn.at # "idle" /\ turn.task = stop.task
     THEN CancelActiveTurn /\ requested' = requested \cup {stop.task}
     ELSE UNCHANGED <<child, pendingCancel, requested>>
  /\ stopped' = IF ok /\ stop.at = "queued" THEN stopped \cup {stop.task} ELSE stopped
  /\ UNCHANGED <<service, mem, admission, turn, crashes, acked, starts>>

-----------------------------------------------------------------------------
(* The runner of the active turn and Supervisor.runTurn.                   *)

\* The runner's catch and finally: a turn that died unreported has failed.
Finish(m, q) ==
  LET m1 == IF m.tasks[turn.task].status \in Running
            THEN Lose(m, turn.task, "failed") ELSE m
  IN /\ mem' = m1
     /\ saves' = Save(q, "turn", m1)
     /\ turn' = [NoTurn EXCEPT !.at = "end", !.task = turn.task]

\* The turn is saved as running; runTurn reads the binding.
TurnSaved(ok) ==
  /\ turn.at = "start" /\ Answered("turn", ok)
  /\ IF ok
     THEN /\ saves' = Rest("turn")
          /\ turn' = [turn EXCEPT !.at = "binding"]
          /\ UNCHANGED mem
     ELSE Finish(mem, Rest("turn"))
  /\ UNCHANGED <<service, admission, stop, child, pendingCancel, crashes, historyVars>>

\* readBinding answers: the worker is spawned, with the session it may resume.
Spawn ==
  /\ turn.at = "binding"
  /\ child' = [NoChild EXCEPT !.state = "up"]
  /\ turn' = [turn EXCEPT !.at = "hello",
                          !.resumed = mem.conv[ConvOf(mem, turn.task)].session]
  /\ UNCHANGED <<service, mem, saves, disk, storeFailed, admission, stop, pendingCancel,
                 crashes, historyVars>>

\* ... or throws, outside the try whose finally resets the supervisor.
BindingFails ==
  /\ turn.at = "binding" /\ storeFailed' = storeFailed
  /\ Finish(mem, saves)
  /\ UNCHANGED <<service, disk, admission, stop, child, pendingCancel, crashes, historyVars>>

\* Bug: turn.start forgets the cancel that was armed before the handshake.
HelloUnarmed ==
  /\ turn.at = "hello" /\ child.state = "up"
  /\ turn' = [turn EXCEPT !.at = "running"]
  /\ child' = [child EXCEPT !.cancel = FALSE]
  /\ pendingCancel' = FALSE
  /\ starts' = [starts EXCEPT ![turn.task] = @ + 1]
  /\ UNCHANGED <<service, mem, saves, disk, storeFailed, admission, stop, crashes, acked,
                 stopped, requested>>

\* The hello is accepted and turn.start sent, with the cancel that was armed.
Hello ==
  /\ turn.at = "hello" /\ child.state = "up"
  /\ turn' = [turn EXCEPT !.at = "running"]
  /\ child' = [child EXCEPT !.cancel = pendingCancel]
  /\ pendingCancel' = FALSE
  /\ starts' = [starts EXCEPT ![turn.task] = @ + 1]
  /\ UNCHANGED <<service, mem, saves, disk, storeFailed, admission, stop, crashes, acked,
                 stopped, requested>>

\* runTurn's finally.  reapChild waits for an exit event; of a worker killed by
\* a signal whose event has come already it sees no exit code, and waits forever.
Teardown(c, d) ==
  /\ pendingCancel' = FALSE
  /\ turn' = [turn EXCEPT !.at = IF c.exitSeen /\ c.state = "killed" THEN "wedged" ELSE "reap",
                          !.done = d]
  /\ child' = c

\* The hello does not come in time: the handshake is rejected, the worker killed.
HelloTimeout ==
  /\ turn.at = "hello" /\ child.state = "up"
  /\ Teardown([child EXCEPT !.state = "killed"], FALSE)
  /\ UNCHANGED <<service, mem, saves, disk, storeFailed, admission, stop, crashes, historyVars>>

-----------------------------------------------------------------------------
(* What the worker reports, applied and saved by onEventsAppend.           *)

Reporting == turn.at = "running" /\ ~turn.done /\ child.state = "up"

\* An event of the worker is applied (m) and its save requested.
Report(says, m) ==
  /\ child' = [child EXCEPT !.says = says]
  /\ storeFailed' = storeFailed
  /\ mem' = m /\ saves' = Save(saves, "worker", m)
  /\ UNCHANGED <<service, disk, admission, stop, pendingCancel, crashes, historyVars>>

\* provider_session.bound: a first session is made under the current profile.
BindSession ==
  /\ Reporting /\ child.says = "nothing" /\ UNCHANGED turn
  /\ Report("binding", [mem EXCEPT !.conv[ConvOf(mem, turn.task)].session =
                          IF @ = None THEN mem.revision + 1 ELSE @])

\* run.failed and run.cancelled; the latter only of a worker told to cancel.
ReportLost(s) ==
  /\ Reporting /\ child.says \in {"nothing", "bound"}
  /\ s = "failed" \/ (s = "cancelled" /\ child.cancel)
  /\ turn' = [turn EXCEPT !.terminal = TRUE]
  /\ Report("outcome", Lose(mem, turn.task, s))

\* run.completed sets the status and then awaits the workspace snapshot.
ReportCompleted ==
  /\ Reporting /\ child.says = "bound"
  /\ child' = [child EXCEPT !.says = "promoting"]
  /\ mem' = SetStatus(mem, turn.task, "completed")
  /\ UNCHANGED <<service, saves, turn, disk, storeFailed, admission, stop, pendingCancel,
                 crashes, historyVars>>

PromoteWorkspace ==
  /\ Reporting /\ child.says = "promoting"
  /\ turn' = [turn EXCEPT !.terminal = TRUE]
  /\ Report("outcome", [mem EXCEPT !.tasks[turn.task].promoted = TRUE])

\* failTurn: without a terminal event the turn has failed and its conversation
\* ends; its save is not awaited.  The rejection reaches runTurn's finally.
FailTurn(c, q) ==
  /\ IF turn.terminal
     THEN UNCHANGED mem /\ saves' = q
     ELSE mem' = Lose(mem, turn.task, "failed") /\ saves' = Save(q, "none", mem')
  /\ Teardown(c, TRUE)

PromoteFails ==
  /\ Reporting /\ child.says = "promoting" /\ storeFailed' = storeFailed
  /\ FailTurn(child, saves)
  /\ UNCHANGED <<service, disk, admission, stop, crashes, historyVars>>

\* run.terminated: a turn without an outcome, or with cleanup undone, is lost.
ReportTerminated(cleanupOk) ==
  /\ Reporting /\ child.says \in {"nothing", "bound", "reported"}
  /\ turn' = [turn EXCEPT !.done = TRUE]
  /\ Report("terminated", IF turn.terminal /\ cleanupOk THEN mem
                          ELSE Lose(mem, turn.task, "failed"))

\* The save of a report is answered: the worker is acknowledged and the turn
\* that terminated settles; a failed save fails the turn, if it is not done.
ReportSaved(ok) ==
  /\ Answered("worker", ok)
  /\ IF turn.at # "running" \/ (turn.done /\ ~ok)
     THEN saves' = Rest("worker") /\ UNCHANGED <<mem, turn, child, pendingCancel>>
     ELSE IF turn.done
     THEN saves' = Rest("worker") /\ Teardown(child, TRUE) /\ UNCHANGED mem
     ELSE IF ok
     THEN /\ saves' = Rest("worker")
          /\ child' = [child EXCEPT !.says = IF @ = "binding" THEN "bound" ELSE "reported"]
          /\ UNCHANGED <<mem, turn, pendingCancel>>
     ELSE FailTurn(child, Rest("worker"))
  /\ UNCHANGED <<service, admission, stop, crashes, historyVars>>

\* The save that failTurn does not await.
UnawaitedSaved(ok) ==
  /\ Answered("none", ok)
  /\ saves' = Rest("none")
  /\ UNCHANGED <<service, mem, admission, stop, turn, child, pendingCancel, crashes,
                 historyVars>>

-----------------------------------------------------------------------------
(* The end of the worker process and of the turn.                          *)

\* The process ends by itself, or by a signal nobody in the service sent.
WorkerEnds ==
  /\ child.state = "up" /\ turn.at # "idle"
  /\ \E s \in {"exited"} \cup (IF SignalDeaths THEN {"killed"} ELSE {}) :
       child' = [child EXCEPT !.state = s]
  /\ UNCHANGED <<service, mem, saves, turn, disk, storeFailed, admission, stop,
                 pendingCancel, crashes, historyVars>>

\* Bug: the exit of a worker that has not said hello rejects nothing.
ExitEventLate ==
  /\ child.state \in {"exited", "killed"} /\ ~child.exitSeen
  /\ storeFailed' = storeFailed
  /\ LET c == [child EXCEPT !.exitSeen = TRUE] IN
     \/ turn.at = "running" /\ ~turn.done /\ FailTurn(c, saves)
     \/ /\ turn.at \in {"hello", "reap", "end", "idle"} \/ (turn.at = "running" /\ turn.done)
        /\ child' = c /\ UNCHANGED <<mem, saves, turn, pendingCancel>>
  /\ UNCHANGED <<service, disk, admission, stop, crashes, historyVars>>

\* The exit event: it rejects a handshake under way, or the turn through
\* onWorkerClose, and wakes reapChild where that listens already.
ExitEvent ==
  /\ child.state \in {"exited", "killed"} /\ ~child.exitSeen
  /\ storeFailed' = storeFailed
  /\ LET c == [child EXCEPT !.exitSeen = TRUE] IN
     \/ turn.at = "hello" /\ Teardown(c, FALSE) /\ UNCHANGED <<mem, saves>>
     \/ turn.at = "running" /\ ~turn.done /\ FailTurn(c, saves)
     \/ /\ turn.at \in {"reap", "end", "idle"} \/ (turn.at = "running" /\ turn.done)
        /\ child' = c /\ UNCHANGED <<mem, saves, turn, pendingCancel>>
  /\ UNCHANGED <<service, disk, admission, stop, crashes, historyVars>>

\* ... which the close of the worker's socket may precede.
SocketCloses ==
  /\ turn.at = "running" /\ ~turn.done /\ child.state \in {"exited", "killed"}
  /\ storeFailed' = storeFailed
  /\ FailTurn(child, saves)
  /\ UNCHANGED <<service, disk, admission, stop, crashes, historyVars>>

\* reapChild's grace is over: the worker is killed.
KillInReap ==
  /\ turn.at = "reap" /\ child.state = "up"
  /\ child' = [child EXCEPT !.state = "killed"]
  /\ UNCHANGED <<service, mem, saves, turn, disk, storeFailed, admission, stop,
                 pendingCancel, crashes, historyVars>>

\* The worker is gone; runTurn returns or throws to the runner.
Reaped ==
  /\ turn.at = "reap" /\ child.exitSeen /\ storeFailed' = storeFailed
  /\ Finish(mem, saves)
  /\ child' = NoChild
  /\ UNCHANGED <<service, disk, admission, stop, pendingCancel, crashes, historyVars>>

\* The runner's last save is answered, either way: the next turn is pumped.
TurnEnds(ok) ==
  /\ turn.at = "end" /\ Answered("turn", ok)
  /\ service' = service
  /\ Pump(mem, Rest("turn"))
  /\ UNCHANGED <<admission, stop, child, pendingCancel, crashes, historyVars>>

-----------------------------------------------------------------------------
Requests ==
  \/ \E k \in Keys, c \in Convs : PostTask(k, c)
  \/ EditProfile
  \/ \E c \in Convs, a \in BOOLEAN : SetArchived(c, a)
  \/ \E t \in TaskIds : PostStop(t)

\* The saves and what waits for them.
Storage == \E ok \in BOOLEAN :
  \/ AdmissionSaved(ok) \/ StopSaved(ok) \/ TurnSaved(ok)
  \/ ReportSaved(ok) \/ UnawaitedSaved(ok) \/ TurnEnds(ok)

Runner == Spawn \/ BindingFails \/ Hello \/ HelloTimeout \/ KillInReap \/ Reaped

Worker ==
  \/ BindSession \/ ReportCompleted \/ PromoteWorkspace \/ PromoteFails
  \/ \E s \in {"failed", "cancelled"} : ReportLost(s)
  \/ \E ok \in BOOLEAN : ReportTerminated(ok)

Deaths == WorkerEnds \/ ExitEvent \/ SocketCloses

Next ==
  \/ Boot \/ BootSaved \/ Crash
  \/ Shutdown \/ ShutdownThrows \/ ShutdownSaves \/ ShutdownEnds
  \/ Requests \/ Storage \/ Runner \/ Worker \/ Deaths

Spec == PocInit /\ [][Next]_vars

\* Timers fire, the disk answers, a worker's turn has a deadline, and the exit
\* of a process is reported; nobody needs to post or to stop anything.
FairSpec ==
  /\ Spec
  /\ WF_vars(Boot) /\ WF_vars(BootSaved)
  /\ WF_vars(ShutdownThrows \/ ShutdownSaves \/ ShutdownEnds)
  /\ WF_vars(Storage) /\ WF_vars(Runner)
  /\ WF_vars(Worker) /\ WF_vars(ExitEvent)

-----------------------------------------------------------------------------
(* What must hold.                                                         *)

Stored == [tasks : Seq([key : Keys, conv : Convs, promoted : BOOLEAN,
                        status : Settled \cup Running \cup {"queued"}]),
           conv : [Convs -> [exists : BOOLEAN, ready : BOOLEAN, archived : BOOLEAN,
                             revision : 0..MaxRevision, session : 0..MaxRevision + 1]],
           revision : 0..MaxRevision]

\* The types of the service's state, with the store's bound on turns; at most
\* one save is awaited by each of the flows that await one.
PocTypeOK ==
  /\ service \in {"down", "booting", "up", "stopping", "leaving"}
  /\ mem \in Stored /\ Len(mem.tasks) <= MaxTasks
  /\ disk \in Stored
  /\ \A by \in {"turn", "worker", "admission", "stop", "boot", "shutdown"} :
        Cardinality({i \in DOMAIN saves : saves[i].by = by}) <= 1
  /\ turn.task \in 0..Len(mem.tasks) /\ turn.resumed \in 0..MaxRevision + 1
  /\ turn.at \in {"idle", "start", "binding", "hello", "running", "reap", "wedged", "end"}
  /\ child.state \in {"none", "up", "exited", "killed"}

\* Only the active turn is running: whatever else stops, starts, fails or is
\* recovered, no second turn is found under way (apps/poc/server.mjs pump).
SingleTurn ==
  service # "down" => \A t \in DOMAIN mem.tasks : mem.tasks[t].status \in Running => turn.task = t

\* A request answered 202 survives every crash as one turn under its key; the
\* browser's retry with the same key adds none (conversations.mjs admit, save).
AcknowledgedKept ==
  \A k \in Keys :
    /\ Cardinality(acked[k]) <= 1
    /\ \A t \in acked[k] : t \in DOMAIN disk.tasks /\ disk.tasks[t].key = k

\* A turn is sent to a worker once at most, over restarts too (openStore).
StartedOnce == \A t \in TaskIds : starts[t] <= 1

\* A turn whose stop was answered {stopped: true} never runs, not even when the
\* service restarts from its store.
StoppedNeverStarts ==
  \A t \in stopped : starts[t] = 0 /\ disk.tasks[t].status = "cancelled"

\* The provider thread a turn resumes was begun under the profile the turn is
\* given: edited or deleted preferences do not survive in a resumed context.
SessionFresh == turn.resumed # None => turn.resumed = mem.revision + 1

\* Archiving never hides work that is queued or under way.
ArchivedIsIdle == \A c \in Convs : mem.conv[c].archived => ~Working(mem, c)

\* A stop that was answered {requested: true} reaches the worker of its turn,
\* however the stop and the handshake interleave.
StopNotLost ==
  turn.at \in {"binding", "hello", "running"} /\ turn.task \in requested
    => pendingCancel \/ child.cancel

\* No turn is sent to a worker for a conversation that lost a turn before.
NoTurnAfterLoss ==
  [][\A t \in TaskIds : starts'[t] > starts[t] => mem.conv[ConvOf(mem, t)].ready]_vars

\* A settled turn is never reopened; only cleanup that failed, or a completed
\* turn whose snapshot cannot be read, turns completed into failed.
SettledStays ==
  [][\A t \in DOMAIN mem.tasks \cap DOMAIN mem'.tasks :
       mem.tasks[t].status \in Settled /\ service' # "down"
         => mem'.tasks[t].status \in {mem.tasks[t].status, "failed"}]_vars

\* A worker is told to cancel only when its own turn was asked to stop: "Stop
\* targets that turn" (docs/poc.md).
CancelHitsItsTurn ==
  turn.at = "running" /\ child.cancel
    => mem.tasks[turn.task].status \in {"cancelling"} \cup Settled

\* A turn that ended without its snapshot leaves its conversation closed: "the
\* last successful workspace snapshot may differ" (docs/poc.md).
LostWorkIsClosed ==
  service = "up" => \A t \in DOMAIN mem.tasks :
     starts[t] > 0 /\ ~mem.tasks[t].promoted /\ turn.task # t
       => ~mem.conv[ConvOf(mem, t)].ready

\* A turn that is under way ends, so that the pump goes on; a service that goes
\* down or whose store has failed is excepted.
TurnOver == turn.at # "idle" ~> turn.at \in {"end", "idle"} \/ storeFailed
=============================================================================
