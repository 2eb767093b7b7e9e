----------------------------- MODULE WorkerSeam -----------------------------
(***************************************************************************)
(* worker-seam/1 between one worker process and the service: the batching, *)
(* acknowledging and retrying of events in apps/worker/seam.mjs, the       *)
(* framed Unix socket of framing.mjs, and the event handler of             *)
(* apps/poc/supervisor.mjs.                                                *)
(*                                                                         *)
(* The service runs on one thread.  A chunk of the socket is read in one   *)
(* callback that starts a handler per frame; a handler runs to its first   *)
(* await, and the code after `await applyEvent` runs as a microtask, after *)
(* the whole chunk has been read and before any other callback.  Steps     *)
(* that need I/O (readFile, save) resume in callbacks of their own.        *)
(***************************************************************************)
EXTENDS Naturals, Sequences, FiniteSets, SequencesExt

CONSTANTS
  NEvents,       \* the turn emits events 1..NEvents, in this order
  Awaited,       \* those the runtime awaits before it goes on
  Completed,     \* run.completed: applying it reads the snapshot from disk
  MaxBatch,      \* MAX_BATCH
  MaxFailures,   \* MAX_TRANSIENT_FAILURES
  MaxChunk       \* frames one socket read may hold

ASSUME SeamAssumption ==
  /\ NEvents \in Nat \ {0} /\ MaxBatch \in Nat \ {0} /\ MaxChunk \in Nat \ {0}
  /\ MaxFailures \in Nat
  /\ Awaited \subseteq 1..NEvents
  /\ Completed \in 1..NEvents - 1

Terminated == NEvents                        \* run.terminated is the last event
Events     == 1..NEvents
Idle       == [msg |-> 0, batch |-> <<>>]
MaxSends   == NEvents * (MaxFailures + 2)    \* no run of the protocol sends more

VARIABLES
  next,       \* events the runtime has handed to appendEvent
  settled,    \* what became of the promise of each event
  queue,      \* WorkerSeam.queue
  timer,      \* flushTimer is armed
  flight,     \* the batch flush() waits for, Idle when not flushing
  sent,       \* messages sent so far; their ids
  failures,   \* transientFailures
  fatal,
  workerUp,   \* the worker process runs
  toService,  \* the two directions of the socket
  toWorker,
  chunk,      \* frames of the current chunk not handled yet
  handlers,   \* onEventsAppend per message
  ready,      \* handlers whose continuation is a queued microtask
  log,        \* the events applied to the task, in order, repeats included
  applied,    \* appliedEventIds
  saves,      \* the store's chain of saves: who waits, and the snapshot taken
  disk,       \* the snapshot on disk
  storeFailed,\* the store's `failure`
  status,     \* task.status
  sawTerminal, turnDone,
  promise     \* the promise runTurn awaits

workerVars  == <<next, settled, queue, timer, flight, sent, failures, fatal>>
wireVars    == <<toService, toWorker>>
handlerVars == <<chunk, handlers, ready, log, applied>>
storeVars   == <<saves, disk, storeFailed>>
turnVars    == <<status, sawTerminal, turnDone, promise>>
vars == <<workerVars, workerUp, wireVars, handlerVars, storeVars, turnVars>>

NoHandler == [phase |-> "none", event |-> 0, rest |-> <<>>]
Quiet     == chunk = 0 /\ ready = <<>>      \* no callback is running

SeamInit ==
  /\ next = 0 /\ settled = [e \in Events |-> "none"]
  /\ queue = <<>> /\ timer = FALSE /\ flight = Idle
  /\ sent = 0 /\ failures = 0 /\ fatal = FALSE /\ workerUp = TRUE
  /\ toService = <<>> /\ toWorker = <<>>
  /\ chunk = 0 /\ handlers = [m \in 1..MaxSends |-> NoHandler] /\ ready = <<>>
  /\ log = <<>> /\ applied = {}
  /\ saves = <<>> /\ disk = [upto |-> 0, status |-> "running"]
  /\ storeFailed = FALSE
  /\ status = "running" /\ sawTerminal = FALSE /\ turnDone = FALSE
  /\ promise = "open"

-----------------------------------------------------------------------------
(* The worker: WorkerSeam.                                                 *)

Settle(batch, how) ==
  [e \in Events |-> IF e \in ToSet(batch) THEN how ELSE settled[e]]

\* flush() with `q` in the queue: the timer is cleared in any case; a flush
\* already under way or an empty queue ends it there.
Flush(q) ==
  /\ timer' = FALSE
  /\ IF flight # Idle \/ q = <<>>
     THEN queue' = q /\ UNCHANGED <<flight, sent, toService>>
     ELSE LET n == IF Len(q) < MaxBatch THEN Len(q) ELSE MaxBatch
              batch == SubSeq(q, 1, n)
          IN /\ queue' = SubSeq(q, n + 1, Len(q))
             /\ sent' = sent + 1
             /\ flight' = [msg |-> sent + 1, batch |-> batch]
             /\ toService' = Append(toService, flight')

\* The runtime hands its next event over, once the awaited ones are acked.
AppendEvent ==
  /\ workerUp /\ ~fatal /\ next < NEvents
  /\ \A e \in Awaited \cap 1..next : settled[e] = "ok"
  /\ next' = next + 1
  /\ settled' = [settled EXCEPT ![next + 1] = "wait"]
  /\ LET q == Append(queue, next + 1) IN
     IF Len(q) >= MaxBatch
     THEN Flush(q)
     ELSE queue' = q /\ timer' = TRUE /\ UNCHANGED <<flight, sent, toService>>
  /\ UNCHANGED <<failures, fatal, workerUp, toWorker, handlerVars, storeVars, turnVars>>

FlushTimer ==
  /\ workerUp /\ ~fatal /\ timer
  /\ Flush(queue)
  /\ UNCHANGED <<next, settled, failures, fatal, workerUp, toWorker,
                 handlerVars, storeVars, turnVars>>

\* Bug: the end of a flush does not arm the timer for what was queued meanwhile.
ReceiveReplyUnarmed ==
  /\ workerUp /\ ~fatal /\ toWorker # <<>>
  /\ toWorker' = Tail(toWorker)
  /\ IF Head(toWorker) = flight.msg
     THEN settled' = Settle(flight.batch, "ok") /\ failures' = 0 /\ flight' = Idle
     ELSE UNCHANGED <<settled, failures, flight>>
  /\ UNCHANGED <<next, queue, timer, sent, fatal, workerUp, toService,
                 handlerVars, storeVars, turnVars>>

\* Bug: any reply is taken for the one that is waited for, a late one too.
ReceiveReplyAny ==
  /\ workerUp /\ ~fatal /\ toWorker # <<>>
  /\ toWorker' = Tail(toWorker)
  /\ settled' = Settle(flight.batch, "ok")
  /\ failures' = 0 /\ flight' = Idle
  /\ timer' = (timer \/ queue # <<>>)
  /\ UNCHANGED <<next, queue, sent, fatal, workerUp, toService,
                 handlerVars, storeVars, turnVars>>

\* A reply settles the request that waits for it; any other is late and dropped.
ReceiveReply ==
  /\ workerUp /\ ~fatal /\ toWorker # <<>>
  /\ toWorker' = Tail(toWorker)
  /\ IF Head(toWorker) = flight.msg
     THEN /\ settled' = Settle(flight.batch, "ok")
          /\ failures' = 0
          /\ flight' = Idle
          /\ timer' = (timer \/ queue # <<>>)
     ELSE UNCHANGED <<settled, failures, flight, timer>>
  /\ UNCHANGED <<next, queue, sent, fatal, workerUp, toService,
                 handlerVars, storeVars, turnVars>>

\* Bug: the batch that timed out is put behind the events emitted since.
AckTimeoutAtBack ==
  /\ workerUp /\ ~fatal /\ flight # Idle
  /\ failures' = failures + 1
  /\ flight' = Idle
  /\ IF failures + 1 > MaxFailures
     THEN /\ settled' = Settle(flight.batch \o queue, "err")
          /\ queue' = <<>> /\ timer' = FALSE /\ fatal' = TRUE
     ELSE /\ queue' = queue \o flight.batch
          /\ timer' = TRUE
          /\ UNCHANGED <<settled, fatal>>
  /\ UNCHANGED <<next, sent, workerUp, wireVars, handlerVars, storeVars, turnVars>>

\* ACK_TIMEOUT_MS passes: requeue at the front, or give the service up.
AckTimeout ==
  /\ workerUp /\ ~fatal /\ flight # Idle
  /\ failures' = failures + 1
  /\ flight' = Idle
  /\ IF failures + 1 > MaxFailures
     THEN /\ settled' = Settle(flight.batch \o queue, "err")
          /\ queue' = <<>> /\ timer' = FALSE /\ fatal' = TRUE
     ELSE /\ queue' = flight.batch \o queue
          /\ timer' = TRUE
          /\ UNCHANGED <<settled, fatal>>
  /\ UNCHANGED <<next, sent, workerUp, wireVars, handlerVars, storeVars, turnVars>>

\* process.exit: after the acked run.terminated, or from onFatal.
WorkerExits ==
  /\ workerUp
  /\ fatal \/ settled[Terminated] = "ok"
  /\ workerUp' = FALSE
  /\ UNCHANGED <<workerVars, wireVars, handlerVars, storeVars, turnVars>>

\* The worker dies, or is killed by reapChild once runTurn is over.
WorkerKilled ==
  /\ workerUp
  /\ workerUp' = FALSE
  /\ UNCHANGED <<workerVars, wireVars, handlerVars, storeVars, turnVars>>

-----------------------------------------------------------------------------
(* The service: frame reader and Supervisor.                               *)

\* failTurn(err): the turn fails closed, unless it is done already.  `chain` is
\* the chain of saves it finds, `refused` whether the store refuses another.
FailTurn(chain, refused) ==
  IF turnDone
  THEN saves' = chain /\ UNCHANGED turnVars
  ELSE /\ turnDone' = TRUE
       /\ promise' = "rejected"
       /\ status' = IF sawTerminal THEN status ELSE "failed"
       /\ saves' = IF sawTerminal \/ refused THEN chain
                   ELSE Append(chain, [by |-> 0, upto |-> Len(log), status |-> "failed"])
       /\ UNCHANGED sawTerminal

\* onEventsAppend of message m, with `evs` left to do and `done` applied: the
\* first event not applied yet is applied up to its await; when none is left,
\* the task is saved.
Apply(m, evs, i) ==
  LET e == evs[i] IN
  /\ log' = Append(log, e)
  /\ handlers' = [handlers EXCEPT ![m] =
       [phase |-> IF e = Completed THEN "promote" ELSE "tick",
        event |-> e, rest |-> SubSeq(evs, i + 1, Len(evs))]]
  /\ status' = CASE e = Completed -> "completed"
                 [] e = Terminated /\ ~sawTerminal -> "failed"
                 [] OTHER -> status
  /\ turnDone' = (turnDone \/ e = Terminated)
  /\ UNCHANGED <<saves, sawTerminal, promise>>

SaveEvents(m) ==
  /\ IF storeFailed
     THEN handlers' = [handlers EXCEPT ![m] = NoHandler] /\ FailTurn(saves, TRUE)
     ELSE /\ handlers' = [handlers EXCEPT ![m] = [NoHandler EXCEPT !.phase = "save"]]
          /\ saves' = Append(saves, [by |-> m, upto |-> Len(log), status |-> status])
          /\ UNCHANGED turnVars
  /\ UNCHANGED log

\* `others` are the microtasks queued before what this handler queues itself.
Resume(m, evs, done, others) ==
  LET fresh == {i \in DOMAIN evs : evs[i] \notin done}
      i == CHOOSE j \in fresh : \A k \in fresh : j <= k
  IN IF fresh = {}
     THEN SaveEvents(m) /\ ready' = others
     ELSE /\ Apply(m, evs, i)
          /\ ready' = IF evs[i] = Completed THEN others ELSE Append(others, m)

\* The socket delivers k frames in one read.
ReadChunk(k) ==
  /\ Quiet /\ k <= Len(toService)
  /\ chunk' = k
  /\ UNCHANGED <<workerVars, workerUp, wireVars, handlers, ready, log, applied,
                 storeVars, turnVars>>

\* handleWorkerMessage: nothing is done, or answered, once the turn is over.
OnFrame ==
  /\ chunk > 0
  /\ chunk' = chunk - 1
  /\ toService' = Tail(toService)
  /\ IF turnDone
     THEN UNCHANGED <<handlers, ready, log, saves, turnVars>>
     ELSE LET frame == Head(toService)
          IN Resume(frame.msg, frame.batch, applied, ready)
  /\ UNCHANGED <<workerVars, workerUp, toWorker, applied, disk, storeFailed>>

\* The continuation of `await applyEvent`: only now is the event remembered.
Microtask ==
  /\ chunk = 0 /\ ready # <<>>
  /\ LET m == Head(ready)
         h == handlers[m]
     IN /\ applied' = applied \cup {h.event}
        /\ Resume(m, h.rest, applied', Tail(ready))
  /\ UNCHANGED <<workerVars, workerUp, wireVars, chunk, disk, storeFailed>>

\* promoteWorkspace has read the listing.
Promoted(m) ==
  /\ Quiet /\ handlers[m].phase = "promote"
  /\ sawTerminal' = TRUE
  /\ handlers' = [handlers EXCEPT ![m].phase = "tick"]
  /\ ready' = <<m>>
  /\ UNCHANGED <<workerVars, workerUp, wireVars, chunk, log, applied, storeVars,
                 status, turnDone, promise>>

\* ... or could not: applyEvent throws and the handler's catch fails the turn.
PromoteFails(m) ==
  /\ Quiet /\ handlers[m].phase = "promote"
  /\ handlers' = [handlers EXCEPT ![m] = NoHandler]
  /\ FailTurn(saves, storeFailed)
  /\ UNCHANGED <<workerVars, workerUp, wireVars, chunk, ready, log, applied, disk,
                 storeFailed>>

\* The oldest save is on disk.  A handler that waits for it acks its message
\* and, when the turn is done, settles the turn's promise.
SaveDone ==
  /\ Quiet /\ saves # <<>>
  /\ LET s == Head(saves) IN
     /\ saves' = Tail(saves)
     /\ disk' = [upto |-> s.upto, status |-> s.status]
     /\ IF s.by = 0
        THEN UNCHANGED <<toWorker, handlers, promise>>
        ELSE /\ toWorker' = Append(toWorker, s.by)
             /\ handlers' = [handlers EXCEPT ![s.by] = NoHandler]
             /\ promise' = CASE promise # "open" \/ ~turnDone -> promise
                             [] sawTerminal -> "resolved"
                             [] OTHER -> "rejected"
  /\ UNCHANGED <<workerVars, workerUp, toService, chunk, ready, log, applied,
                 storeFailed, status, sawTerminal, turnDone>>

\* The write fails.  Every later save() is refused; those chained before still run.
SaveFails ==
  /\ Quiet /\ saves # <<>>
  /\ storeFailed' = TRUE
  /\ LET m == Head(saves).by IN
     IF m = 0
     THEN saves' = Tail(saves) /\ UNCHANGED <<handlers, turnVars>>
     ELSE /\ handlers' = [handlers EXCEPT ![m] = NoHandler]
          /\ FailTurn(Tail(saves), TRUE)
  /\ UNCHANGED <<workerVars, workerUp, wireVars, chunk, ready, log, applied, disk>>

\* Bug: a worker that goes after its outcome is taken to have terminated.
WorkerClosedQuietly ==
  /\ Quiet /\ ~workerUp /\ ~turnDone /\ ~sawTerminal
  /\ FailTurn(saves, storeFailed)
  /\ UNCHANGED <<workerVars, workerUp, wireVars, handlerVars, disk, storeFailed>>

\* onWorkerClose: the process exited or its socket closed, in either order, and
\* frames it wrote before may be unread.
WorkerClosed ==
  /\ Quiet /\ ~workerUp /\ ~turnDone
  /\ FailTurn(saves, storeFailed)
  /\ UNCHANGED <<workerVars, workerUp, wireVars, handlerVars, disk, storeFailed>>

\* Over: the worker is gone and runTurn's promise is settled.
Over ==
  /\ ~workerUp /\ turnDone /\ Quiet /\ saves = <<>> /\ toService = <<>>
  /\ UNCHANGED vars

WorkerNext ==
  \/ AppendEvent \/ FlushTimer \/ ReceiveReply \/ AckTimeout \/ WorkerExits
  \/ WorkerKilled

ServiceNext ==
  \/ \E k \in 1..MaxChunk : ReadChunk(k)
  \/ OnFrame \/ Microtask
  \/ \E m \in 1..MaxSends : Promoted(m) \/ PromoteFails(m)
  \/ SaveDone \/ SaveFails \/ WorkerClosed

Next == WorkerNext \/ ServiceNext \/ Over

Spec == SeamInit /\ [][Next]_vars

\* The two processes keep running their event loops; nothing has to fail.
FairSpec ==
  /\ Spec
  /\ WF_vars(AppendEvent) /\ WF_vars(FlushTimer) /\ WF_vars(ReceiveReply)
  /\ WF_vars(WorkerExits)
  /\ WF_vars(ReadChunk(1)) /\ WF_vars(OnFrame) /\ WF_vars(Microtask)
  /\ \A m \in 1..MaxSends : WF_vars(Promoted(m))
  /\ WF_vars(SaveDone) /\ WF_vars(WorkerClosed)

-----------------------------------------------------------------------------
(* Properties.                                                             *)

Batches == [msg : 0..MaxSends, batch : Seq(Events)]

\* Types, and that a turn never needs more messages than MaxSends.
SeamTypeOK ==
  /\ next \in 0..NEvents
  /\ settled \in [Events -> {"none", "wait", "ok", "err"}]
  /\ queue \in Seq(Events) /\ timer \in BOOLEAN /\ flight \in Batches
  /\ sent \in 0..MaxSends /\ failures \in 0..MaxFailures + 1
  /\ fatal \in BOOLEAN /\ workerUp \in BOOLEAN
  /\ toService \in Seq(Batches) /\ toWorker \in Seq(1..MaxSends)
  /\ chunk \in 0..MaxChunk /\ ready \in Seq(1..MaxSends)
  /\ handlers \in [1..MaxSends ->
       [phase : {"none", "tick", "promote", "save"}, event : 0..NEvents, rest : Seq(Events)]]
  /\ log \in Seq(Events) /\ applied \subseteq Events
  /\ saves \in Seq([by : 0..MaxSends, upto : Nat, status : {"running", "completed", "failed"}])
  /\ disk \in [upto : Nat, status : {"running", "completed", "failed"}]
  /\ storeFailed \in BOOLEAN /\ status \in {"running", "completed", "failed"}
  /\ sawTerminal \in BOOLEAN /\ turnDone \in BOOLEAN
  /\ promise \in {"open", "resolved", "rejected"}

Durable == ToSet(SubSeq(log, 1, disk.upto))

\* An event whose promise the seam resolved is in the snapshot on disk: the ack
\* follows the save, whatever is retried, late or saved in between.
AckedIsDurable == \A e \in Events : settled[e] = "ok" => e \in Durable

\* The task sees the events in the order the runtime emitted them and without a
\* gap, although batches time out, are requeued in front of newer events and
\* arrive late or twice.
AppliedInOrder ==
  \A i \in DOMAIN log : log[i] = 1 \/ \E j \in 1..i - 1 : log[j] = log[i] - 1

\* No event waits in the queue without a flush under way or a timer that will
\* start one: a timer that fires, or a full batch that flushes, while a flush is
\* under way clears the timer and leaves the rest to the end of that flush.
NothingStranded ==
  workerUp /\ ~fatal /\ queue # <<>> => timer \/ flight # Idle

\* An event is applied once, however often its batch is sent.
AppliedOnce == \A i, j \in DOMAIN log : log[i] = log[j] => i = j

\* Every turn ends: with the outcome of the worker or closed by a failure, as
\* long as the store can save.
TurnSettles == <>(promise # "open" \/ storeFailed)

\* The seam implements the journal it stands for.
Journal == INSTANCE EventJournal
             WITH emitted <- next,
                  stored  <- Cardinality(Durable),
                  acked   <- Cardinality({e \in Events : settled[e] = "ok"})
ImplementsJournal == Journal!JournalSpec
=============================================================================
