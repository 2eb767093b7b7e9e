--------------------------- MODULE TurnSupervisor ---------------------------
(***************************************************************************)
(* The serving process around the store: the pump and the supervisor that  *)
(* drive one turn at a time (supervisor.rs, pump_once in api.rs), the      *)
(* waiter registry a blocked turn sleeps on (approvals.rs), the expiry     *)
(* sweeper and the HTTP handlers.  They share the store, the active turn   *)
(* and the registry, and interleave at every await and between every       *)
(* transaction and what follows it.  All of this state dies in a crash.    *)
(* A definition introduced by "Bug:" is a plausible mistake in the one     *)
(* after it, as in ApprovalStore.                                          *)
(***************************************************************************)
EXTENDS ApprovalStore

CONSTANTS
    NoApproval,
    Readers    \* devices whose client polls GET /approvals

ASSUME SupervisorAssumption ==
    /\ NoApproval \notin Approvals
    /\ Readers \subseteq Devices

VARIABLES
    pump,    \* the turn the pump drives: where it is, and how it goes
    active,  \* Supervisor.active: the registered turn, run = NoRun when None
    asked,   \* the approval the supervisor waits for
    waiter,  \* PendingApprovals: what sits in each waiter's channel
    worker,  \* the worker process: alive, told to cancel, tickets it holds
    http,    \* the request each device has in flight
    sweep    \* expired approvals the sweeper has yet to wake

supVars == <<pump, active, asked, waiter, worker, http, sweep>>
vars    == <<storeVars, supVars>>

Outcomes == {"approved", "denied", "expired", "revoked"}

PumpStages == {"idle", "claimed", "setup", "begin", "spawn", "handshake", "live", "blocked",
               "teardown", "reap", "failed", "clear"}

NoTurn    == [run |-> NoRun, started |-> FALSE, cancel |-> FALSE]
NoWorker  == [alive |-> FALSE, told |-> FALSE, tickets |-> {}]
IdlePump  == [pc |-> "idle", run |-> NoRun, failed |-> FALSE, observe |-> FALSE]
NoRequest == [op |-> "none", run |-> NoRun, wake |-> {}, outcome |-> "revoked"]

\* The registry holds the entry of the sleeping turn and nothing else.
SupTypeOK ==
    /\ pump \in [pc: PumpStages, run: Runs \cup {NoRun}, failed: BOOLEAN, observe: BOOLEAN]
    /\ active \in [run: Runs \cup {NoRun}, started: BOOLEAN, cancel: BOOLEAN]
    /\ asked \in Approvals \cup {NoApproval}
    /\ waiter \in [Approvals -> {"none", "waiting"} \cup Outcomes]
    /\ worker \in [alive: BOOLEAN, told: BOOLEAN, tickets: SUBSET Approvals]
    /\ http \in [Devices -> [op: {"none", "takeover", "stop", "revokeDevice", "revokeLease",
                                  "cancelFirst", "wakeFirst"},
                             run: Runs \cup {NoRun}, wake: SUBSET Approvals, outcome: Outcomes]]
    /\ sweep \subseteq Approvals
    /\ \A a \in Approvals : waiter[a] # "none" => a = asked

-----------------------------------------------------------------------------
(* Shared primitives                                                       *)

\* PendingApprovals::resolve: only a registered waiter receives an outcome.
Resolve(a, outcome) ==
    waiter' = [waiter EXCEPT ![a] = IF @ = "waiting" THEN outcome ELSE @]

\* cancel_active_turn: arms the cancel while the turn is still spawning,
\* sends service.turn.cancel afterwards, and fails for any other run.
CancelActiveTurn(r) ==
    IF active.run = r /\ r # NoRun
    THEN IF active.started
         THEN worker' = [worker EXCEPT !.told = @ \/ worker.alive] /\ UNCHANGED active
         ELSE active' = [active EXCEPT !.cancel = TRUE] /\ UNCHANGED worker
    ELSE UNCHANGED <<active, worker>>

\* mark_interrupted leaves a finished run alone.
InterruptUnlessDone(r) ==
    IF run[r] \in TerminalRun
    THEN UNCHANGED <<runVars, rowVars, lease, grant, epoch>>
    ELSE MarkInterrupted(r)

Goto(pc) == pump' = [pump EXCEPT !.pc = pc]

\* A turn that ends goes through teardown; failed is its Err result.
EndTurn(failed) == pump' = [pump EXCEPT !.pc = "teardown", !.failed = failed]

At(pc) == pump.pc = pc

-----------------------------------------------------------------------------
(* The pump and the turn's life                                            *)

PumpClaim(r) ==
    /\ At("idle")
    /\ active.run = NoRun
    /\ ClaimQueuedRun(r)
    /\ pump' = [IdlePump EXCEPT !.pc = "claimed", !.run = r]
    /\ UNCHANGED <<active, asked, waiter, worker, http, sweep>>

\* The continuation gate or the context assembly refuses the run.  The
\* fail_run_precheck that follows writes runs.current_activity, a column no
\* migration creates: its transaction rolls back and pump_once drops the
\* error, so the run stays as it was claimed.
PumpPrecheckFails ==
    /\ At("claimed")
    /\ pump' = IdlePump
    /\ UNCHANGED <<storeVars, active, asked, waiter, worker, http, sweep>>

RegisterTurn ==
    /\ At("claimed")
    /\ active' = [NoTurn EXCEPT !.run = pump.run]
    /\ Goto("setup")
    /\ UNCHANGED <<storeVars, asked, waiter, worker, http, sweep>>

\* The environment or the provider session does not match.
SetupFails ==
    /\ At("setup")
    /\ InterruptUnlessDone(pump.run)
    /\ Goto("clear")
    /\ UNCHANGED <<active, asked, waiter, worker, http, sweep>>

CheckStop ==
    /\ At("setup")
    /\ \/ /\ CancelBeforeSpawn(pump.run)
          /\ Goto("clear")
       \/ /\ run[pump.run] # "cancelling"
          /\ Goto("begin")
          /\ UNCHANGED <<runVars, rowVars, lease, grant, epoch>>
    /\ UNCHANGED <<active, asked, waiter, worker, http, sweep>>

Begin ==
    /\ At("begin")
    /\ BeginTurn(pump.run)
    /\ pump' = [pump EXCEPT !.pc = "spawn", !.observe = (Current.state = "resuming")]
    /\ UNCHANGED <<active, asked, waiter, worker, http, sweep>>

\* Bug: a turn that meets a human waits for the computer.
BeginRefusedWaits ==
    /\ At("begin")
    /\ run[pump.run] # "starting"
    /\ InterruptUnlessDone(pump.run)
    /\ Goto("clear")
    /\ UNCHANGED <<active, asked, waiter, worker, http, sweep>>

\* begin_turn refuses and fail_begin interrupts the run.
BeginRefused ==
    /\ At("begin")
    /\ \/ run[pump.run] # "starting"
       \/ Current.state \in {"pausing", "human"}
    /\ InterruptUnlessDone(pump.run)
    /\ Goto("clear")
    /\ UNCHANGED <<active, asked, waiter, worker, http, sweep>>

\* Bug: a spawn error skips mark_interrupted.
SpawnFailsQuietly ==
    /\ At("spawn")
    /\ Goto("clear")
    /\ UNCHANGED <<storeVars, active, asked, waiter, worker, http, sweep>>

SpawnFails ==
    /\ At("spawn")
    /\ Goto("failed")
    /\ UNCHANGED <<storeVars, active, asked, waiter, worker, http, sweep>>

SpawnWorker ==
    /\ At("spawn")
    /\ worker' = [NoWorker EXCEPT !.alive = TRUE]
    /\ Goto("handshake")
    /\ UNCHANGED <<storeVars, active, asked, waiter, http, sweep>>

HandshakeFails ==
    /\ At("handshake")
    /\ EndTurn(TRUE)
    /\ UNCHANGED <<storeVars, active, asked, waiter, worker, http, sweep>>

\* Bug: the armed cancel is not replayed once the worker has started.
StartTurnUnarmed ==
    /\ At("handshake")
    /\ worker.alive
    /\ active' = [active EXCEPT !.started = TRUE, !.cancel = FALSE]
    /\ Goto("live")
    /\ UNCHANGED <<storeVars, asked, waiter, worker, http, sweep>>

\* turn.start, then the armed cancel if a stop landed while spawning.
StartTurn ==
    /\ At("handshake")
    /\ worker.alive
    /\ worker' = [worker EXCEPT !.told = active.cancel]
    /\ active' = [active EXCEPT !.started = TRUE, !.cancel = FALSE]
    /\ Goto("live")
    /\ UNCHANGED <<storeVars, asked, waiter, http, sweep>>

Teardown ==
    /\ At("teardown")
    /\ active' = NoTurn
    /\ Goto("reap")
    /\ UNCHANGED <<storeVars, asked, waiter, worker, http, sweep>>

ReapChild ==
    /\ At("reap")
    /\ worker' = NoWorker
    /\ Goto(IF pump.failed THEN "failed" ELSE "clear")
    /\ UNCHANGED <<storeVars, active, asked, waiter, http, sweep>>

InterruptFailedTurn ==
    /\ At("failed")
    /\ InterruptUnlessDone(pump.run)
    /\ Goto("clear")
    /\ UNCHANGED <<active, asked, waiter, worker, http, sweep>>

ClearTurn ==
    /\ At("clear")
    /\ active' = NoTurn
    /\ pump' = IdlePump
    /\ UNCHANGED <<storeVars, asked, waiter, worker, http, sweep>>

-----------------------------------------------------------------------------
(* The turn loop: one worker frame at a time                               *)

Live == At("live") /\ worker.alive

\* While an observation is owed the first batch must carry run.resumed.
Observe ==
    /\ Live
    /\ EventResumed(pump.run, turn[pump.run])
    /\ pump' = [pump EXCEPT !.observe = FALSE]
    /\ UNCHANGED <<active, asked, waiter, worker, http, sweep>>

CompleteRun ==
    /\ Live
    /\ ~pump.observe
    /\ EventCompleted(pump.run, turn[pump.run])
    /\ UNCHANGED supVars

Dispatch(a) ==
    /\ Live
    /\ ~pump.observe
    /\ a \in worker.tickets
    /\ EventDispatched(pump.run, turn[pump.run], a)
    /\ UNCHANGED supVars

StartGatedStep(a) ==
    /\ Live
    /\ ~pump.observe
    /\ EventToolStarted(pump.run, turn[pump.run], a)
    /\ UNCHANGED supVars

TerminateRun(cleanupOk) ==
    /\ Live
    /\ ~pump.observe
    /\ EventTerminated(pump.run, turn[pump.run], cleanupOk)
    /\ EndTurn(FALSE)
    /\ UNCHANGED <<active, asked, waiter, worker, http, sweep>>

\* A frame the store refuses fails the turn: a batch without the owed
\* run.resumed, a ticket that cannot be claimed, and run.failed, run.cancelled
\* and run.activity_changed always (they write columns no migration creates).
FrameRejected ==
    /\ Live
    /\ EndTurn(TRUE)
    /\ UNCHANGED <<storeVars, active, asked, waiter, worker, http, sweep>>

WorkerExits ==
    /\ worker.alive
    /\ worker' = NoWorker
    /\ UNCHANGED <<storeVars, pump, active, asked, waiter, http, sweep>>

TransportEnds ==
    /\ At("live")
    /\ ~worker.alive
    /\ EndTurn(TRUE)
    /\ UNCHANGED <<storeVars, active, asked, waiter, worker, http, sweep>>

\* The waiter is registered before the row is published.
AskApproval(a) ==
    /\ Live
    /\ ProposeApproval(a, pump.run, turn[pump.run])
    /\ asked' = a
    /\ waiter' = [waiter EXCEPT ![a] = "waiting"]
    /\ Goto("blocked")
    /\ UNCHANGED <<active, worker, http, sweep>>

\* The supervisor wakes and answers the worker.  The ticket travels in the
\* approved answer only; a dead worker's socket refuses it.
DeliverDecision ==
    /\ At("blocked")
    /\ waiter[asked] \in Outcomes
    /\ waiter' = [waiter EXCEPT ![asked] = "none"]
    /\ asked' = NoApproval
    /\ IF worker.alive /\ waiter[asked] \in Verdicts
       THEN /\ Goto("live")
            /\ worker' = IF waiter[asked] = "approved"
                         THEN [worker EXCEPT !.tickets = @ \cup {asked}] ELSE worker
       ELSE EndTurn(TRUE) /\ UNCHANGED worker
    /\ UNCHANGED <<storeVars, active, http, sweep>>

-----------------------------------------------------------------------------
(* The sweeper (sweep_once)                                                *)

\* Bug: the sweeper expires rows and forgets who sleeps on them.
SweepTxSilent ==
    /\ sweep = {}
    /\ SweepExpired
    /\ UNCHANGED supVars

SweepTx ==
    /\ sweep = {}
    /\ SweepExpired
    /\ sweep' = due
    /\ UNCHANGED <<pump, active, asked, waiter, worker, http>>

SweepWake(a) ==
    /\ a \in sweep
    /\ Resolve(a, "expired")
    /\ sweep' = sweep \ {a}
    /\ UNCHANGED <<storeVars, pump, active, asked, worker, http>>

\* lease_maintenance after the sweep, or GET /lease.
MaintainLease == AutoRelease /\ UNCHANGED supVars

-----------------------------------------------------------------------------
(* HTTP handlers: one request in flight per device                         *)

NoVolatileChange == UNCHANGED <<pump, active, asked, waiter, worker, sweep>>

\* What is left to do after the commit: the run to cancel, the waiters to
\* wake.  op says which of the two the handler does first.
Follow(d, op, r, wake, outcome) ==
    http' = [http EXCEPT ![d] = [op |-> op, run |-> r, wake |-> wake, outcome |-> outcome]]

\* active_run_id() is awaited before the transaction of these four handlers.
ReadActive(d, op) ==
    /\ http[d].op = "none"
    /\ op = "stop" => active.run # NoRun
    /\ Follow(d, op, active.run, {}, "revoked")
    /\ UNCHANGED <<storeVars, pump, active, asked, waiter, worker, sweep>>

\* The transaction of the request refuses, and the handler answers an error.
Refused(d) ==
    /\ http' = [http EXCEPT ![d] = NoRequest]
    /\ UNCHANGED <<runVars, rowVars, lease, grant, epoch>>

\* Bug: the lease changes hands in one transaction, the approvals in another.
TakeoverCommitsInTwo(d) ==
    /\ http[d].op = "takeover"
    /\ lease' = HeldBy(d, lease, IF http[d].run # NoRun THEN "pausing" ELSE "human", FALSE)
    /\ Holds(lease')
    /\ UNCHANGED <<runVars, rowVars, grant, epoch>>
    /\ Follow(d, "cancelFirst", http[d].run, Pending, "revoked")
    /\ NoVolatileChange

TakeoverCommits(d) ==
    /\ http[d].op = "takeover"
    /\ Takeover(d, http[d].run # NoRun)
    /\ Follow(d, "cancelFirst", http[d].run, Pending, "revoked")
    /\ NoVolatileChange

StopCommits(d) ==
    LET r == http[d].run
    IN  /\ http[d].op = "stop"
        /\ \/ /\ StopTask(r, r)
              /\ Follow(d, "cancelFirst", r, {}, "revoked")
           \/ /\ run[r] \in {"waiting_approval"} \cup TerminalRun
              /\ Refused(d)
        /\ NoVolatileChange

\* A stop of a run that is still queued cancels it in one transaction.
StopQueued(d, r) ==
    /\ http[d].op = "none"
    /\ run[r] = "queued"
    /\ StopTask(r, NoRun)
    /\ UNCHANGED supVars

\* The revoked device's waiters are woken before its turn is cancelled.
RevokeDeviceCommits(d, target) ==
    /\ http[d].op = "revokeDevice"
    /\ RevokeDevice(target)
    /\ Follow(d, "wakeFirst", IF lease.holder = target THEN http[d].run ELSE NoRun,
              Pending, "revoked")
    /\ NoVolatileChange

RevokeLeaseCommits(d) ==
    /\ http[d].op = "revokeLease"
    /\ \/ \E seen \in 0..MaxGeneration :
             /\ RevokeLease(seen)
             /\ Follow(d, "cancelFirst",
                       IF Current.state = "pausing" THEN http[d].run ELSE NoRun, {}, "revoked")
       \/ Pending # {} /\ Refused(d)
    /\ NoVolatileChange

\* post_approval_decision: a verdict, or the expiry the failed decision
\* committed; either way the waiter is woken afterwards.
Decide(d, a, verdict, seen) ==
    /\ http[d].op = "none"
    /\ DecideApproval(a, verdict, seen)
    /\ Follow(d, "wakeFirst", NoRun, {a}, verdict)
    /\ NoVolatileChange

\* Bug: every failed decision is reported as a revocation.
DecideTooLateRevoked(d, a) ==
    /\ http[d].op = "none"
    /\ LazyExpire(a)
    /\ Follow(d, "wakeFirst", NoRun, {a}, "revoked")
    /\ NoVolatileChange

DecideTooLate(d, a) ==
    /\ http[d].op = "none"
    /\ LazyExpire(a)
    /\ Follow(d, "wakeFirst", NoRun, {a}, "expired")
    /\ NoVolatileChange

Revoke(d, a) ==
    /\ http[d].op = "none"
    /\ RevokeApproval(a)
    /\ Follow(d, "wakeFirst", NoRun, IF a \in Pending THEN {a} ELSE {}, "revoked")
    /\ NoVolatileChange

\* GET /approvals/{id} and GET /approvals expire what is due, and wake nobody.
ReadApprovals(d) ==
    /\ d \in Readers
    /\ SweepExpired \/ \E a \in Approvals : LazyExpire(a)
    /\ UNCHANGED supVars

\* The holder's lease requests only journal the active run they read.
MoveLease(d) ==
    /\ http[d].op = "none"
    /\ \E seen \in 0..MaxGeneration :
          \/ TakeoverAck(d, seen)
          \/ PrivateBegin(d, seen)
          \/ PrivateEnd(d, seen)
          \/ ResumeLease(d, seen)
          \/ Heartbeat(d, seen)
    /\ UNCHANGED supVars

HttpCancel(d) ==
    /\ \/ http[d].op = "cancelFirst"
       \/ http[d].op = "wakeFirst" /\ http[d].wake = {}
    /\ http[d].run # NoRun
    /\ CancelActiveTurn(http[d].run)
    /\ http' = [http EXCEPT ![d].run = NoRun]
    /\ UNCHANGED <<storeVars, pump, asked, waiter, sweep>>

HttpWake(d, a) ==
    /\ \/ http[d].op = "wakeFirst"
       \/ http[d].op = "cancelFirst" /\ http[d].run = NoRun
    /\ a \in http[d].wake
    /\ Resolve(a, http[d].outcome)
    /\ http' = [http EXCEPT ![d].wake = @ \ {a}]
    /\ UNCHANGED <<storeVars, pump, active, asked, worker, sweep>>

HttpReply(d) ==
    /\ http[d].op \in {"cancelFirst", "wakeFirst"}
    /\ http[d].run = NoRun
    /\ http[d].wake = {}
    /\ http' = [http EXCEPT ![d] = NoRequest]
    /\ UNCHANGED <<storeVars, pump, active, asked, waiter, worker, sweep>>

-----------------------------------------------------------------------------
SupInit ==
    /\ StoreInit
    /\ pump = IdlePump
    /\ active = NoTurn
    /\ asked = NoApproval
    /\ waiter = [a \in Approvals |-> "none"]
    /\ worker = NoWorker
    /\ http = [d \in Devices |-> NoRequest]
    /\ sweep = {}

\* A crash keeps the tables and nothing else; the worker dies with its socket.
CrashService ==
    /\ Crash
    /\ pump' = IdlePump
    /\ active' = NoTurn
    /\ asked' = NoApproval
    /\ waiter' = [a \in Approvals |-> "none"]
    /\ worker' = NoWorker
    /\ http' = [d \in Devices |-> NoRequest]
    /\ sweep' = {}

PumpStep ==
    \/ \E r \in Runs : PumpClaim(r)
    \/ PumpPrecheckFails
    \/ RegisterTurn

\* What the supervisor does by itself.
TurnStep ==
    \/ SetupFails \/ CheckStop \/ Begin \/ BeginRefused
    \/ SpawnFails \/ SpawnWorker \/ HandshakeFails \/ StartTurn
    \/ TransportEnds \/ DeliverDecision
    \/ Teardown \/ ReapChild \/ InterruptFailedTurn \/ ClearTurn

\* What the worker makes it do.
FrameStep ==
    \/ Observe
    \/ CompleteRun
    \/ \E a \in Approvals : Dispatch(a) \/ StartGatedStep(a) \/ AskApproval(a)
    \/ \E ok \in BOOLEAN : TerminateRun(ok)
    \/ FrameRejected
    \/ WorkerExits

SweeperStep ==
    \/ SweepTx
    \/ \E a \in Approvals : SweepWake(a)
    \/ MaintainLease

RequestStep(d) ==
    \/ \E op \in {"takeover", "stop", "revokeDevice", "revokeLease"} : ReadActive(d, op)
    \/ \E r \in Runs : StopQueued(d, r)
    \/ \E a \in Approvals :
          \/ \E v \in Verdicts, seen \in 0..MaxGeneration : Decide(d, a, v, seen)
          \/ DecideTooLate(d, a)
          \/ Revoke(d, a)
    \/ MoveLease(d)

HandlerStep(d) ==
    \/ TakeoverCommits(d)
    \/ StopCommits(d)
    \/ \E target \in Devices : RevokeDeviceCommits(d, target)
    \/ RevokeLeaseCommits(d)
    \/ HttpCancel(d)
    \/ \E a \in Approvals : HttpWake(d, a)
    \/ HttpReply(d)

Serve(A) == service = "up" /\ A /\ UNCHANGED service

Restart ==
    \/ CrashService
    \/ MarkInterruptedOnStartup /\ UNCHANGED supVars
    \/ RecoverApprovals /\ UNCHANGED supVars

\* Every step but the reads that expire: whatever it settles, it wakes.
HeardNext ==
    \/ Serve(PumpStep)
    \/ Serve(TurnStep)
    \/ Serve(FrameStep)
    \/ Serve(SweeperStep)
    \/ \E d \in Devices : Serve(RequestStep(d)) \/ Serve(HandlerStep(d))
    \/ Restart
    \/ Clock /\ UNCHANGED supVars

SupNext == HeardNext \/ \E d \in Devices : Serve(ReadApprovals(d))

SupSpec == SupInit /\ [][SupNext]_vars

-----------------------------------------------------------------------------
(* Fairness: the pump and the supervisor are one task that tokio keeps      *)
(* running, the sweeper ticks every second, a committed handler runs to its *)
(* end, time passes, and no worker lives for ever (it enforces its          *)
(* turn_timeout_ms itself, or its VM dies).  Nothing is assumed of clients, *)
(* of a worker's frames, nor that a crashed service is started again.       *)

Fairness ==
    /\ WF_vars(Serve(TurnStep))
    /\ WF_vars(Serve(RegisterTurn \/ PumpPrecheckFails))
    /\ WF_vars(Serve(WorkerExits))
    /\ WF_vars(Serve(SweepTx))
    /\ \A a \in Approvals :
          /\ WF_vars(Serve(SweepWake(a)))
          /\ WF_vars(DeadlinePasses(a) /\ UNCHANGED supVars)
    /\ \A d \in Devices : WF_vars(Serve(HandlerStep(d)))

FairSpec == SupSpec /\ Fairness

-----------------------------------------------------------------------------
(* Safety                                                                  *)

\* Every undecided row has its sleeper: while the service is up a pending
\* approval is the one the supervisor waits for, with its waiter armed, so
\* no verdict can arrive before somebody listens for it.
PendingHasWaiter ==
    service = "up" => \A a \in Pending :
        /\ At("blocked") /\ asked = a /\ waiter[a] = "waiting"
        /\ pump.run = bound[a].run

\* A settled row never leaves its sleeper behind: whoever settled it still
\* has the wake-up to deliver.
SettledIsWoken ==
    At("blocked") /\ waiter[asked] = "waiting" /\ state[asked] # "pending" =>
        asked \in sweep \cup UNION {http[d].wake : d \in Devices}

\* What travels to the worker is what the row says.  A grant may have been
\* revoked while it travelled; a refusal never becomes anything else.
OutcomeMatchesRow ==
    \A a \in Approvals :
        LET says == {waiter[a]} \cup {http[d].outcome : d \in {e \in Devices : a \in http[e].wake}}
                                \cup (IF a \in worker.tickets THEN {"approved"} ELSE {})
                                \cup (IF a \in sweep THEN {"expired"} ELSE {})
        IN  /\ \A o \in says \cap (Outcomes \ {"approved"}) : state[a] = o
            /\ "approved" \in says => state[a] \in {"approved", "revoked"}

\* No turn is orphaned: a run that is running, waiting or cancelling is the
\* one the supervisor drives, and no second worker exists.
NoOrphanRun ==
    service = "up" =>
        /\ \A r \in Runs : run[r] \in {"running", "waiting_approval", "cancelling"} =>
              pump.run = r /\ ~At("claimed")
        /\ worker.alive => pump.pc \in {"handshake", "live", "blocked", "teardown", "reap"}
        /\ active.run \in {NoRun, pump.run}

\* A stop is never dropped: from its commit until the turn ends the cancel
\* is on its way, armed for a worker that is still spawning, or delivered.
StopIsHeard ==
    At("live") /\ worker.alive /\ run[pump.run] = "cancelling" =>
        \/ worker.told
        \/ \E d \in Devices : http[d].run = pump.run /\ http[d].op \in {"cancelFirst", "wakeFirst"}

\* The serving process only ever commits transactions of the store, so every
\* theorem about the store holds of the running service.
UsesStore == StoreSpec

-----------------------------------------------------------------------------
(* Liveness                                                                *)

\* "expiry returns the run to the agent's control path rather than hanging it"
\* (docs/design/approval-path.md section 2): a blocked turn is released, by a
\* verdict, a revocation or the deadline.  A read that expires the row breaks
\* it; UnheardExpiry states what holds beside those reads.
BlockedIsReleased == At("blocked") ~> ~At("blocked")

\* Every turn the pump starts ends, and the next queued run gets its chance.
TurnEnds == ~At("idle") ~> At("idle")

\* A stop that was accepted ends the run.
StopEnds == \A r \in Runs : run[r] = "cancelling" /\ service = "up" ~>
                             run[r] \in TerminalRun \/ service # "up"

\* A claimed run is resolved one way or the other ("Fail a claimed run before
\* the turn starts").
ClaimIsResolved == \A r \in Runs : run[r] = "starting" /\ service = "up" ~>
                                   run[r] # "starting" \/ service # "up"

-----------------------------------------------------------------------------
(* What the documents say and the code does not do                         *)

\* "a live worker is cancelled with service.turn.cancel reason
\* lease_takeover" (post_lease_takeover).
HumanStopsWorker ==
    lease.state = "human" /\ worker.alive =>
        \/ worker.told \/ active.cancel
        \/ pump.pc \in {"teardown", "reap"}
        \/ \E d \in Devices : http[d].run = pump.run

\* "A stop that landed while the turn was still in setup ... The run resolves
\* as cancelled" (cancel_before_spawn).
StopInSetupCancels ==
    [][At("begin") /\ run[pump.run] = "cancelling" =>
         run'[pump.run] \in {"cancelling", "cancelled"} \/ service' # "up"]_vars

=============================================================================
