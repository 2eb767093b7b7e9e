--------------------------- MODULE ApprovalStore ---------------------------
(***************************************************************************)
(* The transactions of the service's single-writer database that decide    *)
(* who may act: turns (runs), approvals with their single-use tickets, the *)
(* controller lease, device revocation and restart recovery.  Every action *)
(* is one committed SQLite transaction of                                  *)
(* crates/agentmeld-server/src/db.rs; a call that returns an error before  *)
(* its commit changes nothing and is a disabled action.  Any caller may    *)
(* issue any transaction at any time here; TurnSupervisor restricts the    *)
(* callers to what the supervisor and the HTTP handlers really do.         *)
(*                                                                         *)
(* Time is abstracted to the two facts the code derives from its clock:    *)
(* "the deadline of this approval has passed" (due) and "the holder's      *)
(* heartbeat is older than its TTL" (lease.stale).                         *)
(*                                                                         *)
(* A definition introduced by "Bug:" is no part of the model: it is the    *)
(* definition after it with a plausible mistake in it, kept to show which  *)
(* property would notice.                                                  *)
(***************************************************************************)
EXTENDS Naturals

CONSTANTS
    Runs,           \* rows of the runs table, each in a conversation of its own
    Approvals,      \* approval ids the supervisor may mint
    Devices,        \* paired devices
    NoRun, NoDevice,
    MaxGeneration,  \* bound on the lease generation
    MaxGrant,       \* bound on workspaces.grant_revision
    MaxTurn         \* bound on runs.generation

ASSUME StoreAssumption ==
    /\ NoRun \notin Runs
    /\ NoDevice \notin Devices
    /\ MaxGeneration \in Nat
    /\ MaxGrant \in Nat
    /\ MaxTurn \in Nat

VARIABLES
    service,   \* "up", or the phase of a restart
    run,       \* runs.status
    turn,      \* runs.generation
    reply,     \* state of the run's response message
    state,     \* approvals.state
    bound,     \* what an approval was proposed under: run, lease, grant, epoch
    due,       \* undecided approvals whose expires_at has passed
    consumed,  \* approvals whose ticket was claimed (consumed_at set)
    step,      \* the service-written tool step "approval:{id}"
    started,   \* approvals cited by a gated tool step the worker started
    lease,     \* the computer_leases row
    grant,     \* workspaces.grant_revision
    epoch      \* history variable: how often the undecided surface was seized

rowVars   == <<state, bound, due, consumed, step, started>>
runVars   == <<run, turn, reply>>
storeVars == <<service, runVars, rowVars, lease, grant, epoch>>

-----------------------------------------------------------------------------
TerminalRun  == {"completed", "failed", "cancelled", "interrupted"}
ActiveRun    == {"starting", "running", "waiting_approval", "cancelling"}
RunStatus    == {"queued"} \cup ActiveRun \cup TerminalRun
Verdicts     == {"approved", "denied"}
ApprovalRow  == {"absent", "pending", "expired", "revoked"} \cup Verdicts
LeaseStates  == {"agent", "pausing", "human", "resuming"}

\* The generation bound counts up to MaxGeneration, the others likewise.
Binding == [run: Runs \cup {NoRun}, lease: 0..MaxGeneration, grant: 0..MaxGrant, epoch: Nat]
Lease   == [state: LeaseStates, holder: Devices \cup {NoDevice}, gen: 0..MaxGeneration,
            private: BOOLEAN, stale: BOOLEAN]

Pending == {a \in Approvals : state[a] = "pending"}

StoreTypeOK ==
    /\ service \in {"up", "down", "recovering"}
    /\ run \in [Runs -> RunStatus]
    /\ turn \in [Runs -> 0..MaxTurn]
    /\ reply \in [Runs -> {"none", "streaming", "complete", "failed"}]
    /\ state \in [Approvals -> ApprovalRow]
    /\ bound \in [Approvals -> Binding]
    /\ due \subseteq Pending
    /\ consumed \subseteq Approvals
    /\ step \in [Approvals -> {"none", "denied", "cancelled"}]
    /\ started \subseteq Approvals
    /\ lease \in Lease
    /\ grant \in 0..MaxGrant
    /\ epoch \in Nat

-----------------------------------------------------------------------------
RunsOf(S) == {bound[a].run : a \in S}

\* Bug: a release keeps the generation.
ReleasedUnfenced(l) == [l EXCEPT !.state = "agent", !.holder = NoDevice,
                                 !.private = FALSE, !.stale = FALSE]

\* The generation the next ownership change writes; every one of them adds 1.
Released(l) == [state |-> "agent", holder |-> NoDevice, gen |-> l.gen + 1,
                private |-> FALSE, stale |-> FALSE]

\* lease_auto_release_locked: a stale hold is gone before anything reads it.
Current == IF lease.stale THEN Released(lease) ELSE lease

HeldBy(d, l, st, private) == [state |-> st, holder |-> d, gen |-> l.gen + 1,
                              private |-> private, stale |-> FALSE]

\* The bound on generations: a hold leaves room for its release.
Fits(l)  == l.gen <= MaxGeneration
Holds(l) == l.gen < MaxGeneration

\* Moving the pending rows of S to a terminal state, each with its
\* service-written step.  A settle never touches a row that is not pending.
Settle(S, outcome) ==
    /\ state' = [a \in Approvals |-> IF a \in S THEN outcome ELSE state[a]]
    /\ step' = [a \in Approvals |->
                  IF a \in S /\ step[a] = "none"
                  THEN IF outcome = "denied" THEN "denied" ELSE "cancelled"
                  ELSE step[a]]
    /\ due' = due \ S

Interrupt(R) == run' = [r \in Runs |-> IF r \in R THEN "interrupted" ELSE run[r]]

-----------------------------------------------------------------------------
(* Turns                                                                   *)

ClaimQueuedRun(r) ==
    /\ run[r] = "queued"
    /\ run' = [run EXCEPT ![r] = "starting"]
    /\ UNCHANGED <<turn, reply, rowVars, lease, grant, epoch>>

\* stop_task: active is the run the caller saw in the supervisor.
StopTask(r, active) ==
    /\ \/ /\ run[r] = "queued"
          /\ run' = [run EXCEPT ![r] = "cancelled"]
       \/ /\ run[r] \in {"starting", "running", "cancelling"}
          /\ active = r
          /\ run' = [run EXCEPT ![r] = "cancelling"]
    /\ UNCHANGED <<turn, reply, rowVars, lease, grant, epoch>>

CancelBeforeSpawn(r) ==
    /\ run[r] = "cancelling"
    /\ run' = [run EXCEPT ![r] = "cancelled"]
    /\ UNCHANGED <<turn, reply, rowVars, lease, grant, epoch>>

\* begin_turn: refused while a human has the computer.
BeginTurn(r) ==
    /\ run[r] = "starting"
    /\ Current.state \in {"agent", "resuming"}
    /\ turn[r] < MaxTurn
    /\ Fits(Current)
    /\ lease' = Current
    /\ turn' = [turn EXCEPT ![r] = @ + 1]
    /\ run' = [run EXCEPT ![r] = "running"]
    /\ reply' = [reply EXCEPT ![r] = "streaming"]
    /\ UNCHANGED <<rowVars, grant, epoch>>

MarkInterrupted(r) ==
    /\ run[r] \notin TerminalRun
    /\ Interrupt({r})
    /\ reply' = [reply EXCEPT ![r] = IF @ = "none" THEN @ ELSE "failed"]
    /\ UNCHANGED <<turn, rowVars, lease, grant, epoch>>

-----------------------------------------------------------------------------
(* Worker events (apply_worker_events): fenced on the turn's generation    *)

AcceptsEvents(r, g) == run[r] \in {"running", "cancelling"} /\ turn[r] = g

EventCompleted(r, g) ==
    /\ AcceptsEvents(r, g)
    /\ run' = [run EXCEPT ![r] = "completed"]
    /\ reply' = [reply EXCEPT ![r] = "complete"]
    /\ UNCHANGED <<turn, rowVars, lease, grant, epoch>>

\* run.terminated: the only event a finished run still accepts.  A turn
\* that ends without an outcome failed, and a failed cleanup overrides one.
EventTerminated(r, g, cleanupOk) ==
    /\ turn[r] = g
    /\ \/ /\ AcceptsEvents(r, g)
          /\ run' = [run EXCEPT ![r] = "failed"]
          /\ reply' = [reply EXCEPT ![r] = "failed"]
       \/ /\ run[r] \in TerminalRun
          /\ run' = [run EXCEPT ![r] = IF cleanupOk THEN @ ELSE "failed"]
          /\ UNCHANGED reply
    /\ UNCHANGED <<turn, rowVars, lease, grant, epoch>>

\* approval.dispatched: claim_ticket_locked, the single-use claim.  Only the
\* worker of the approval's run holds the ticket.
EventDispatched(r, g, a) ==
    /\ AcceptsEvents(r, g)
    /\ bound[a].run = r
    /\ state[a] = "approved"
    /\ a \notin consumed
    /\ consumed' = consumed \cup {a}
    /\ UNCHANGED <<runVars, state, bound, due, step, started, lease, grant, epoch>>

\* tool.call_started citing an approval.
EventToolStarted(r, g, a) ==
    /\ AcceptsEvents(r, g)
    /\ state[a] = "approved"
    /\ a \in consumed
    /\ bound[a].run = r
    /\ started' = started \cup {a}
    /\ UNCHANGED <<runVars, state, bound, due, consumed, step, lease, grant, epoch>>

\* run.resumed: lease_note_observed_locked.
EventResumed(r, g) ==
    /\ AcceptsEvents(r, g)
    /\ Current.state = "resuming"
    /\ Fits(Released(Current))
    /\ lease' = Released(Current)
    /\ UNCHANGED <<runVars, rowVars, grant, epoch>>

-----------------------------------------------------------------------------
(* Approvals                                                               *)

\* propose_approval: by a run at work, with nothing undecided of its own.
ProposeApproval(a, r, g) ==
    /\ state[a] = "absent"
    /\ turn[r] = g
    /\ \A b \in Pending : bound[b].run # r
    /\ run[r] = "running"
    /\ state' = [state EXCEPT ![a] = "pending"]
    /\ bound' = [bound EXCEPT ![a] =
                   [run |-> r, lease |-> lease.gen, grant |-> grant, epoch |-> epoch]]
    /\ run' = [run EXCEPT ![r] = "waiting_approval"]
    /\ UNCHANGED <<turn, reply, due, consumed, step, started, lease, grant, epoch>>

\* expire_approval_locked, for every row of S.
Expire(S) ==
    /\ Settle(S, "expired")
    /\ Interrupt(RunsOf(S))
    /\ UNCHANGED <<turn, reply, bound, consumed, started, lease, grant, epoch>>

\* Every read of one approval first applies expiry and commits it: GET, and
\* the lazy expiry inside a decision or a revocation that then fails.
LazyExpire(a) ==
    /\ a \in due
    /\ Expire({a})

\* sweep_expired_approvals: the sweeper's pass and every listing.
SweepExpired ==
    /\ due # {}
    /\ Expire(due)

\* Bug: a verdict wakes the run whatever became of it.
DecideApprovalRestarts(a, verdict, seen) ==
    /\ a \in Pending \ due
    /\ seen = lease.gen
    /\ bound[a].lease = lease.gen
    /\ bound[a].grant = grant
    /\ run[bound[a].run] \in {"waiting_approval", "interrupted"}
    /\ state' = [state EXCEPT ![a] = verdict]
    /\ step' = [step EXCEPT ![a] = IF verdict = "denied" THEN "denied" ELSE @]
    /\ run' = [run EXCEPT ![bound[a].run] = "running"]
    /\ UNCHANGED <<turn, reply, bound, due, consumed, started, lease, grant, epoch>>

\* decide_approval: seen is the lease generation the client presented.
DecideApproval(a, verdict, seen) ==
    /\ a \in Pending \ due
    /\ seen = lease.gen
    /\ bound[a].lease = lease.gen
    /\ bound[a].grant = grant
    /\ run[bound[a].run] \in {"waiting_approval", "interrupted"}
    /\ state' = [state EXCEPT ![a] = verdict]
    /\ step' = [step EXCEPT ![a] = IF verdict = "denied" THEN "denied" ELSE @]
    /\ run' = [run EXCEPT ![bound[a].run] = IF @ = "waiting_approval" THEN "running" ELSE @]
    /\ UNCHANGED <<turn, reply, bound, due, consumed, started, lease, grant, epoch>>

\* Bug: revoking a grant whose ticket was used rewrites its step.
RevokeApprovalAlwaysCancels(a) ==
    /\ a \in Pending \ due \/ state[a] = "approved"
    /\ state' = [state EXCEPT ![a] = "revoked"]
    /\ step' = [step EXCEPT ![a] = "cancelled"]
    /\ UNCHANGED <<runVars, bound, due, consumed, started, lease, grant, epoch>>

\* revoke_approval: a pending row, or a grant taken back.
RevokeApproval(a) ==
    /\ a \in Pending \ due \/ state[a] = "approved"
    /\ state' = [state EXCEPT ![a] = "revoked"]
    /\ step' = [step EXCEPT ![a] = IF a \in consumed THEN @ ELSE "cancelled"]
    /\ UNCHANGED <<runVars, bound, due, consumed, started, lease, grant, epoch>>

-----------------------------------------------------------------------------
(* The controller lease                                                    *)

\* lease_maintenance and GET /lease.
AutoRelease ==
    /\ lease.stale
    /\ Fits(Current)
    /\ lease' = Current
    /\ UNCHANGED <<runVars, rowVars, grant, epoch>>

\* Bug: only a takeover that kills a turn closes the undecided surface.
TakeoverSparesIdle(d, hasActive) ==
    /\ lease' = HeldBy(d, lease, IF hasActive THEN "pausing" ELSE "human", FALSE)
    /\ Holds(lease')
    /\ Settle(IF hasActive THEN Pending ELSE {}, "revoked")
    /\ epoch' = epoch + 1
    /\ UNCHANGED <<runVars, bound, consumed, started, grant>>

\* lease_takeover: unfenced, and the undecided surface dies with it.
Takeover(d, hasActive) ==
    /\ lease' = HeldBy(d, lease, IF hasActive THEN "pausing" ELSE "human", FALSE)
    /\ Holds(lease')
    /\ Settle(Pending, "revoked")
    /\ epoch' = epoch + 1
    /\ UNCHANGED <<runVars, bound, consumed, started, grant>>

\* The holder's own transitions: fenced on the generation it saw.
HolderMoves(d, seen, from, to, private) ==
    /\ seen = Current.gen
    /\ Current.holder = d
    /\ Current.state = from
    /\ lease' = HeldBy(d, Current, to, private)
    /\ Holds(lease')
    /\ UNCHANGED <<runVars, rowVars, grant, epoch>>

TakeoverAck(d, seen) == HolderMoves(d, seen, "pausing", "human", Current.private)

PrivateBegin(d, seen) == ~Current.private /\ HolderMoves(d, seen, "human", "human", TRUE)

PrivateEnd(d, seen) == Current.private /\ HolderMoves(d, seen, "human", "human", FALSE)

ResumeLease(d, seen) == ~Current.private /\ HolderMoves(d, seen, "human", "resuming", FALSE)

\* lease_heartbeat: refreshes the hold without a new generation.  A stale
\* hold was released first, so only a fresh holder gets here.
Heartbeat(d, seen) ==
    /\ ~lease.stale
    /\ seen = lease.gen
    /\ lease.holder = d
    /\ lease.state \in {"human", "resuming"}
    /\ UNCHANGED <<runVars, rowVars, lease, grant, epoch>>

\* lease_revoke, the kill switch.  Its reason "lease_revoked" is not in the
\* revoked_reason CHECK of the approvals table, so the transaction can only
\* commit when there is no pending row to settle.
RevokeLease(seen) ==
    /\ seen = Current.gen
    /\ Pending = {}
    /\ lease' = Released(Current)
    /\ Fits(lease')
    /\ epoch' = epoch + 1
    /\ UNCHANGED <<runVars, rowVars, grant>>

\* revoke_device_and_settle.
RevokeDevice(d) ==
    /\ grant < MaxGrant
    /\ grant' = grant + 1
    /\ Settle(Pending, "revoked")
    /\ lease' = IF lease.holder = d THEN Released(lease) ELSE lease
    /\ Fits(lease')
    /\ epoch' = epoch + 1
    /\ UNCHANGED <<runVars, bound, consumed, started>>

-----------------------------------------------------------------------------
(* Restart: two transactions before the service listens                    *)

Crash ==
    /\ service' = "down"
    /\ UNCHANGED <<runVars, rowVars, lease, grant, epoch>>

\* mark_interrupted_on_startup.
MarkInterruptedOnStartup ==
    /\ service = "down"
    /\ service' = "recovering"
    /\ Interrupt({r \in Runs : run[r] \in ActiveRun})
    /\ UNCHANGED <<turn, reply, rowVars, lease, grant, epoch>>

\* Bug: rows that are still fresh survive a restart.
RecoverApprovalsKeepsFresh ==
    LET orphaned == {a \in Pending : run[bound[a].run] = "interrupted" /\ a \in due}
        late     == due \ orphaned
    IN  /\ service = "recovering"
        /\ service' = "up"
        /\ lease' = Released(lease)
        /\ Fits(lease')
        /\ state' = [a \in Approvals |->
                       IF a \in late THEN "expired"
                       ELSE IF a \in orphaned THEN "revoked" ELSE state[a]]
        /\ step' = [a \in Approvals |->
                      IF a \in due /\ step[a] = "none" THEN "cancelled" ELSE step[a]]
        /\ Interrupt(RunsOf(late))
        /\ due' = {}
        /\ epoch' = epoch + 1
        /\ UNCHANGED <<turn, reply, bound, consumed, started, grant>>

\* recover_approvals_on_startup: orphans are revoked whatever their
\* deadline, then due rows expire, then the survivors are revoked.
RecoverApprovals ==
    LET orphaned  == {a \in Pending : run[bound[a].run] = "interrupted"}
        late      == due \ orphaned
        survivors == Pending \ (orphaned \cup late)
    IN  /\ service = "recovering"
        /\ service' = "up"
        /\ lease' = Released(lease)
        /\ Fits(lease')
        /\ state' = [a \in Approvals |->
                       IF a \in late THEN "expired"
                       ELSE IF a \in Pending THEN "revoked" ELSE state[a]]
        /\ step' = [a \in Approvals |->
                      IF a \in Pending /\ step[a] = "none" THEN "cancelled" ELSE step[a]]
        /\ Interrupt(RunsOf(late \cup survivors))
        /\ due' = {}
        /\ epoch' = epoch + 1
        /\ UNCHANGED <<turn, reply, bound, consumed, started, grant>>

-----------------------------------------------------------------------------
(* The clock                                                               *)

DeadlinePasses(a) ==
    /\ a \in Pending \ due
    /\ due' = due \cup {a}
    /\ UNCHANGED <<service, runVars, state, bound, consumed, step, started, lease, grant, epoch>>

HeartbeatLapses ==
    /\ lease.holder # NoDevice
    /\ ~lease.stale
    /\ lease' = [lease EXCEPT !.stale = TRUE]
    /\ UNCHANGED <<service, runVars, rowVars, grant, epoch>>

-----------------------------------------------------------------------------
StoreInit ==
    /\ service = "up"
    /\ run = [r \in Runs |-> "queued"]
    /\ turn = [r \in Runs |-> 0]
    /\ reply = [r \in Runs |-> "none"]
    /\ state = [a \in Approvals |-> "absent"]
    /\ bound = [a \in Approvals |-> [run |-> NoRun, lease |-> 0, grant |-> 0, epoch |-> 0]]
    /\ due = {}
    /\ consumed = {}
    /\ step = [a \in Approvals |-> "none"]
    /\ started = {}
    /\ lease = [state |-> "agent", holder |-> NoDevice, gen |-> 0,
                private |-> FALSE, stale |-> FALSE]
    /\ grant = 0
    /\ epoch = 0

RunTx(r) ==
    \/ ClaimQueuedRun(r)
    \/ \E active \in Runs \cup {NoRun} : StopTask(r, active)
    \/ CancelBeforeSpawn(r)
    \/ BeginTurn(r)
    \/ MarkInterrupted(r)
    \/ EventCompleted(r, turn[r])
    \/ \E ok \in BOOLEAN : EventTerminated(r, turn[r], ok)
    \/ EventResumed(r, turn[r])

ApprovalTx(a) ==
    \/ \E r \in Runs : ProposeApproval(a, r, turn[r])
    \/ \E r \in Runs : EventDispatched(r, turn[r], a)
    \/ \E r \in Runs : EventToolStarted(r, turn[r], a)
    \/ \E v \in Verdicts, seen \in 0..MaxGeneration : DecideApproval(a, v, seen)
    \/ LazyExpire(a)
    \/ RevokeApproval(a)

DeviceTx(d) ==
    \/ \E hasActive \in BOOLEAN : Takeover(d, hasActive)
    \/ \E seen \in 0..MaxGeneration :
          \/ TakeoverAck(d, seen)
          \/ PrivateBegin(d, seen)
          \/ PrivateEnd(d, seen)
          \/ ResumeLease(d, seen)
          \/ Heartbeat(d, seen)
    \/ RevokeDevice(d)

ServiceTx ==
    \/ SweepExpired
    \/ AutoRelease
    \/ \E seen \in 0..MaxGeneration : RevokeLease(seen)

StoreTx ==
    \/ \E r \in Runs : RunTx(r)
    \/ \E a \in Approvals : ApprovalTx(a)
    \/ \E d \in Devices : DeviceTx(d)
    \/ ServiceTx

Clock ==
    \/ \E a \in Approvals : DeadlinePasses(a)
    \/ HeartbeatLapses

StoreNext ==
    \/ service = "up" /\ StoreTx /\ UNCHANGED service
    \/ Crash
    \/ MarkInterruptedOnStartup
    \/ RecoverApprovals
    \/ Clock

StoreSpec == StoreInit /\ [][StoreNext]_storeVars

-----------------------------------------------------------------------------
(* Safety                                                                  *)

\* A run waits for one verdict at a time: propose_approval refuses a second
\* pending row, and nothing ever reopens a settled one.
OnePendingPerRun ==
    \A a, b \in Pending : bound[a].run = bound[b].run => a = b

\* While its approval is undecided a run is parked: it accepts no worker
\* event, so a blocked worker cannot complete, dispatch or start a step.
PendingParksRun ==
    \A a \in Pending : run[bound[a].run] \in {"waiting_approval", "interrupted", "failed"}

\* No undecided approval outlives a change of hands (approval-path.md
\* section 5): takeover, both revocations and a restart close the whole
\* undecided surface in the transaction that changes control.
PendingIsOfThisEpoch == \A a \in Pending : bound[a].epoch = epoch

\* Nor does it outlive a device revocation: the grant fence of
\* decide_approval never meets a live row of an older grant.
PendingUnderCurrentGrant == \A a \in Pending : bound[a].grant = grant

\* The service-written step "approval:{id}" of every settled approval agrees
\* with the verdict on the row, whichever path settled it,
\* and a ticket that was used never shows as refused.
StepMatchesVerdict ==
    \A a \in Approvals :
        /\ step[a] = "denied" <=> state[a] = "denied"
        /\ step[a] = "cancelled" <=>
              \/ state[a] = "expired"
              \/ state[a] = "revoked" /\ a \notin consumed

\* A gated tool step runs only on a ticket claimed from an approved row.
StartedWasClaimed ==
    /\ started \subseteq consumed
    /\ \A a \in consumed : state[a] \in {"approved", "revoked"}

\* The lease row never shows a hold without a holder, nor a private bracket
\* outside human control; only a hold can go stale.
LeaseConsistent ==
    /\ lease.state = "agent" <=> lease.holder = NoDevice
    /\ lease.private => lease.state = "human"
    /\ lease.stale => lease.holder # NoDevice

\* The fence is monotonic and every change of hands moves it: what a device
\* saw before somebody else held the computer is never accepted again.
GenerationFences ==
    [][/\ lease'.gen >= lease.gen
       /\ <<lease'.state, lease'.holder, lease'.private>>
            # <<lease.state, lease.holder, lease.private>> => lease'.gen > lease.gen
      ]_storeVars

\* A verdict is final.  Only a grant can still be revoked, and its ticket is
\* claimed at most once, while it is granted.
VerdictIsFinal ==
    [][\A a \in Approvals :
        /\ state[a] \in {"denied", "expired", "revoked"} => state'[a] = state[a]
        /\ state[a] = "approved" => state'[a] \in {"approved", "revoked"}
        /\ a \in consumed => a \in consumed'
        /\ a \in consumed' \ consumed => state[a] = "approved"
      ]_storeVars

\* A finished run stays finished: no late verdict, event, stop, expiry or
\* restart brings it back to work.  An outcome can only turn into "failed"
\* (a failed cleanup), and a failed run into an interrupted one (the
\* unguarded status write of an expiry).
FinishedStaysFinished ==
    [][\A r \in Runs :
        /\ run[r] \in {"completed", "cancelled"} => run'[r] \in {run[r], "failed"}
        /\ run[r] \in {"failed", "interrupted"} => run'[r] \in {"failed", "interrupted"}
      ]_storeVars

-----------------------------------------------------------------------------
(* What the documents say and the code does not do                         *)

\* "The kill switch: revoke the lease no matter who holds it, and settle the
\* undecided approval surface" (lease_revoke).
KillSwitchWorks ==
    service = "up" /\ Fits(Released(Current)) => ENABLED RevokeLease(Current.gen)

\* "undispatched work is revoked first" (approval-path.md section 5): no
\* ticket granted before a change of hands is claimed after it.
UndispatchedIsRevoked ==
    [][\A a \in consumed' \ consumed : bound[a].epoch = epoch]_storeVars

-----------------------------------------------------------------------------
(* The contract the store implements                                       *)

Phase(a) ==
    IF a \in consumed THEN "used"
    ELSE IF state[a] = "absent" THEN "none"
    ELSE IF state[a] = "pending" THEN "open"
    ELSE IF state[a] = "approved" THEN "granted"
    ELSE "closed"

Contract == INSTANCE ApprovalContract WITH
    phase <- [a \in Approvals |-> Phase(a)],
    era   <- epoch,
    born  <- [a \in Approvals |-> bound[a].epoch]

\* Every transaction is a step of the contract or invisible to it.
ImplementsContract == Contract!ContractSpec

=============================================================================
