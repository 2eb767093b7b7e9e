------------------------ MODULE TurnSupervisorProofs ------------------------
(***************************************************************************)
(* Theorems about the store and the process that serves it, for every set  *)
(* of runs, approvals and devices and every bound.  The store: its         *)
(* transactions keep rows, tickets and lease consistent and implement the  *)
(* contract of the approval path.  The process: it is a user of the store  *)
(* and of nothing else, no turn is orphaned, no stop is dropped, nobody    *)
(* sleeps on a settled row unheard and what travels to the worker is what  *)
(* the row says.                                                           *)
(***************************************************************************)
EXTENDS TurnSupervisor, TLAPS

\* A request of device d, a read that expires included.
Requests(d) == RequestStep(d) \/ ReadApprovals(d)

-----------------------------------------------------------------------------
(* The store: type correctness                                             *)

\* What auto-release leaves is again a lease row, when its generation is
\* within the bound.
LEMMA CurrentType ==
    ASSUME StoreTypeOK
    PROVE  /\ Current \in [state: LeaseStates, holder: Devices \cup {NoDevice}, gen: Nat,
                           private: BOOLEAN, stale: BOOLEAN]
           /\ Current = lease \/ Current = Released(lease)
    BY StoreAssumption DEF StoreTypeOK, Current, Released, Lease, LeaseStates

LEMMA RunTxType ==
    ASSUME StoreTypeOK, NEW r \in Runs, RunTx(r), UNCHANGED service
    PROVE  StoreTypeOK'
<1> USE StoreAssumption DEF StoreTypeOK, rowVars, runVars, RunStatus, ActiveRun, TerminalRun
<1>1. CASE ClaimQueuedRun(r)
    BY <1>1 DEF ClaimQueuedRun, Pending
<1>2. CASE \E held \in Runs \cup {NoRun} : StopTask(r, held)
    BY <1>2 DEF StopTask, Pending
<1>3. CASE CancelBeforeSpawn(r)
    BY <1>3 DEF CancelBeforeSpawn, Pending
<1>4. CASE BeginTurn(r)
    BY <1>4 DEF BeginTurn, Current, Released, Fits, Lease, LeaseStates, Pending
<1>5. CASE MarkInterrupted(r)
    BY <1>5 DEF MarkInterrupted, Interrupt, Pending
<1>6. CASE EventCompleted(r, turn[r])
    BY <1>6 DEF EventCompleted, Pending
<1>7. CASE \E ok \in BOOLEAN : EventTerminated(r, turn[r], ok)
    BY <1>7 DEF EventTerminated, Pending
<1>8. CASE EventResumed(r, turn[r])
    BY <1>8 DEF EventResumed, Current, Released, Fits, Lease, LeaseStates, Pending
<1>9. QED
    BY <1>1, <1>2, <1>3, <1>4, <1>5, <1>6, <1>7, <1>8 DEF RunTx

LEMMA ApprovalTxType ==
    ASSUME StoreTypeOK, NEW a \in Approvals, ApprovalTx(a), UNCHANGED service
    PROVE  StoreTypeOK'
<1> USE StoreAssumption DEF StoreTypeOK, runVars, RunStatus, ActiveRun, TerminalRun,
        ApprovalRow, Verdicts, Pending
<1>1. CASE \E r \in Runs : ProposeApproval(a, r, turn[r])
    BY <1>1 DEF ProposeApproval, Binding, Lease
<1>2. CASE \E r \in Runs : EventDispatched(r, turn[r], a)
    BY <1>2 DEF EventDispatched
<1>3. CASE \E r \in Runs : EventToolStarted(r, turn[r], a)
    BY <1>3 DEF EventToolStarted
<1>4. CASE \E v \in Verdicts, seen \in 0..MaxGeneration : DecideApproval(a, v, seen)
  <2> PICK v \in Verdicts, seen \in 0..MaxGeneration : DecideApproval(a, v, seen)
      BY <1>4
  <2>1. run' \in [Runs -> RunStatus]
      BY DEF DecideApproval
  <2>2. state' \in [Approvals -> ApprovalRow] /\ due' \subseteq Pending'
      BY DEF DecideApproval
  <2>3. step' \in [Approvals -> {"none", "denied", "cancelled"}]
      BY DEF DecideApproval
  <2>4. QED
      BY <2>1, <2>2, <2>3 DEF DecideApproval
<1>5. CASE LazyExpire(a)
    BY <1>5 DEF LazyExpire, Expire, Settle, Interrupt
<1>6. CASE RevokeApproval(a)
    BY <1>6 DEF RevokeApproval
<1>7. QED
    BY <1>1, <1>2, <1>3, <1>4, <1>5, <1>6 DEF ApprovalTx

\* The holder's transitions write the current row with a new generation.
LEMMA DeviceTxType ==
    ASSUME StoreTypeOK, NEW d \in Devices, DeviceTx(d), UNCHANGED service
    PROVE  StoreTypeOK'
<1> USE StoreAssumption DEF StoreTypeOK, runVars, rowVars, RunStatus, ApprovalRow, Pending,
        Lease, LeaseStates
<1>1. CASE \E hasActive \in BOOLEAN : Takeover(d, hasActive)
    BY <1>1 DEF Takeover, HeldBy, Holds, Settle
<1>2. CASE RevokeDevice(d)
    BY <1>2 DEF RevokeDevice, Settle, Released, Fits
<1>3. ASSUME NEW seen \in 0..MaxGeneration, TakeoverAck(d, seen)
      PROVE  StoreTypeOK'
    BY <1>3, CurrentType DEF TakeoverAck, HolderMoves, HeldBy, Holds
<1>4. ASSUME NEW seen \in 0..MaxGeneration, PrivateBegin(d, seen)
      PROVE  StoreTypeOK'
    BY <1>4 DEF PrivateBegin, HolderMoves, HeldBy, Holds, Current, Released
<1>5. ASSUME NEW seen \in 0..MaxGeneration, PrivateEnd(d, seen)
      PROVE  StoreTypeOK'
    BY <1>5 DEF PrivateEnd, HolderMoves, HeldBy, Holds, Current, Released
<1>6. ASSUME NEW seen \in 0..MaxGeneration, ResumeLease(d, seen)
      PROVE  StoreTypeOK'
    BY <1>6 DEF ResumeLease, HolderMoves, HeldBy, Holds, Current, Released
<1>7. ASSUME NEW seen \in 0..MaxGeneration, Heartbeat(d, seen)
      PROVE  StoreTypeOK'
    BY <1>7 DEF Heartbeat
<1>8. QED
    BY <1>1, <1>2, <1>3, <1>4, <1>5, <1>6, <1>7 DEF DeviceTx

LEMMA ServiceStepType ==
    ASSUME StoreTypeOK,
           \/ ServiceTx /\ UNCHANGED service
           \/ Crash \/ MarkInterruptedOnStartup \/ RecoverApprovals \/ Clock
    PROVE  StoreTypeOK'
<1> USE StoreAssumption DEF StoreTypeOK, runVars, rowVars, RunStatus, TerminalRun, ApprovalRow,
        Pending, Lease, LeaseStates
<1>1. CASE ServiceTx /\ UNCHANGED service
  <2>1. CASE SweepExpired
      BY <1>1, <2>1 DEF SweepExpired, Expire, Settle, Interrupt
  <2>2. CASE AutoRelease
      BY <1>1, <2>2 DEF AutoRelease, Current, Released, Fits
  <2>3. CASE \E seen \in 0..MaxGeneration : RevokeLease(seen)
      BY <1>1, <2>3 DEF RevokeLease, Current, Released, Fits
  <2>4. QED
      BY <1>1, <2>1, <2>2, <2>3 DEF ServiceTx
<1>2. CASE Crash
    BY <1>2 DEF Crash
<1>3. CASE MarkInterruptedOnStartup
    BY <1>3 DEF MarkInterruptedOnStartup, Interrupt
<1>4. CASE RecoverApprovals
    BY <1>4 DEF RecoverApprovals, Released, Fits, Interrupt
<1>5. CASE Clock
  <2>1. CASE \E a \in Approvals : DeadlinePasses(a)
      BY <1>5, <2>1 DEF DeadlinePasses
  <2>2. CASE HeartbeatLapses
      BY <1>5, <2>2 DEF HeartbeatLapses
  <2>3. QED
      BY <1>5, <2>1, <2>2 DEF Clock
<1>6. QED
    BY <1>1, <1>2, <1>3, <1>4, <1>5

\* Every reachable state of the store is well formed.
THEOREM TypeCorrect == StoreSpec => []StoreTypeOK
<1>1. StoreInit => StoreTypeOK
    BY StoreAssumption DEF StoreInit, StoreTypeOK, RunStatus, ApprovalRow, Binding, Pending,
       Lease, LeaseStates
<1>2. StoreTypeOK /\ [StoreNext]_storeVars => StoreTypeOK'
  <2> SUFFICES ASSUME StoreTypeOK, [StoreNext]_storeVars
               PROVE  StoreTypeOK'
      OBVIOUS
  <2>1. CASE UNCHANGED storeVars
      BY <2>1 DEF storeVars, runVars, rowVars, StoreTypeOK, Pending
  <2>2. CASE StoreNext
      BY <2>2, RunTxType, ApprovalTxType, DeviceTxType, ServiceStepType DEF StoreNext, StoreTx
  <2>3. QED
      BY <2>1, <2>2
<1>3. QED
    BY <1>1, <1>2, PTL DEF StoreSpec

-----------------------------------------------------------------------------
(* The store: safety.  The undecided surface is what has to be carried     *)
(* along: who is parked on it, which epoch it belongs to, and that nothing  *)
(* undecided was ever consumed.                                             *)

BoundToRun == \A a \in Approvals : state[a] # "absent" => bound[a].run \in Runs

Surface ==
    /\ BoundToRun
    /\ OnePendingPerRun
    /\ PendingParksRun
    /\ PendingIsOfThisEpoch
    /\ PendingUnderCurrentGrant

Verdict == StepMatchesVerdict /\ StartedWasClaimed

StoreInv == StoreTypeOK /\ Surface /\ Verdict /\ LeaseConsistent

\* No step of the turn machinery touches an approval row, and none moves a
\* parked run anywhere but to a terminal status.
LEMMA RunTxSurface ==
    ASSUME StoreInv, NEW r \in Runs, RunTx(r)
    PROVE  Surface'
<1> USE DEF StoreInv, Surface, BoundToRun, OnePendingPerRun, PendingParksRun,
        PendingIsOfThisEpoch, PendingUnderCurrentGrant, Pending, rowVars
<1>1. UNCHANGED <<rowVars, grant, epoch>>
    BY DEF RunTx, ClaimQueuedRun, StopTask, CancelBeforeSpawn, BeginTurn, MarkInterrupted,
       EventCompleted, EventTerminated, EventResumed
<1>2. \A s \in Runs : run[s] \in {"waiting_approval", "interrupted", "failed"} =>
                      run'[s] \in {"waiting_approval", "interrupted", "failed"}
    BY DEF RunTx, ClaimQueuedRun, StopTask, CancelBeforeSpawn, BeginTurn, MarkInterrupted,
       EventCompleted, EventTerminated, EventResumed, AcceptsEvents, Interrupt, runVars,
       StoreTypeOK, TerminalRun
<1>3. QED
    BY <1>1, <1>2

LEMMA ApprovalTxSurface ==
    ASSUME StoreInv, NEW a \in Approvals, ApprovalTx(a)
    PROVE  Surface'
<1> USE DEF StoreInv, Surface, BoundToRun, OnePendingPerRun, PendingParksRun,
        PendingIsOfThisEpoch, PendingUnderCurrentGrant, Pending, StoreTypeOK
<1>1. CASE \E r \in Runs : ProposeApproval(a, r, turn[r])
    BY <1>1 DEF ProposeApproval
<1>2. CASE \E r \in Runs : EventDispatched(r, turn[r], a)
    BY <1>2 DEF EventDispatched, runVars
<1>3. CASE \E r \in Runs : EventToolStarted(r, turn[r], a)
    BY <1>3 DEF EventToolStarted, runVars
<1>4. CASE \E v \in Verdicts, seen \in 0..MaxGeneration : DecideApproval(a, v, seen)
    BY <1>4 DEF DecideApproval, Verdicts
<1>5. CASE LazyExpire(a)
    BY <1>5 DEF LazyExpire, Expire, Settle, Interrupt, RunsOf
<1>6. CASE RevokeApproval(a)
    BY <1>6 DEF RevokeApproval, runVars
<1>7. QED
    BY <1>1, <1>2, <1>3, <1>4, <1>5, <1>6 DEF ApprovalTx

\* A change of hands either leaves no undecided row behind or does not move
\* the epoch.
LEMMA DeviceTxSurface ==
    ASSUME StoreInv, NEW d \in Devices, DeviceTx(d)
    PROVE  Surface'
<1> USE DEF StoreInv, Surface, BoundToRun, OnePendingPerRun, PendingParksRun,
        PendingIsOfThisEpoch, PendingUnderCurrentGrant, Pending, StoreTypeOK
<1>1. CASE (\E hasActive \in BOOLEAN : Takeover(d, hasActive)) \/ RevokeDevice(d)
  <2>1. Settle(Pending, "revoked") /\ UNCHANGED <<run, bound>>
      BY <1>1 DEF Takeover, RevokeDevice, runVars
  <2>2. \A a \in Approvals : state'[a] = IF state[a] = "pending" THEN "revoked" ELSE state[a]
      BY <2>1 DEF Settle
  <2>3. QED
      BY <2>1, <2>2
<1>2. CASE \E seen \in 0..MaxGeneration :
              \/ TakeoverAck(d, seen) \/ PrivateBegin(d, seen) \/ PrivateEnd(d, seen)
              \/ ResumeLease(d, seen) \/ Heartbeat(d, seen)
  <2>1. UNCHANGED <<run, state, bound, grant, epoch>>
      BY <1>2 DEF TakeoverAck, PrivateBegin, PrivateEnd, ResumeLease, Heartbeat, HolderMoves,
         runVars, rowVars
  <2>2. QED
      BY <2>1
<1>3. QED
    BY <1>1, <1>2 DEF DeviceTx

LEMMA ServiceStepSurface ==
    ASSUME StoreInv,
           ServiceTx \/ Crash \/ MarkInterruptedOnStartup \/ RecoverApprovals \/ Clock
    PROVE  Surface'
<1> USE DEF StoreInv, Surface, BoundToRun, OnePendingPerRun, PendingParksRun,
        PendingIsOfThisEpoch, PendingUnderCurrentGrant, Pending, StoreTypeOK, runVars, rowVars
<1>1. CASE SweepExpired
    BY <1>1 DEF SweepExpired, Expire, Settle, Interrupt, RunsOf
<1>2. CASE AutoRelease \/ Crash \/ Clock
    BY <1>2 DEF AutoRelease, Crash, Clock, DeadlinePasses, HeartbeatLapses
<1>3. CASE \E seen \in 0..MaxGeneration : RevokeLease(seen)
    BY <1>3 DEF RevokeLease
<1>4. CASE MarkInterruptedOnStartup
    BY <1>4 DEF MarkInterruptedOnStartup, Interrupt
<1>5. CASE RecoverApprovals
  <2>1. Pending' = {}
      BY <1>5 DEF RecoverApprovals
  <2>2. bound' = bound /\ \A a \in Approvals : state[a] = "absent" <=> state'[a] = "absent"
      BY <1>5 DEF RecoverApprovals
  <2>3. QED
      BY <2>1, <2>2
<1>6. QED
    BY <1>1, <1>2, <1>3, <1>4, <1>5 DEF ServiceTx

\* The service-written steps and the tickets follow the rows.
LEMMA VerdictStep ==
    ASSUME StoreInv, StoreNext
    PROVE  Verdict'
<1> USE DEF StoreInv, Verdict, StepMatchesVerdict, StartedWasClaimed, Pending, StoreTypeOK,
        rowVars
<1>1. CASE UNCHANGED <<state, consumed, step, started>>
    BY <1>1
<1>2. ASSUME NEW a \in Approvals, NEW r \in Runs, ProposeApproval(a, r, turn[r])
      PROVE  Verdict'
    BY <1>2 DEF ProposeApproval
<1>3. ASSUME NEW a \in Approvals, NEW r \in Runs,
             EventDispatched(r, turn[r], a) \/ EventToolStarted(r, turn[r], a)
      PROVE  Verdict'
    BY <1>3 DEF EventDispatched, EventToolStarted
<1>4. ASSUME NEW a \in Approvals, NEW v \in Verdicts, NEW seen, DecideApproval(a, v, seen)
      PROVE  Verdict'
    BY <1>4 DEF DecideApproval, Verdicts
<1>5. ASSUME NEW a \in Approvals, RevokeApproval(a)
      PROVE  Verdict'
    BY <1>5 DEF RevokeApproval
<1>6. ASSUME NEW S, S \subseteq Pending, NEW outcome \in {"expired", "revoked"},
             Settle(S, outcome), UNCHANGED <<consumed, started>>
      PROVE  Verdict'
    BY <1>6 DEF Settle
<1>7. CASE RecoverApprovals
    BY <1>7 DEF RecoverApprovals
<1>8. CASE (\E a \in Approvals : LazyExpire(a)) \/ SweepExpired
  <2>1. PICK S \in SUBSET Pending : Settle(S, "expired") /\ UNCHANGED <<consumed, started>>
      BY <1>8 DEF LazyExpire, SweepExpired, Expire
  <2>2. QED
      BY <2>1, <1>6
<1>9. CASE \E d \in Devices : (\E h \in BOOLEAN : Takeover(d, h)) \/ RevokeDevice(d)
    BY <1>9, <1>6 DEF Takeover, RevokeDevice
<1>10. CASE \E r \in Runs : RunTx(r)
    BY <1>1, <1>10 DEF RunTx, ClaimQueuedRun, StopTask, CancelBeforeSpawn, BeginTurn,
       MarkInterrupted, EventCompleted, EventTerminated, EventResumed
<1>11. CASE \E d \in Devices, seen \in 0..MaxGeneration :
              \/ TakeoverAck(d, seen) \/ PrivateBegin(d, seen) \/ PrivateEnd(d, seen)
              \/ ResumeLease(d, seen) \/ Heartbeat(d, seen)
    BY <1>1, <1>11 DEF TakeoverAck, PrivateBegin, PrivateEnd, ResumeLease, Heartbeat, HolderMoves
<1>12. CASE \/ AutoRelease \/ Crash \/ MarkInterruptedOnStartup \/ Clock
            \/ \E seen \in 0..MaxGeneration : RevokeLease(seen)
    BY <1>1, <1>12 DEF AutoRelease, Crash, MarkInterruptedOnStartup, Clock, DeadlinePasses,
       HeartbeatLapses, RevokeLease
<1>13. QED
    BY <1>2, <1>3, <1>4, <1>5, <1>7, <1>8, <1>9, <1>10, <1>11, <1>12
       DEF StoreNext, StoreTx, ApprovalTx, DeviceTx, ServiceTx

LEMMA LeaseStep ==
    ASSUME StoreInv, StoreNext
    PROVE  /\ LeaseConsistent'
           /\ lease'.gen >= lease.gen
           /\ \/ lease'.gen > lease.gen
              \/ <<lease'.state, lease'.holder, lease'.private>>
                  = <<lease.state, lease.holder, lease.private>>
<1> DEFINE Goal == /\ LeaseConsistent'
                   /\ lease'.gen >= lease.gen
                   /\ \/ lease'.gen > lease.gen
                      \/ <<lease'.state, lease'.holder, lease'.private>>
                          = <<lease.state, lease.holder, lease.private>>
<1> USE DEF StoreInv, LeaseConsistent
<1> lease.gen \in Nat /\ lease \in Lease
    BY StoreAssumption DEF StoreTypeOK, Lease
<1>1. CASE lease' = lease
    BY <1>1
<1>2. ASSUME lease' = Released(Current) \/ lease' = Released(lease) \/ lease' = Current
      PROVE  Goal
    BY <1>2 DEF Current, Released
<1>3. ASSUME NEW d \in Devices, NEW hold \in {lease, Current}, NEW private \in BOOLEAN,
             NEW to \in {"pausing", "human", "resuming"}, private => to = "human",
             lease' = HeldBy(d, hold, to, private)
      PROVE  Goal
    BY <1>3, StoreAssumption DEF Current, Released, HeldBy
<1>4. CASE \E r \in Runs : RunTx(r)
    BY <1>1, <1>2, <1>4 DEF RunTx, ClaimQueuedRun, StopTask, CancelBeforeSpawn, BeginTurn,
       MarkInterrupted, EventCompleted, EventTerminated, EventResumed
<1>5. CASE \E a \in Approvals : ApprovalTx(a)
    BY <1>1, <1>5 DEF ApprovalTx, ProposeApproval, EventDispatched, EventToolStarted,
       DecideApproval, LazyExpire, Expire, RevokeApproval
<1>6. ASSUME NEW d \in Devices, DeviceTx(d)
      PROVE  Goal
  <2>1. ASSUME NEW h \in BOOLEAN, Takeover(d, h)
        PROVE  Goal
      BY <2>1, <1>3 DEF Takeover
  <2>2. CASE RevokeDevice(d)
      BY <2>2, <1>1, <1>2 DEF RevokeDevice
  <2>3. ASSUME NEW seen, TakeoverAck(d, seen)
        PROVE  Goal
      BY <2>3, <1>3, CurrentType DEF TakeoverAck, HolderMoves
  <2>4. ASSUME NEW seen, PrivateBegin(d, seen) \/ PrivateEnd(d, seen) \/ ResumeLease(d, seen)
        PROVE  Goal
      BY <2>4, <1>3 DEF PrivateBegin, PrivateEnd, ResumeLease, HolderMoves
  <2>5. ASSUME NEW seen, Heartbeat(d, seen)
        PROVE  Goal
      BY <2>5, <1>1 DEF Heartbeat
  <2>6. QED
      BY <1>6, <2>1, <2>2, <2>3, <2>4, <2>5 DEF DeviceTx
<1>7. CASE ServiceTx \/ Crash \/ MarkInterruptedOnStartup \/ RecoverApprovals
    BY <1>1, <1>2, <1>7 DEF ServiceTx, SweepExpired, Expire, AutoRelease, RevokeLease, Crash,
       MarkInterruptedOnStartup, RecoverApprovals
<1>8. CASE Clock
    BY <1>1, <1>8 DEF Clock, DeadlinePasses, HeartbeatLapses, Lease
<1>9. QED
    BY <1>4, <1>5, <1>6, <1>7, <1>8 DEF StoreNext, StoreTx

LEMMA StoreInvInit == StoreInit => StoreInv
<1> SUFFICES ASSUME StoreInit PROVE StoreInv
    OBVIOUS
<1>1. Pending = {}
    BY DEF StoreInit, Pending
<1>2. StoreTypeOK
    BY <1>1, StoreAssumption DEF StoreInit, StoreTypeOK, RunStatus, ApprovalRow, Binding,
       Lease, LeaseStates
<1>3. QED
    BY <1>1, <1>2 DEF StoreInit, StoreInv, Surface, BoundToRun, OnePendingPerRun,
       PendingParksRun, PendingIsOfThisEpoch, PendingUnderCurrentGrant, Verdict,
       StepMatchesVerdict, StartedWasClaimed, LeaseConsistent

LEMMA StoreInvStep == StoreInv /\ [StoreNext]_storeVars => StoreInv'
<1> SUFFICES ASSUME StoreInv, [StoreNext]_storeVars
             PROVE  StoreInv'
    OBVIOUS
<1>1. CASE UNCHANGED storeVars
    BY <1>1 DEF storeVars, runVars, rowVars, StoreInv, StoreTypeOK, Pending, Surface,
       BoundToRun, OnePendingPerRun, PendingParksRun, PendingIsOfThisEpoch,
       PendingUnderCurrentGrant, Verdict, StepMatchesVerdict, StartedWasClaimed,
       LeaseConsistent
<1>2. CASE StoreNext
  <2>1. StoreTypeOK'
      BY <1>2, RunTxType, ApprovalTxType, DeviceTxType, ServiceStepType
         DEF StoreInv, StoreNext, StoreTx
  <2>2. Surface'
      BY <1>2, RunTxSurface, ApprovalTxSurface, DeviceTxSurface, ServiceStepSurface
         DEF StoreNext, StoreTx
  <2>3. QED
      BY <1>2, <2>1, <2>2, VerdictStep, LeaseStep DEF StoreInv
<1>3. QED
    BY <1>1, <1>2

\* The inductive invariant holds in every reachable state.
THEOREM StoreInvariant == StoreSpec => []StoreInv
    BY StoreInvInit, StoreInvStep, PTL DEF StoreSpec

\* No undecided approval survives a change of hands, however takeovers,
\* revocations, expiries, verdicts and restarts interleave.
THEOREM NoStaleProposal == StoreSpec => [](PendingIsOfThisEpoch /\ PendingUnderCurrentGrant)
<1>1. StoreInv => PendingIsOfThisEpoch /\ PendingUnderCurrentGrant
    BY DEF StoreInv, Surface
<1>2. QED
    BY <1>1, StoreInvariant, PTL

\* A run waits for one verdict at a time and is parked while it waits.
THEOREM WaitingIsExclusive == StoreSpec => [](OnePendingPerRun /\ PendingParksRun)
<1>1. StoreInv => OnePendingPerRun /\ PendingParksRun
    BY DEF StoreInv, Surface
<1>2. QED
    BY <1>1, StoreInvariant, PTL

\* What the conversation shows of an approval is what the row says.
THEOREM StepsTellTheTruth == StoreSpec => [](StepMatchesVerdict /\ StartedWasClaimed)
<1>1. StoreInv => StepMatchesVerdict /\ StartedWasClaimed
    BY DEF StoreInv, Verdict
<1>2. QED
    BY <1>1, StoreInvariant, PTL

\* The lease generation is a fence: monotonic, and moved by every change of
\* holder, state or privacy.
THEOREM FenceHolds == StoreSpec => GenerationFences /\ []LeaseConsistent
<1> DEFINE A == /\ lease'.gen >= lease.gen
                /\ <<lease'.state, lease'.holder, lease'.private>>
                     # <<lease.state, lease.holder, lease.private>> => lease'.gen > lease.gen
<1>1. StoreInv /\ [StoreNext]_storeVars => [A]_storeVars
    BY LeaseStep
<1>2. StoreInv => LeaseConsistent
    BY DEF StoreInv
<1>3. QED
    BY <1>1, <1>2, StoreInvariant, PTL DEF StoreSpec, GenerationFences

-----------------------------------------------------------------------------
(* Action properties and refinement                                        *)

\* What a step can do to the rows of the approvals table.
LEMMA RowStep ==
    ASSUME StoreInv, StoreNext
    PROVE  \A a \in Approvals :
             /\ state[a] \in {"denied", "expired", "revoked"} => state'[a] = state[a]
             /\ state[a] = "approved" => state'[a] \in {"approved", "revoked"}
             /\ a \in consumed => a \in consumed'
             /\ a \in consumed' \ consumed => state[a] = "approved"
<1> USE DEF StoreInv, StoreTypeOK, Pending, rowVars
<1>1. CASE UNCHANGED <<state, consumed>>
    BY <1>1
<1>2. ASSUME NEW b \in Approvals,
             \/ state[b] \in {"absent", "pending"}
             \/ state'[b] = state[b]
             \/ state[b] = "approved" /\ state'[b] = "revoked",
             \A a \in Approvals : a # b => state'[a] = state[a],
             \/ consumed' = consumed
             \/ consumed' = consumed \cup {b} /\ state[b] = "approved"
      PROVE  \A a \in Approvals :
             /\ state[a] \in {"denied", "expired", "revoked"} => state'[a] = state[a]
             /\ state[a] = "approved" => state'[a] \in {"approved", "revoked"}
             /\ a \in consumed => a \in consumed'
             /\ a \in consumed' \ consumed => state[a] = "approved"
    BY <1>2
<1>3. CASE \E a \in Approvals : ApprovalTx(a)
  <2> PICK b \in Approvals : ApprovalTx(b)
      BY <1>3
  <2>1. CASE LazyExpire(b)
      BY <2>1, <1>2 DEF LazyExpire, Expire, Settle
  <2>2. CASE \E r \in Runs : ProposeApproval(b, r, turn[r])
      BY <2>2, <1>2 DEF ProposeApproval
  <2>3. CASE \E r \in Runs : EventDispatched(r, turn[r], b) \/ EventToolStarted(r, turn[r], b)
      BY <2>3, <1>2 DEF EventDispatched, EventToolStarted
  <2>4. CASE \E v \in Verdicts, seen \in 0..MaxGeneration : DecideApproval(b, v, seen)
      BY <2>4, <1>2 DEF DecideApproval
  <2>5. CASE RevokeApproval(b)
      BY <2>5, <1>2 DEF RevokeApproval
  <2>6. QED
      BY <2>1, <2>2, <2>3, <2>4, <2>5 DEF ApprovalTx
<1>4. ASSUME \A a \in Approvals : a \notin Pending => state'[a] = state[a],
             consumed' = consumed
      PROVE  \A a \in Approvals :
             /\ state[a] \in {"denied", "expired", "revoked"} => state'[a] = state[a]
             /\ state[a] = "approved" => state'[a] \in {"approved", "revoked"}
             /\ a \in consumed => a \in consumed'
             /\ a \in consumed' \ consumed => state[a] = "approved"
    BY <1>4
<1>5. CASE \/ \E d \in Devices : (\E h \in BOOLEAN : Takeover(d, h)) \/ RevokeDevice(d)
           \/ SweepExpired \/ RecoverApprovals
  <2>1. CASE \E d \in Devices, h \in BOOLEAN : Takeover(d, h)
      BY <1>4, <2>1 DEF Takeover, Settle
  <2>2. CASE \E d \in Devices : RevokeDevice(d)
      BY <1>4, <2>2 DEF RevokeDevice, Settle
  <2>3. CASE SweepExpired
      BY <1>4, <2>3 DEF SweepExpired, Expire, Settle
  <2>4. CASE RecoverApprovals
      BY <1>4, <2>4 DEF RecoverApprovals
  <2>5. QED
      BY <1>5, <2>1, <2>2, <2>3, <2>4
<1>6. CASE \E r \in Runs : RunTx(r)
    BY <1>1, <1>6 DEF RunTx, ClaimQueuedRun, StopTask, CancelBeforeSpawn, BeginTurn,
       MarkInterrupted, EventCompleted, EventTerminated, EventResumed
<1>7. CASE \E d \in Devices, seen \in 0..MaxGeneration :
              \/ TakeoverAck(d, seen) \/ PrivateBegin(d, seen) \/ PrivateEnd(d, seen)
              \/ ResumeLease(d, seen) \/ Heartbeat(d, seen)
    BY <1>1, <1>7 DEF TakeoverAck, PrivateBegin, PrivateEnd, ResumeLease, Heartbeat, HolderMoves
<1>8. CASE \/ AutoRelease \/ Crash \/ MarkInterruptedOnStartup \/ Clock
            \/ \E seen \in 0..MaxGeneration : RevokeLease(seen)
    BY <1>1, <1>8 DEF AutoRelease, Crash, MarkInterruptedOnStartup, Clock, DeadlinePasses,
       HeartbeatLapses, RevokeLease
<1>9. QED
    BY <1>3, <1>5, <1>6, <1>7, <1>8 DEF StoreNext, StoreTx, DeviceTx, ServiceTx

\* A verdict is final and a ticket is claimed once, from a grant.
THEOREM VerdictsAreFinal == StoreSpec => VerdictIsFinal
<1> DEFINE A == \A a \in Approvals :
                  /\ state[a] \in {"denied", "expired", "revoked"} => state'[a] = state[a]
                  /\ state[a] = "approved" => state'[a] \in {"approved", "revoked"}
                  /\ a \in consumed => a \in consumed'
                  /\ a \in consumed' \ consumed => state[a] = "approved"
<1>1. StoreInv /\ [StoreNext]_storeVars => [A]_storeVars
    BY RowStep
<1>2. QED
    BY <1>1, StoreInvariant, PTL DEF StoreSpec, VerdictIsFinal

\* What a step can do to a run that has finished.
LEMMA FinishedStep ==
    ASSUME StoreInv, StoreNext
    PROVE  \A r \in Runs :
             /\ run[r] \in {"completed", "cancelled"} => run'[r] \in {run[r], "failed"}
             /\ run[r] \in {"failed", "interrupted"} => run'[r] \in {"failed", "interrupted"}
<1> DEFINE A == \A r \in Runs :
                  /\ run[r] \in {"completed", "cancelled"} => run'[r] \in {run[r], "failed"}
                  /\ run[r] \in {"failed", "interrupted"} => run'[r] \in {"failed", "interrupted"}
<1> USE DEF StoreInv, StoreTypeOK, runVars, TerminalRun
<1>1. CASE run' = run
    BY <1>1
<1>2. ASSUME NEW s \in Runs, RunTx(s)
      PROVE  A
  <2>1. \A r \in Runs : r # s => run'[r] = run[r]
      BY <1>2 DEF RunTx, ClaimQueuedRun, StopTask, CancelBeforeSpawn, BeginTurn,
         MarkInterrupted, EventCompleted, EventTerminated, EventResumed, Interrupt
  <2>2. CASE \E ok \in BOOLEAN : EventTerminated(s, turn[s], ok)
      BY <2>1, <2>2 DEF EventTerminated, AcceptsEvents
  <2>3. CASE MarkInterrupted(s)
      BY <2>1, <2>3 DEF MarkInterrupted
  <2>4. CASE \/ ClaimQueuedRun(s) \/ CancelBeforeSpawn(s) \/ BeginTurn(s)
             \/ EventCompleted(s, turn[s]) \/ EventResumed(s, turn[s])
             \/ \E held \in Runs \cup {NoRun} : StopTask(s, held)
      BY <2>1, <2>4 DEF ClaimQueuedRun, StopTask, CancelBeforeSpawn, BeginTurn,
         EventCompleted, EventResumed, AcceptsEvents
  <2>5. QED
      BY <1>2, <2>2, <2>3, <2>4 DEF RunTx
<1>3. ASSUME \A r \in Runs : \/ run'[r] = run[r]
                             \/ /\ run'[r] = "interrupted"
                                /\ \E a \in Pending : bound[a].run = r
      PROVE  A
    BY <1>3 DEF Surface, PendingParksRun
<1>4. ASSUME NEW a \in Approvals, ApprovalTx(a)
      PROVE  A
  <2>1. CASE LazyExpire(a)
      BY <2>1, <1>3 DEF LazyExpire, Expire, Interrupt, RunsOf
  <2>2. CASE \E r \in Runs : ProposeApproval(a, r, turn[r])
      BY <2>2 DEF ProposeApproval
  <2>3. CASE \E v \in Verdicts, seen \in 0..MaxGeneration : DecideApproval(a, v, seen)
      BY <2>3 DEF DecideApproval
  <2>4. CASE run' = run
      BY <2>4
  <2>5. QED
      BY <1>4, <2>1, <2>2, <2>3, <2>4 DEF ApprovalTx, EventDispatched, EventToolStarted,
         RevokeApproval
<1>5. CASE MarkInterruptedOnStartup
    BY <1>5 DEF MarkInterruptedOnStartup, Interrupt, ActiveRun
<1>6. CASE SweepExpired
    BY <1>6, <1>3 DEF SweepExpired, Expire, Interrupt, RunsOf
<1>7. CASE RecoverApprovals
    BY <1>7, <1>3 DEF RecoverApprovals, Interrupt, RunsOf
<1>8. CASE \E d \in Devices : DeviceTx(d)
    BY <1>1, <1>8 DEF DeviceTx, Takeover, RevokeDevice, TakeoverAck, PrivateBegin, PrivateEnd,
       ResumeLease, Heartbeat, HolderMoves
<1>9. CASE \/ AutoRelease \/ Crash \/ Clock
           \/ \E seen \in 0..MaxGeneration : RevokeLease(seen)
    BY <1>1, <1>9 DEF AutoRelease, Crash, Clock, DeadlinePasses, HeartbeatLapses, RevokeLease
<1>10. QED
    BY <1>2, <1>4, <1>5, <1>6, <1>7, <1>8, <1>9 DEF StoreNext, StoreTx, ServiceTx

\* No late answer, event, expiry or restart revives a finished run.
THEOREM RunsStayFinished == StoreSpec => FinishedStaysFinished
<1> DEFINE A == \A r \in Runs :
                  /\ run[r] \in {"completed", "cancelled"} => run'[r] \in {run[r], "failed"}
                  /\ run[r] \in {"failed", "interrupted"} => run'[r] \in {"failed", "interrupted"}
<1>1. StoreInv /\ [StoreNext]_storeVars => [A]_storeVars
    BY FinishedStep
<1>2. QED
    BY <1>1, StoreInvariant, PTL DEF StoreSpec, FinishedStaysFinished

\* Every step of the store is a step of the contract or invisible to it.
LEMMA ContractStep ==
    ASSUME StoreInv, StoreNext
    PROVE  Contract!ContractNext \/ UNCHANGED Contract!contractVars
<1> DEFINE Goal == Contract!ContractNext \/ UNCHANGED Contract!contractVars
<1> USE DEF StoreInv, StoreTypeOK, Pending, Phase, rowVars
<1>1. CASE UNCHANGED <<state, consumed, bound, epoch>>
    BY <1>1 DEF Contract!contractVars
<1>2. ASSUME NEW a \in Approvals, NEW r \in Runs, ProposeApproval(a, r, turn[r])
      PROVE  Goal
  <2>1. a \notin consumed
      BY <1>2 DEF ProposeApproval, Verdict, StartedWasClaimed
  <2>2. Contract!Open(a)
      BY <1>2, <2>1 DEF ProposeApproval, Contract!Open, Contract!Move
  <2>3. QED
      BY <2>2 DEF Contract!ContractNext
<1>3. ASSUME NEW a \in Approvals, NEW r \in Runs, EventDispatched(r, turn[r], a)
      PROVE  Goal
  <2>1. Contract!Use(a)
      BY <1>3 DEF EventDispatched, Contract!Use, Contract!Move
  <2>2. QED
      BY <2>1 DEF Contract!ContractNext
<1>4. ASSUME NEW S \in SUBSET Pending, NEW outcome \in {"denied", "expired", "revoked"},
             state' = [a \in Approvals |-> IF a \in S THEN outcome ELSE state[a]],
             UNCHANGED <<consumed, bound>>
      PROVE  /\ Contract!Move(S, "closed")
             /\ \A a \in S : Phase(a) = "open"
  <2>1. \A a \in S : a \notin consumed
      BY DEF Verdict, StartedWasClaimed
  <2>2. QED
      BY <1>4, <2>1 DEF Contract!Move
<1>5. ASSUME NEW a \in Approvals, NEW v \in Verdicts, NEW seen, DecideApproval(a, v, seen)
      PROVE  Goal
  <2>1. CASE v = "approved"
    <3>1. a \notin consumed /\ bound[a].epoch = epoch
        BY <1>5 DEF DecideApproval, Verdict, StartedWasClaimed, Surface, PendingIsOfThisEpoch
    <3>2. Contract!Grant(a)
        BY <1>5, <2>1, <3>1 DEF DecideApproval, Contract!Grant, Contract!Move
    <3>3. QED
        BY <3>2 DEF Contract!ContractNext
  <2>2. CASE v = "denied"
    <3>1. state' = [b \in Approvals |-> IF b \in {a} THEN "denied" ELSE state[b]]
        BY <1>5, <2>2 DEF DecideApproval
    <3>2. {a} \in SUBSET Pending /\ UNCHANGED <<consumed, bound, epoch>>
        BY <1>5 DEF DecideApproval
    <3>3. Contract!Move({a}, "closed") /\ Phase(a) = "open"
        BY <1>4, <3>1, <3>2
    <3>4. Contract!Close({a})
        BY <3>2, <3>3 DEF Contract!Close
    <3>5. QED
        BY <3>4 DEF Contract!ContractNext
  <2>3. QED
      BY <2>1, <2>2 DEF Verdicts
<1>6. ASSUME NEW S \in SUBSET Pending, Expire(S)
      PROVE  Goal
  <2>1. Contract!Close(S)
      BY <1>6, <1>4 DEF Expire, Settle, Contract!Close
  <2>2. QED
      BY <2>1 DEF Contract!ContractNext
<1>7. ASSUME NEW a \in Approvals, RevokeApproval(a)
      PROVE  Goal
  <2>1. CASE a \in Pending
    <3>1. Contract!Close({a})
        BY <1>7, <1>4, <2>1 DEF RevokeApproval, Contract!Close
    <3>2. QED
        BY <3>1 DEF Contract!ContractNext
  <2>2. CASE state[a] = "approved" /\ a \notin consumed
    <3>1. Contract!TakeBack(a)
        BY <1>7, <2>2 DEF RevokeApproval, Contract!TakeBack, Contract!Move
    <3>2. QED
        BY <3>1 DEF Contract!ContractNext
  <2>3. CASE state[a] = "approved" /\ a \in consumed
      BY <1>7, <2>3 DEF RevokeApproval, Contract!contractVars
  <2>4. QED
      BY <1>7, <2>1, <2>2, <2>3 DEF RevokeApproval
<1>8. ASSUME \A a \in Pending : state'[a] \in {"expired", "revoked"},
             \A a \in Approvals \ Pending : state'[a] = state[a],
             UNCHANGED <<consumed, bound>>, epoch' = epoch + 1
      PROVE  Goal
  <2>1. \A a \in Pending : a \notin consumed
      BY DEF Verdict, StartedWasClaimed
  <2>2. \A a \in Approvals : Phase(a) = "open" <=> a \in Pending
      BY <2>1 DEF ApprovalRow
  <2>3. \A a \in Approvals : Phase(a)' = IF a \in Pending THEN "closed" ELSE Phase(a)
      BY <1>8, <2>1
  <2>4. Contract!Seize
      BY <1>8, <2>2, <2>3 DEF Contract!Seize, Contract!Move
  <2>5. QED
      BY <2>4 DEF Contract!ContractNext
<1>9. CASE \E d \in Devices : (\E h \in BOOLEAN : Takeover(d, h)) \/ RevokeDevice(d)
    BY <1>9, <1>8 DEF Takeover, RevokeDevice, Settle
<1>10. CASE \E seen \in 0..MaxGeneration : RevokeLease(seen)
    BY <1>10, <1>8 DEF RevokeLease
<1>11. CASE RecoverApprovals
    BY <1>11, <1>8 DEF RecoverApprovals
<1>12. CASE \E r \in Runs : RunTx(r)
    BY <1>1, <1>12 DEF RunTx, ClaimQueuedRun, StopTask, CancelBeforeSpawn, BeginTurn,
       MarkInterrupted, EventCompleted, EventTerminated, EventResumed
<1>13. CASE \E d \in Devices, seen \in 0..MaxGeneration :
              \/ TakeoverAck(d, seen) \/ PrivateBegin(d, seen) \/ PrivateEnd(d, seen)
              \/ ResumeLease(d, seen) \/ Heartbeat(d, seen)
    BY <1>1, <1>13 DEF TakeoverAck, PrivateBegin, PrivateEnd, ResumeLease, Heartbeat, HolderMoves
<1>14. CASE AutoRelease \/ Crash \/ MarkInterruptedOnStartup \/ Clock
    BY <1>1, <1>14 DEF AutoRelease, Crash, MarkInterruptedOnStartup, Clock, DeadlinePasses,
       HeartbeatLapses
<1>15. CASE \E a \in Approvals, r \in Runs : EventToolStarted(r, turn[r], a)
    BY <1>1, <1>15 DEF EventToolStarted
<1>16. CASE (\E a \in Approvals : LazyExpire(a)) \/ SweepExpired
    BY <1>16, <1>6 DEF LazyExpire, SweepExpired
<1>17. QED
    BY <1>2, <1>3, <1>5, <1>7, <1>9, <1>10, <1>11, <1>12, <1>13, <1>14, <1>15, <1>16
       DEF StoreNext, StoreTx, ApprovalTx, DeviceTx, ServiceTx

\* The tables implement the contract of the approval path.
THEOREM StoreImplementsContract == StoreSpec => ImplementsContract
<1>1. StoreInit => Contract!ContractInit
    BY DEF StoreInit, Contract!ContractInit, Phase
<1>2. StoreInv /\ [StoreNext]_storeVars => [Contract!ContractNext]_(Contract!contractVars)
  <2>1. CASE UNCHANGED storeVars
      BY <2>1 DEF storeVars, runVars, rowVars, Contract!contractVars, Phase
  <2>2. QED
      BY <2>1, ContractStep
<1>3. QED
    BY <1>1, <1>2, StoreInvariant, PTL DEF StoreSpec, ImplementsContract, Contract!ContractSpec

-----------------------------------------------------------------------------
(* The shape of a turn: which stage has registered what.                   *)

TurnShape ==
    /\ At("idle") <=> pump.run = NoRun
    /\ At("blocked") <=> asked # NoApproval
    /\ pump.pc \in {"idle", "claimed", "reap"} => active.run = NoRun
    /\ pump.pc \in {"setup", "begin", "spawn", "handshake", "live", "blocked"} =>
          active.run = pump.run
    /\ active.run \in {NoRun, pump.run}
    /\ pump.pc \in {"setup", "begin", "spawn", "handshake"} => ~active.started
    /\ pump.pc \in {"live", "blocked"} => active.started
    /\ worker.alive => pump.pc \in {"handshake", "live", "blocked", "teardown", "reap"}
    /\ \A d \in Devices : http[d].op = "stop" => http[d].run # NoRun

SupBase == StoreInv /\ SupTypeOK /\ TurnShape

LEMMA Driven ==
    ASSUME SupBase, ~At("idle")
    PROVE  pump.run \in Runs
    BY DEF SupBase, SupTypeOK, TurnShape

LEMMA InterruptIsStoreStep ==
    ASSUME NEW r \in Runs, InterruptUnlessDone(r), Serve(TRUE)
    PROVE  [StoreNext]_storeVars
<1>1. CASE run[r] \in TerminalRun
    BY <1>1 DEF InterruptUnlessDone, Serve, storeVars
<1>2. CASE run[r] \notin TerminalRun
    BY <1>2 DEF InterruptUnlessDone, Serve, StoreNext, StoreTx, RunTx
<1> QED BY <1>1, <1>2

LEMMA PumpUsesStore ==
    ASSUME SupBase, Serve(PumpStep) \/ Serve(TurnStep)
    PROVE  [StoreNext]_storeVars
<1> USE DEF Serve
<1>0. service = "up" /\ UNCHANGED service /\ Serve(TRUE)
    OBVIOUS
<1>1. ASSUME NEW r \in Runs, PumpClaim(r)
      PROVE  [StoreNext]_storeVars
    BY <1>0, <1>1 DEF PumpClaim, StoreNext, StoreTx, RunTx
<1>2. CASE PumpPrecheckFails \/ RegisterTurn \/ SpawnFails \/ SpawnWorker \/ HandshakeFails
           \/ StartTurn \/ TransportEnds \/ DeliverDecision \/ Teardown \/ ReapChild \/ ClearTurn
    BY <1>2 DEF PumpPrecheckFails, RegisterTurn, SpawnFails, SpawnWorker, HandshakeFails,
       StartTurn, TransportEnds, DeliverDecision, Teardown, ReapChild, ClearTurn
<1>3. CASE SetupFails \/ BeginRefused \/ InterruptFailedTurn
  <2>1. pump.run \in Runs /\ InterruptUnlessDone(pump.run)
      BY <1>3, Driven DEF SetupFails, BeginRefused, InterruptFailedTurn, At
  <2> QED BY <1>0, <2>1, InterruptIsStoreStep
<1>4. CASE CheckStop
  <2>1. pump.run \in Runs
      BY <1>4, Driven DEF CheckStop, At
  <2>2. CancelBeforeSpawn(pump.run) \/ UNCHANGED <<runVars, rowVars, lease, grant, epoch>>
      BY <1>4 DEF CheckStop
  <2> QED BY <1>0, <2>1, <2>2 DEF storeVars, StoreNext, StoreTx, RunTx
<1>5. CASE Begin
  <2>1. pump.run \in Runs /\ BeginTurn(pump.run)
      BY <1>5, Driven DEF Begin, At
  <2> QED BY <1>0, <2>1 DEF StoreNext, StoreTx, RunTx
<1> QED
    BY <1>1, <1>2, <1>3, <1>4, <1>5 DEF PumpStep, TurnStep

LEMMA FramesUseStore ==
    ASSUME SupBase, Serve(FrameStep)
    PROVE  [StoreNext]_storeVars
<1>0. service = "up" /\ UNCHANGED service /\ FrameStep
    BY DEF Serve
<1>1. CASE FrameRejected \/ WorkerExits
    BY <1>1 DEF FrameRejected, WorkerExits
<1>2. CASE At("live") /\ ~(FrameRejected \/ WorkerExits)
  <2>1. pump.run \in Runs
      BY <1>2, Driven DEF At
  <2>2. \/ EventResumed(pump.run, turn[pump.run])
        \/ EventCompleted(pump.run, turn[pump.run])
        \/ \E ok \in BOOLEAN : EventTerminated(pump.run, turn[pump.run], ok)
        \/ \E a \in Approvals : \/ EventDispatched(pump.run, turn[pump.run], a)
                                \/ EventToolStarted(pump.run, turn[pump.run], a)
                                \/ ProposeApproval(a, pump.run, turn[pump.run])
      BY <1>0, <1>2 DEF FrameStep, Observe, CompleteRun, Dispatch, StartGatedStep, AskApproval,
         TerminateRun
  <2> QED BY <1>0, <2>1, <2>2 DEF StoreNext, StoreTx, RunTx, ApprovalTx
<1> QED
    BY <1>0, <1>1, <1>2 DEF FrameStep, Observe, CompleteRun, Dispatch, StartGatedStep,
       AskApproval, TerminateRun, Live

LEMMA SweeperUsesStore ==
    ASSUME Serve(SweeperStep)
    PROVE  [StoreNext]_storeVars
<1>0. service = "up" /\ UNCHANGED service /\ SweeperStep
    BY DEF Serve
<1>1. SweepExpired \/ AutoRelease \/ UNCHANGED storeVars
    BY <1>0 DEF SweeperStep, SweepTx, SweepWake, MaintainLease
<1> QED
    BY <1>0, <1>1 DEF StoreNext, StoreTx, ServiceTx

LEMMA RequestsUseStore ==
    ASSUME NEW d \in Devices, Serve(Requests(d))
    PROVE  [StoreNext]_storeVars
<1>0. service = "up" /\ UNCHANGED service /\ Requests(d)
    BY DEF Serve
<1>1. \/ UNCHANGED storeVars
      \/ SweepExpired
      \/ \E r \in Runs : StopTask(r, NoRun)
      \/ \E a \in Approvals : ApprovalTx(a)
      \/ MoveLease(d)
  <2>1. CASE ReadApprovals(d)
      BY <2>1 DEF ReadApprovals, ApprovalTx
  <2>2. ASSUME NEW a \in Approvals, NEW v \in Verdicts, NEW seen \in 0..MaxGeneration,
               Decide(d, a, v, seen)
        PROVE  ApprovalTx(a)
      BY <2>2 DEF Decide, ApprovalTx
  <2>3. ASSUME NEW a \in Approvals, DecideTooLate(d, a) \/ Revoke(d, a)
        PROVE  ApprovalTx(a)
      BY <2>3 DEF DecideTooLate, Revoke, ApprovalTx
  <2> QED BY <1>0, <2>1, <2>2, <2>3 DEF Requests, RequestStep, ReadActive, StopQueued
<1>2. CASE MoveLease(d)
    BY <1>0, <1>2 DEF MoveLease, StoreNext, StoreTx, DeviceTx
<1>3. ASSUME NEW r \in Runs, StopTask(r, NoRun)
      PROVE  [StoreNext]_storeVars
    BY <1>0, <1>3 DEF StoreNext, StoreTx, RunTx
<1> QED
    BY <1>0, <1>1, <1>2, <1>3 DEF StoreNext, StoreTx, ServiceTx

LEMMA HandlersUseStore ==
    ASSUME SupBase, NEW d \in Devices, Serve(HandlerStep(d))
    PROVE  [StoreNext]_storeVars
<1>0. service = "up" /\ UNCHANGED service /\ HandlerStep(d)
    BY DEF Serve
<1>1. CASE TakeoverCommits(d)
  <2>1. (http[d].run # NoRun) \in BOOLEAN
      OBVIOUS
  <2> QED BY <1>0, <1>1, <2>1 DEF TakeoverCommits, StoreNext, StoreTx, DeviceTx
<1>2. CASE StopCommits(d)
  <2>1. http[d].run \in Runs
      BY <1>2 DEF StopCommits, SupBase, SupTypeOK, TurnShape
  <2>2. StopTask(http[d].run, http[d].run) \/ UNCHANGED <<runVars, rowVars, lease, grant, epoch>>
      BY <1>2 DEF StopCommits, Refused
  <2> QED BY <1>0, <2>1, <2>2 DEF storeVars, StoreNext, StoreTx, RunTx
<1>3. ASSUME NEW target \in Devices, RevokeDeviceCommits(d, target)
      PROVE  [StoreNext]_storeVars
    BY <1>0, <1>3 DEF RevokeDeviceCommits, StoreNext, StoreTx, DeviceTx
<1>4. CASE RevokeLeaseCommits(d)
  <2>1. \/ \E seen \in 0..MaxGeneration : RevokeLease(seen)
        \/ UNCHANGED <<runVars, rowVars, lease, grant, epoch>>
      BY <1>4 DEF RevokeLeaseCommits, Refused
  <2> QED BY <1>0, <2>1 DEF storeVars, StoreNext, StoreTx, ServiceTx
<1>5. CASE HttpCancel(d) \/ (\E a \in Approvals : HttpWake(d, a)) \/ HttpReply(d)
    BY <1>5 DEF HttpCancel, HttpWake, HttpReply
<1> QED
    BY <1>0, <1>1, <1>2, <1>3, <1>4, <1>5 DEF HandlerStep

\* Whatever the service does is a transaction of the store, or invisible to it.
LEMMA SupUsesStore ==
    ASSUME SupBase, SupNext
    PROVE  [StoreNext]_storeVars
<1>1. CASE Restart
    BY <1>1 DEF Restart, CrashService, StoreNext
<1>2. CASE Clock /\ UNCHANGED supVars
    BY <1>2 DEF StoreNext
<1> QED
    BY <1>1, <1>2, PumpUsesStore, FramesUseStore, SweeperUsesStore, RequestsUseStore,
       HandlersUseStore DEF SupNext, HeardNext, Requests, Serve

PumpType == [pc: PumpStages, run: Runs \cup {NoRun}, failed: BOOLEAN, observe: BOOLEAN]

LEMMA PumpMoves ==
    ASSUME SupBase
    PROVE  /\ pump \in PumpType
           /\ \A pc \in PumpStages : Goto(pc) =>
                 /\ pump' \in PumpType /\ pump'.pc = pc
                 /\ pump'.run = pump.run /\ pump'.failed = pump.failed
           /\ \A failed \in BOOLEAN : EndTurn(failed) =>
                 /\ pump' \in PumpType /\ pump'.pc = "teardown"
                 /\ pump'.run = pump.run /\ pump'.failed = failed
           /\ pump' = IdlePump =>
                 pump' \in PumpType /\ pump'.pc = "idle" /\ pump'.run = NoRun
<1>1. pump \in PumpType
    BY DEF SupBase, SupTypeOK, PumpType
<1>2. ASSUME NEW pc \in PumpStages, Goto(pc)
      PROVE  /\ pump' \in PumpType /\ pump'.pc = pc
             /\ pump'.run = pump.run /\ pump'.failed = pump.failed
    BY <1>1, <1>2 DEF Goto, PumpType
<1>3. "teardown" \in PumpStages /\ "idle" \in PumpStages
    BY DEF PumpStages
<1>4. ASSUME NEW failed \in BOOLEAN, EndTurn(failed)
      PROVE  /\ pump' \in PumpType /\ pump'.pc = "teardown"
             /\ pump'.run = pump.run /\ pump'.failed = failed
    BY <1>1, <1>3, <1>4 DEF EndTurn, PumpType
<1>5. ASSUME pump' = IdlePump
      PROVE  pump' \in PumpType /\ pump'.pc = "idle" /\ pump'.run = NoRun
    BY <1>3, <1>5 DEF IdlePump, PumpType
<1> QED
    BY <1>1, <1>2, <1>4, <1>5

LEMMA PumpShape ==
    ASSUME SupBase, PumpStep \/ TurnStep
    PROVE  SupTypeOK' /\ TurnShape'
<1> USE SupervisorAssumption, StoreAssumption, PumpMoves
    DEF SupBase, SupTypeOK, TurnShape, At, PumpStages, PumpType, Outcomes
<1>1. ASSUME NEW r \in Runs, PumpClaim(r)
      PROVE  SupTypeOK' /\ TurnShape'
    BY <1>1 DEF PumpClaim, IdlePump
<1>2. CASE PumpPrecheckFails
    BY <1>2 DEF PumpPrecheckFails
<1>3. CASE RegisterTurn
    BY <1>3 DEF RegisterTurn, NoTurn
<1>4. CASE SetupFails \/ CheckStop \/ BeginRefused \/ InterruptFailedTurn
    BY <1>4 DEF SetupFails, CheckStop, BeginRefused, InterruptFailedTurn
<1>5. CASE Begin
    BY <1>5 DEF Begin
<1>6. CASE SpawnFails
    BY <1>6 DEF SpawnFails
<1>14. CASE HandshakeFails
    BY <1>14 DEF HandshakeFails
<1>7. CASE SpawnWorker
    BY <1>7 DEF SpawnWorker, NoWorker
<1>8. CASE StartTurn
    BY <1>8 DEF StartTurn
<1>9. CASE TransportEnds
    BY <1>9 DEF TransportEnds
<1>10. CASE Teardown
    BY <1>10 DEF Teardown, NoTurn
<1>11. CASE DeliverDecision
  <2>1. asked' = NoApproval /\ waiter' = [waiter EXCEPT ![asked] = "none"]
        /\ UNCHANGED <<active, http, sweep>>
      BY <1>11 DEF DeliverDecision
  <2>2. asked \in Approvals /\ pump.run \in Runs
      BY <1>11 DEF DeliverDecision
  <2>3. worker' \in [alive: BOOLEAN, told: BOOLEAN, tickets: SUBSET Approvals]
        /\ worker'.alive = worker.alive
    <3> DEFINE W == [worker EXCEPT !.tickets = @ \cup {asked}]
    <3>1. W \in [alive: BOOLEAN, told: BOOLEAN, tickets: SUBSET Approvals] /\ W.alive = worker.alive
        BY <2>2
    <3>2. worker' = W \/ worker' = worker
        BY <1>11 DEF DeliverDecision
    <3> HIDE DEF W
    <3> QED BY <3>1, <3>2
  <2>4. pump' \in PumpType /\ pump'.run = pump.run /\ pump'.pc \in {"live", "teardown"}
      BY <1>11 DEF DeliverDecision
  <2>5. SupTypeOK'
      BY <2>1, <2>2, <2>3, <2>4
  <2>6. TurnShape'
      BY <1>11, <2>1, <2>2, <2>3, <2>4 DEF DeliverDecision
  <2> QED BY <2>5, <2>6
<1>12. CASE ReapChild
    BY <1>12 DEF ReapChild, NoWorker
<1>13. CASE ClearTurn
    BY <1>13 DEF ClearTurn, NoTurn
<1> QED
    BY <1>1, <1>2, <1>3, <1>4, <1>5, <1>6, <1>7, <1>8, <1>9, <1>10, <1>11, <1>12, <1>13,
       <1>14 DEF PumpStep, TurnStep

LEMMA FrameShape ==
    ASSUME SupBase, FrameStep
    PROVE  SupTypeOK' /\ TurnShape'
<1> USE SupervisorAssumption, StoreAssumption
    DEF SupBase, SupTypeOK, TurnShape, At, Goto, EndTurn, PumpStages, NoWorker, Outcomes, supVars
<1>1. CASE Observe
    BY <1>1 DEF Observe, Live
<1>2. CASE CompleteRun \/ \E a \in Approvals : Dispatch(a) \/ StartGatedStep(a)
    BY <1>2 DEF CompleteRun, Dispatch, StartGatedStep
<1>3. ASSUME NEW a \in Approvals, AskApproval(a)
      PROVE  SupTypeOK' /\ TurnShape'
    BY <1>3 DEF AskApproval, Live
<1>4. CASE FrameRejected \/ \E ok \in BOOLEAN : TerminateRun(ok)
  <2>1. PICK failed \in BOOLEAN : EndTurn(failed)
      BY <1>4 DEF FrameRejected, TerminateRun
  <2> QED
    <3>1. pump' \in PumpType /\ pump'.run = pump.run /\ pump'.pc = "teardown"
        BY <2>1, PumpMoves
    <3>2. At("live") /\ UNCHANGED <<active, asked, waiter, worker, http, sweep>>
        BY <1>4 DEF FrameRejected, TerminateRun, Live
    <3> QED BY <3>1, <3>2 DEF PumpType
<1>5. CASE WorkerExits
    BY <1>5 DEF WorkerExits
<1> QED
    BY <1>1, <1>2, <1>3, <1>4, <1>5 DEF FrameStep

LEMMA SweeperShape ==
    ASSUME SupBase, SweeperStep
    PROVE  SupTypeOK' /\ TurnShape'
<1> USE SupervisorAssumption, StoreAssumption DEF SupBase, SupTypeOK, TurnShape, At, Outcomes, supVars
<1>1. CASE SweepTx
    BY <1>1 DEF SweepTx, StoreInv, StoreTypeOK, Pending
<1>2. ASSUME NEW a \in Approvals, SweepWake(a)
      PROVE  SupTypeOK' /\ TurnShape'
    BY <1>2 DEF SweepWake, Resolve
<1>3. CASE MaintainLease
    BY <1>3 DEF MaintainLease
<1> QED
    BY <1>1, <1>2, <1>3 DEF SweeperStep

LEMMA FollowType ==
    ASSUME SupBase, NEW d \in Devices, NEW op \in {"takeover", "stop", "revokeDevice",
           "revokeLease", "cancelFirst", "wakeFirst"}, NEW r \in Runs \cup {NoRun},
           NEW wake \in SUBSET Approvals, NEW outcome \in Outcomes,
           Follow(d, op, r, wake, outcome), op = "stop" => r # NoRun, NoVolatileChange
    PROVE  SupTypeOK' /\ TurnShape'
    BY DEF Follow, NoVolatileChange, SupBase, SupTypeOK, TurnShape, At

LEMMA RequestShape ==
    ASSUME SupBase, NEW d \in Devices, Requests(d)
    PROVE  SupTypeOK' /\ TurnShape'
<1> USE SupervisorAssumption, StoreAssumption DEF Outcomes
<1>0. UNCHANGED supVars => SupTypeOK' /\ TurnShape'
    BY DEF SupBase, SupTypeOK, TurnShape, At, supVars
<1>1. ASSUME NEW op \in {"takeover", "stop", "revokeDevice", "revokeLease"}, ReadActive(d, op)
      PROVE  SupTypeOK' /\ TurnShape'
  <2>1. active.run \in Runs \cup {NoRun}
      BY DEF SupBase, SupTypeOK
  <2> QED BY <1>1, <2>1, FollowType DEF ReadActive, NoVolatileChange
<1>2. ASSUME NEW a \in Approvals, NEW v \in Verdicts, NEW seen, Decide(d, a, v, seen)
      PROVE  SupTypeOK' /\ TurnShape'
    BY <1>2, FollowType DEF Decide, Verdicts
<1>3. ASSUME NEW a \in Approvals, DecideTooLate(d, a) \/ Revoke(d, a)
      PROVE  SupTypeOK' /\ TurnShape'
    BY <1>3, FollowType DEF DecideTooLate, Revoke
<1>4. CASE (\E r \in Runs : StopQueued(d, r)) \/ ReadApprovals(d) \/ MoveLease(d)
    BY <1>0, <1>4 DEF StopQueued, ReadApprovals, MoveLease
<1> QED
    BY <1>1, <1>2, <1>3, <1>4 DEF Requests, RequestStep

LEMMA HandlerShape ==
    ASSUME SupBase, NEW d \in Devices, HandlerStep(d)
    PROVE  SupTypeOK' /\ TurnShape'
<1> USE SupervisorAssumption, StoreAssumption DEF Outcomes
<1>0. http[d].run \in Runs \cup {NoRun} /\ Pending \in SUBSET Approvals
    BY DEF SupBase, SupTypeOK, Pending
<1>1. CASE TakeoverCommits(d)
    BY <1>0, <1>1, FollowType DEF TakeoverCommits
<1>2. ASSUME Refused(d), NoVolatileChange
      PROVE  SupTypeOK' /\ TurnShape'
    BY <1>2 DEF Refused, NoVolatileChange, SupBase, SupTypeOK, TurnShape, At, NoRequest
<1>3. CASE StopCommits(d)
    BY <1>0, <1>2, <1>3, FollowType DEF StopCommits
<1>4. ASSUME NEW target \in Devices, RevokeDeviceCommits(d, target)
      PROVE  SupTypeOK' /\ TurnShape'
    BY <1>0, <1>4, FollowType DEF RevokeDeviceCommits
<1>5. CASE RevokeLeaseCommits(d)
    BY <1>0, <1>2, <1>5, FollowType DEF RevokeLeaseCommits
<1>6. CASE HttpCancel(d)
  <2> USE DEF SupBase, SupTypeOK, TurnShape, At
  <2>1. active' \in [run: Runs \cup {NoRun}, started: BOOLEAN, cancel: BOOLEAN]
        /\ active'.run = active.run /\ active'.started = active.started
      BY <1>6 DEF HttpCancel, CancelActiveTurn
  <2>2. worker' \in [alive: BOOLEAN, told: BOOLEAN, tickets: SUBSET Approvals]
        /\ worker'.alive = worker.alive
      BY <1>6 DEF HttpCancel, CancelActiveTurn
  <2>3. http[d].op \in {"cancelFirst", "wakeFirst"} /\ http' = [http EXCEPT ![d].run = NoRun]
        /\ UNCHANGED <<pump, asked, waiter, sweep>>
      BY <1>6 DEF HttpCancel
  <2> QED BY <2>1, <2>2, <2>3
<1>7. ASSUME NEW a \in Approvals, HttpWake(d, a)
      PROVE  SupTypeOK' /\ TurnShape'
    BY <1>7 DEF HttpWake, Resolve, SupBase, SupTypeOK, TurnShape, At
<1>8. CASE HttpReply(d)
    BY <1>8 DEF HttpReply, NoRequest, SupBase, SupTypeOK, TurnShape, At
<1> QED
    BY <1>1, <1>3, <1>4, <1>5, <1>6, <1>7, <1>8 DEF HandlerStep

LEMMA SupBaseInit == SupInit => SupBase
    BY StoreInvInit, SupervisorAssumption, StoreAssumption
       DEF SupInit, SupBase, SupTypeOK, TurnShape, At, PumpStages, NoTurn, NoWorker, IdlePump,
           NoRequest, Outcomes

LEMMA SupBaseStep == SupBase /\ [SupNext]_vars => SupBase' /\ [StoreNext]_storeVars
<1> SUFFICES ASSUME SupBase, [SupNext]_vars
             PROVE  SupBase' /\ [StoreNext]_storeVars
    OBVIOUS
<1>1. [StoreNext]_storeVars
    BY SupUsesStore DEF vars
<1>2. StoreInv'
    BY <1>1, StoreInvStep DEF SupBase
<1>3. CASE UNCHANGED supVars
  <2>1. SupTypeOK' /\ TurnShape'
      BY <1>3 DEF SupBase, SupTypeOK, TurnShape, At, supVars
  <2> QED BY <1>1, <1>2, <2>1 DEF SupBase
<1>4. CASE CrashService
  <2>1. SupTypeOK' /\ TurnShape'
      BY <1>4, SupervisorAssumption, StoreAssumption
         DEF CrashService, SupTypeOK, TurnShape, At, PumpStages, NoTurn, NoWorker, IdlePump,
             NoRequest, Outcomes
  <2> QED BY <1>1, <1>2, <2>1 DEF SupBase
<1>5. CASE SupNext /\ ~CrashService /\ ~UNCHANGED supVars
  <2>1. SupTypeOK' /\ TurnShape'
      BY <1>5, PumpShape, FrameShape, SweeperShape, RequestShape, HandlerShape
         DEF SupNext, HeardNext, Requests, Serve, Restart
  <2> QED BY <1>1, <1>2, <2>1 DEF SupBase
<1> QED
    BY <1>3, <1>4, <1>5 DEF vars

\* The running service is an implementation of the store: whatever is proved
\* of the transactions holds of them as the service issues them.
THEOREM ServiceUsesStore == SupSpec => UsesStore
<1>1. SupInit => StoreInit
    BY DEF SupInit
<1> QED
    BY <1>1, SupBaseInit, SupBaseStep, PTL DEF SupSpec, UsesStore, StoreSpec

\* Every reachable state of the serving process is well formed.
THEOREM SupTypeCorrect == SupSpec => []SupTypeOK
<1>1. SupBase => SupTypeOK
    BY DEF SupBase
<1> QED
    BY <1>1, SupBaseInit, SupBaseStep, PTL DEF SupSpec

-----------------------------------------------------------------------------
(* No turn is orphaned.  What has to be carried along: a run somebody has   *)
(* seen as active, the registry or a request in flight, is the one that is  *)
(* driven or is finished, so a stop can only reach these; and a turn is     *)
(* cleared after its run has finished.                                      *)

Busy == {"running", "waiting_approval", "cancelling"}
Known == {active.run} \cup {http[d].run : d \in Devices}
Mine(r) == pump.run = r /\ ~At("claimed")

OwnedRuns ==
    /\ \A r \in Runs : run[r] \in Busy => service = "down" \/ Mine(r)
    /\ \A r \in Runs \cap Known : run[r] \in TerminalRun \/ Mine(r)
    /\ At("clear") \/ (pump.pc \in {"teardown", "reap"} /\ ~pump.failed) =>
          run[pump.run] \in TerminalRun

LEMMA TerminalStays ==
    ASSUME SupBase, [StoreNext]_storeVars, NEW r \in Runs, run[r] \in TerminalRun
    PROVE  run'[r] \in TerminalRun
<1>1. CASE UNCHANGED storeVars
    BY <1>1 DEF storeVars, runVars
<1>2. CASE StoreNext
    BY <1>2, FinishedStep DEF SupBase, TerminalRun
<1> QED BY <1>1, <1>2

StopLands(r) ==
    \E d \in Devices :
       /\ http[d].run = r /\ run[r] \notin TerminalRun /\ run'[r] = "cancelling"
       /\ Follow(d, "cancelFirst", r, {}, "revoked") /\ NoVolatileChange

\* What a step may make of a run: only the turn that is driven, and a stop of
\* a run that is known, put it to work; a restart leaves none at work.
LEMMA RunStep ==
    ASSUME SupBase, SupNext, NEW r \in Runs
    PROVE  \/ run'[r] = run[r] /\ (MarkInterruptedOnStartup => run[r] \notin Busy)
           \/ run'[r] \in TerminalRun
           \/ run[r] = "queued" /\ run'[r] = "starting"
           \/ At("begin") /\ r = pump.run /\ run'[r] = "running"
           \/ {run[r], run'[r]} = {"running", "waiting_approval"}
           \/ StopLands(r)
<1> DEFINE Goal == \/ run'[r] = run[r] /\ (MarkInterruptedOnStartup => run[r] \notin Busy)
                   \/ run'[r] \in TerminalRun
                   \/ run[r] = "queued" /\ run'[r] = "starting"
                   \/ At("begin") /\ r = pump.run /\ run'[r] = "running"
                   \/ {run[r], run'[r]} = {"running", "waiting_approval"}
                   \/ StopLands(r)
<1> USE DEF Busy, TerminalRun, SupBase, StoreInv, StoreTypeOK, runVars
<1>0. service = "up" => ~MarkInterruptedOnStartup
    BY DEF MarkInterruptedOnStartup
<1>1. CASE service = "up" /\ UNCHANGED run
    BY <1>0, <1>1
<1>2. ASSUME NEW R, Interrupt(R), service = "up"
      PROVE  Goal
    BY <1>0, <1>2 DEF Interrupt
<1>3. CASE Serve(PumpStep)
    BY <1>0, <1>3 DEF Serve, PumpStep, PumpClaim, ClaimQueuedRun, PumpPrecheckFails, RegisterTurn,
       storeVars
<1>4. ASSUME NEW s, InterruptUnlessDone(s), service = "up"
      PROVE  Goal
    BY <1>1, <1>2, <1>4 DEF InterruptUnlessDone, MarkInterrupted
<1>5. CASE Serve(TurnStep)
  <2>1. service = "up"
      BY <1>5 DEF Serve
  <2>2. CASE SetupFails \/ BeginRefused \/ InterruptFailedTurn
      BY <1>4, <2>1, <2>2 DEF SetupFails, BeginRefused, InterruptFailedTurn
  <2>3. CASE CheckStop
    <3>1. UNCHANGED run \/ run' = [run EXCEPT ![pump.run] = "cancelled"]
        BY <2>3 DEF CheckStop, CancelBeforeSpawn
    <3> QED BY <1>0, <2>1, <3>1
  <2>4. CASE Begin
    <3>1. At("begin") /\ run' = [run EXCEPT ![pump.run] = "running"]
        BY <2>4 DEF Begin, BeginTurn
    <3> QED BY <1>0, <2>1, <3>1
  <2>5. CASE SpawnFails \/ SpawnWorker \/ HandshakeFails \/ StartTurn \/ TransportEnds
             \/ DeliverDecision \/ Teardown \/ ReapChild \/ ClearTurn
      BY <1>1, <2>1, <2>5 DEF SpawnFails, SpawnWorker, HandshakeFails, StartTurn, TransportEnds,
         DeliverDecision, Teardown, ReapChild, ClearTurn, storeVars
  <2> QED BY <1>5, <2>2, <2>3, <2>4, <2>5 DEF Serve, TurnStep
<1>6. CASE Serve(FrameStep)
  <2>1. service = "up" /\ FrameStep
      BY <1>6 DEF Serve
  <2>2. CASE CompleteRun \/ (\E a \in Approvals : AskApproval(a))
             \/ \E ok \in BOOLEAN : TerminateRun(ok)
      BY <1>0, <2>1, <2>2 DEF CompleteRun, EventCompleted, AskApproval, ProposeApproval,
         TerminateRun, EventTerminated, AcceptsEvents
  <2>3. CASE Observe \/ FrameRejected \/ WorkerExits
             \/ \E a \in Approvals : Dispatch(a) \/ StartGatedStep(a)
      BY <1>1, <2>1, <2>3 DEF Observe, EventResumed, FrameRejected, WorkerExits, Dispatch,
         EventDispatched, StartGatedStep, EventToolStarted, storeVars
  <2> QED BY <2>1, <2>2, <2>3 DEF FrameStep
<1>7. CASE Serve(SweeperStep)
  <2>1. service = "up" /\ SweeperStep
      BY <1>7 DEF Serve
  <2>2. (\E R : Interrupt(R)) \/ UNCHANGED run
      BY <2>1 DEF SweeperStep, SweepTx, SweepExpired, Expire, SweepWake, MaintainLease,
         AutoRelease, storeVars
  <2> QED BY <1>1, <1>2, <2>1, <2>2
<1>8. ASSUME NEW d \in Devices, Serve(Requests(d))
      PROVE  Goal
  <2>1. service = "up" /\ Requests(d)
      BY <1>8 DEF Serve
  <2>2. ASSUME NEW s \in Runs, StopQueued(d, s)
        PROVE  Goal
      BY <1>0, <2>1, <2>2, StoreAssumption DEF StopQueued, StopTask
  <2>3. ASSUME NEW a \in Approvals, NEW v \in Verdicts, NEW seen, Decide(d, a, v, seen)
        PROVE  Goal
      BY <1>0, <2>1, <2>3 DEF Decide, DecideApproval
  <2>4. CASE \/ ReadApprovals(d) \/ MoveLease(d)
             \/ \E op \in {"takeover", "stop", "revokeDevice", "revokeLease"} : ReadActive(d, op)
             \/ \E a \in Approvals : DecideTooLate(d, a) \/ Revoke(d, a)
    <3>1. (\E R : Interrupt(R)) \/ UNCHANGED run
        BY <2>4 DEF ReadApprovals, SweepExpired, LazyExpire, Expire, MoveLease, TakeoverAck,
           PrivateBegin, PrivateEnd, ResumeLease, Heartbeat, HolderMoves, ReadActive,
           DecideTooLate, Revoke, RevokeApproval, storeVars
    <3> QED BY <1>1, <1>2, <2>1, <3>1
  <2> QED BY <2>1, <2>2, <2>3, <2>4 DEF Requests, RequestStep
<1>9. ASSUME NEW d \in Devices, Serve(HandlerStep(d))
      PROVE  Goal
  <2>1. service = "up" /\ HandlerStep(d)
      BY <1>9 DEF Serve
  <2>2. CASE StopCommits(d)
    <3> DEFINE s == http[d].run
    <3>1. CASE StopTask(s, s) /\ Follow(d, "cancelFirst", s, {}, "revoked") /\ NoVolatileChange
      <4>1. CASE r # s
          BY <1>0, <2>1, <3>1, <4>1 DEF StopTask
      <4>2. CASE r = s /\ run[r] = "queued"
          BY <3>1, <4>2 DEF StopTask
      <4>3. CASE r = s /\ run[r] # "queued"
        <5>1. run[r] \notin TerminalRun /\ run'[r] = "cancelling"
            BY <3>1, <4>3 DEF StopTask
        <5> QED BY <3>1, <4>3, <5>1 DEF StopLands
      <4> QED BY <4>1, <4>2, <4>3
    <3>2. CASE UNCHANGED run
        BY <1>1, <2>1, <3>2
    <3> QED BY <2>2, <3>1, <3>2 DEF StopCommits, Refused
  <2>3. CASE \/ TakeoverCommits(d) \/ RevokeLeaseCommits(d) \/ HttpCancel(d) \/ HttpReply(d)
             \/ (\E a \in Approvals : HttpWake(d, a))
             \/ \E target \in Devices : RevokeDeviceCommits(d, target)
    <3>1. UNCHANGED run
        BY <2>3 DEF TakeoverCommits, Takeover, RevokeLeaseCommits, RevokeLease, Refused,
           HttpCancel, HttpReply, HttpWake, RevokeDeviceCommits, RevokeDevice, storeVars
    <3> QED BY <1>1, <2>1, <3>1
  <2> QED BY <2>1, <2>2, <2>3 DEF HandlerStep
<1>10. CASE MarkInterruptedOnStartup
    BY <1>10 DEF MarkInterruptedOnStartup, Interrupt, ActiveRun
<1>11. CASE Restart \/ Clock
  <2>1. CASE MarkInterruptedOnStartup
      BY <1>10, <2>1
  <2>2. CASE ~MarkInterruptedOnStartup
    <3>1. UNCHANGED run \/ \E R : Interrupt(R)
        BY <1>11, <2>2 DEF Restart, CrashService, Crash, RecoverApprovals, Clock, DeadlinePasses,
           HeartbeatLapses
    <3> QED BY <2>2, <3>1 DEF Interrupt
  <2> QED BY <2>1, <2>2
<1> QED
    BY <1>3, <1>5, <1>6, <1>7, <1>8, <1>9, <1>11 DEF SupNext, HeardNext, Requests, Serve

\* How the pump moves: which steps change the turn it drives.
LEMMA PumpRunStep ==
    ASSUME SupBase, SupNext
    PROVE  \/ pump'.run = pump.run /\ (At("claimed")' => At("claimed"))
           \/ At("idle")
           \/ At("claimed") /\ pump' = IdlePump
           \/ At("clear") /\ pump' = IdlePump /\ UNCHANGED run
           \/ service' = "down" /\ pump' = IdlePump
<1> DEFINE Goal == \/ pump'.run = pump.run /\ (At("claimed")' => At("claimed"))
                   \/ At("idle")
                   \/ At("claimed") /\ pump' = IdlePump
                   \/ At("clear") /\ pump' = IdlePump /\ UNCHANGED run
                   \/ service' = "down" /\ pump' = IdlePump
<1>1. ASSUME UNCHANGED pump
      PROVE  Goal
    BY <1>1 DEF At
<1>2. ASSUME NEW pc \in PumpStages \ {"claimed"}, Goto(pc)
      PROVE  Goal
    BY <1>2, PumpMoves DEF At
<1>3. ASSUME NEW failed \in BOOLEAN, EndTurn(failed)
      PROVE  Goal
    BY <1>3, PumpMoves DEF At
<1>4. CASE PumpStep
  <2>1. "setup" \in PumpStages \ {"claimed"}
      BY DEF PumpStages
  <2> QED BY <1>2, <1>4, <2>1 DEF PumpStep, PumpClaim, PumpPrecheckFails, RegisterTurn
<1>5. CASE TurnStep
  <2>1. {"clear", "begin", "failed", "handshake", "live", "reap"} \subseteq PumpStages \ {"claimed"}
      BY DEF PumpStages
  <2>2. CASE Begin
    <3>1. pump'.pc = "spawn" /\ pump'.run = pump.run
        BY <2>2, PumpMoves DEF Begin, PumpType
    <3> QED BY <3>1 DEF At
  <2>3. CASE ClearTurn
      BY <2>3 DEF ClearTurn, storeVars, runVars
  <2>4. CASE ReapChild
    <3>1. Goto("failed") \/ Goto("clear")
        BY <2>4 DEF ReapChild
    <3> QED BY <1>2, <2>1, <3>1
  <2>5. CASE SetupFails \/ CheckStop \/ BeginRefused \/ SpawnFails \/ SpawnWorker \/ StartTurn
             \/ InterruptFailedTurn
      BY <1>2, <2>1, <2>5 DEF SetupFails, CheckStop, BeginRefused, SpawnFails, SpawnWorker,
         StartTurn, InterruptFailedTurn
  <2>6. CASE HandshakeFails \/ TransportEnds \/ Teardown \/ DeliverDecision
      BY <1>2, <1>3, <2>1, <2>6 DEF HandshakeFails, TransportEnds, Teardown, DeliverDecision
  <2> QED BY <1>5, <2>2, <2>3, <2>4, <2>5, <2>6 DEF TurnStep
<1>6. CASE FrameStep
  <2>1. "blocked" \in PumpStages \ {"claimed"}
      BY DEF PumpStages
  <2>2. CASE Observe
    <3>1. pump'.pc = pump.pc /\ pump'.run = pump.run
        BY <2>2, PumpMoves DEF Observe, PumpType
    <3> QED BY <3>1 DEF At
  <2> QED BY <1>1, <1>2, <1>3, <1>6, <2>1, <2>2 DEF FrameStep, CompleteRun, Dispatch,
             StartGatedStep, AskApproval, TerminateRun, FrameRejected, WorkerExits, supVars
<1>7. CASE SweeperStep \/ \E d \in Devices : Requests(d) \/ HandlerStep(d)
  <2>1. UNCHANGED pump
      BY <1>7 DEF SweeperStep, SweepTx, SweepWake, MaintainLease, Requests, RequestStep, ReadActive,
         StopQueued, Decide, DecideTooLate, Revoke, ReadApprovals, MoveLease, HandlerStep,
         TakeoverCommits, StopCommits, RevokeDeviceCommits, RevokeLeaseCommits, HttpCancel,
         HttpWake, HttpReply, NoVolatileChange, supVars
  <2> QED BY <1>1, <2>1
<1>8. CASE Restart \/ (Clock /\ UNCHANGED supVars)
    BY <1>1, <1>8 DEF Restart, CrashService, Crash, supVars
<1>9. \/ PumpStep \/ TurnStep \/ FrameStep
      \/ SweeperStep \/ \E d \in Devices : Requests(d) \/ HandlerStep(d)
      \/ Restart \/ (Clock /\ UNCHANGED supVars)
    BY DEF SupNext, HeardNext, Requests, Serve
<1> QED
    BY <1>4, <1>5, <1>6, <1>7, <1>8, <1>9

\* Who becomes known: the turn that is registered, and nobody else.
LEMMA KnownStep ==
    ASSUME SupBase, SupNext, NEW r \in Runs, r \in Known'
    PROVE  r \in Known \/ (r = pump'.run /\ At("setup")')
<1> DEFINE Goal == r \in Known \/ (r = pump'.run /\ At("setup")')
<1> USE DEF SupBase, SupTypeOK, Known
<1>1. ASSUME UNCHANGED http, active'.run \in {active.run, NoRun}
      PROVE  Goal
    BY <1>1, StoreAssumption
<1>2. ASSUME NEW d \in Devices, NEW h,
             http' = [http EXCEPT ![d] = h], h.run \in Known \cup {NoRun}, active'.run = active.run
      PROVE  Goal
    BY <1>2, StoreAssumption
<1>3. CASE PumpStep
  <2>1. CASE RegisterTurn
    <3>1. active'.run = pump.run /\ UNCHANGED http
        BY <2>1 DEF RegisterTurn, NoTurn
    <3>2. pump'.run = pump.run /\ pump'.pc = "setup"
        BY <2>1, PumpMoves DEF RegisterTurn, PumpStages
    <3> QED BY <3>1, <3>2 DEF At
  <2> QED BY <1>1, <1>3, <2>1 DEF PumpStep, PumpClaim, PumpPrecheckFails
<1>4. CASE TurnStep
  <2>1. CASE StartTurn
    <3>1. active'.run = active.run /\ UNCHANGED http
        BY <2>1 DEF StartTurn
    <3> QED BY <1>1, <3>1
  <2>2. CASE Teardown \/ ClearTurn
    <3>1. active'.run = NoRun /\ UNCHANGED http
        BY <2>2 DEF Teardown, ClearTurn, NoTurn
    <3> QED BY <1>1, <3>1
  <2>3. CASE ~StartTurn /\ ~Teardown /\ ~ClearTurn
    <3>1. UNCHANGED <<active, http>>
        BY <1>4, <2>3 DEF TurnStep, SetupFails, CheckStop, Begin, BeginRefused, SpawnFails,
           SpawnWorker, HandshakeFails, TransportEnds, DeliverDecision, ReapChild,
           InterruptFailedTurn
    <3> QED BY <1>1, <3>1
  <2> QED BY <2>1, <2>2, <2>3
<1>5. CASE FrameStep \/ SweeperStep
  <2>1. UNCHANGED <<active, http>>
      BY <1>5 DEF FrameStep, Observe, CompleteRun, Dispatch, StartGatedStep, AskApproval,
         TerminateRun, FrameRejected, WorkerExits, SweeperStep, SweepTx, SweepWake, MaintainLease,
         supVars
  <2> QED BY <1>1, <2>1
<1>6. ASSUME NEW d \in Devices, NEW op, NEW s \in Known \cup {NoRun}, NEW wake, NEW outcome,
             Follow(d, op, s, wake, outcome), NoVolatileChange
      PROVE  Goal
    BY <1>2, <1>6 DEF Follow, NoVolatileChange
<1>7. ASSUME NEW d \in Devices, Requests(d)
      PROVE  Goal
  <2>1. CASE UNCHANGED supVars
      BY <1>1, <2>1 DEF supVars
  <2>2. ASSUME NEW op, ReadActive(d, op)
        PROVE  Goal
      BY <1>6, <2>2 DEF ReadActive, NoVolatileChange
  <2>3. ASSUME NEW a \in Approvals, \/ DecideTooLate(d, a) \/ Revoke(d, a)
                                    \/ \E v \in Verdicts, seen \in 0..MaxGeneration :
                                          Decide(d, a, v, seen)
        PROVE  Goal
      BY <1>6, <2>3 DEF DecideTooLate, Revoke, Decide
  <2> QED BY <1>7, <2>1, <2>2, <2>3 DEF Requests, RequestStep, StopQueued,
         ReadApprovals, MoveLease
<1>8. ASSUME NEW d \in Devices, HandlerStep(d)
      PROVE  Goal
  <2>1. http[d].run \in Known
      OBVIOUS
  <2>2. ASSUME Refused(d), NoVolatileChange
        PROVE  Goal
    <3>1. NoRequest.run = NoRun
        BY DEF NoRequest
    <3> QED BY <1>2, <2>2, <3>1 DEF Refused, NoVolatileChange
  <2>3. CASE TakeoverCommits(d) \/ StopCommits(d) \/ RevokeLeaseCommits(d)
             \/ \E target \in Devices : RevokeDeviceCommits(d, target)
      BY <1>6, <2>1, <2>2, <2>3 DEF TakeoverCommits, StopCommits, RevokeLeaseCommits,
         RevokeDeviceCommits
  <2>4. CASE HttpCancel(d) \/ (\E a \in Approvals : HttpWake(d, a)) \/ HttpReply(d)
    <3>1. active'.run = active.run
        BY <2>4 DEF HttpCancel, CancelActiveTurn, HttpWake, HttpReply
    <3>2. \A e \in Devices : http'[e].run \in {http[e].run, NoRun}
        BY <2>4 DEF HttpCancel, HttpWake, HttpReply, NoRequest
    <3> QED BY <3>1, <3>2, StoreAssumption
  <2> QED BY <1>8, <2>3, <2>4 DEF HandlerStep
<1>9. CASE CrashService
  <2>1. active'.run = NoRun /\ \A d \in Devices : http'[d].run = NoRun
      BY <1>9 DEF CrashService, NoTurn, NoRequest
  <2> QED BY <2>1, StoreAssumption
<1>10. CASE UNCHANGED supVars
    BY <1>1, <1>10 DEF supVars
<1> QED
    BY <1>3, <1>4, <1>5, <1>7, <1>8, <1>9, <1>10 DEF SupNext, HeardNext, Requests, Serve, Restart

LEMMA OwnedRunsStep ==
    ASSUME SupBase, OwnedRuns, SupNext
    PROVE  OwnedRuns'
<1>0. SupBase' /\ [StoreNext]_storeVars
    BY SupBaseStep
<1>1. \A r \in Runs : run[r] \in TerminalRun => run'[r] \in TerminalRun
    BY <1>0, TerminalStays
<1>2. Busy \cap TerminalRun = {} /\ "queued" \notin Busy
    BY DEF Busy, TerminalRun
\* a turn that was driven still is, or its run has finished
<1>3. ASSUME NEW r \in Runs, Mine(r)
      PROVE  Mine(r)' \/ run'[r] \in TerminalRun \/ service' = "down"
  <2>1. ~At("idle") /\ ~At("claimed") /\ pump.run = r
      BY <1>3, StoreAssumption DEF Mine, SupBase, TurnShape
  <2>2. CASE pump'.run = pump.run /\ (At("claimed")' => At("claimed"))
      BY <2>1, <2>2 DEF Mine
  <2>3. CASE At("clear") /\ UNCHANGED run
      BY <2>1, <2>3 DEF OwnedRuns
  <2> QED BY <2>1, <2>2, <2>3, PumpRunStep
<1>4. ASSUME NEW r \in Runs, run'[r] \in Busy
      PROVE  service' = "down" \/ Mine(r)'
  <2>1. Mine(r) \/ service = "down"
      BY <1>2, <1>4, RunStep DEF OwnedRuns, Mine, At, Busy, Known, StopLands
  <2>2. CASE Mine(r)
      BY <1>2, <1>3, <1>4, <2>2
  <2>3. CASE service = "down"
    <3>1. ~MarkInterruptedOnStartup
      <4>1. MarkInterruptedOnStartup => run'[r] \notin Busy
          BY DEF MarkInterruptedOnStartup, Interrupt, Busy, ActiveRun
      <4> QED BY <1>4, <4>1
    <3>2. service' = "down"
        BY <2>3, <3>1 DEF SupNext, HeardNext, Requests, Serve, Restart, CrashService, Crash,
           RecoverApprovals, Clock,
           DeadlinePasses, HeartbeatLapses
    <3> QED BY <3>2
  <2> QED BY <2>1, <2>2, <2>3
<1>5. ASSUME NEW r \in Runs, r \in Known'
      PROVE  run'[r] \in TerminalRun \/ Mine(r)'
  <2>1. CASE r = pump'.run /\ At("setup")'
      BY <2>1 DEF Mine, At
  <2>2. CASE r \in Known /\ service' # "down"
      BY <1>1, <1>3, <2>2 DEF OwnedRuns
  <2>3. CASE service' = "down"
    <3>1. CrashService \/ UNCHANGED <<supVars, run>>
        BY <2>3 DEF SupNext, HeardNext, Requests, Serve, Restart, CrashService, Crash,
           MarkInterruptedOnStartup,
           RecoverApprovals, Clock, DeadlinePasses, HeartbeatLapses, runVars
    <3>2. CrashService => r = NoRun
        BY <1>5 DEF CrashService, Known, NoTurn, NoRequest
    <3>3. CASE UNCHANGED <<supVars, run>>
        BY <1>5, <3>3 DEF OwnedRuns, Known, Mine, At, supVars
    <3> QED BY <3>1, <3>2, <3>3, StoreAssumption
  <2> QED BY <1>5, <2>1, <2>2, <2>3, KnownStep
<1>6. At("clear")' \/ (pump'.pc \in {"teardown", "reap"} /\ ~pump'.failed) =>
          run'[pump'.run] \in TerminalRun
  <2> DEFINE Ending == At("clear") \/ (pump.pc \in {"teardown", "reap"} /\ ~pump.failed)
             Goal == Ending' => run'[pump'.run] \in TerminalRun
  <2>1. ASSUME ~At("idle"), run[pump.run] \in TerminalRun \/ run'[pump.run] \in TerminalRun,
               pump'.run = pump.run
        PROVE  Goal
      BY <1>1, <2>1, Driven
  <2>2. CASE UNCHANGED pump
      BY <2>1, <2>2 DEF OwnedRuns, At
  <2>3. ASSUME NEW pc \in PumpStages \ {"clear", "teardown", "reap"}, Goto(pc)
        PROVE  Goal
      BY <2>3, PumpMoves DEF At
  <2>4. CASE EndTurn(TRUE)
      BY <2>4, PumpMoves DEF At
  <2>5. CASE pump' = IdlePump
      BY <2>5 DEF IdlePump, At
  <2>6. {"setup", "begin", "failed", "handshake", "live", "blocked"}
           \subseteq PumpStages \ {"clear", "teardown", "reap"}
         /\ {"clear", "reap"} \subseteq PumpStages
      BY DEF PumpStages
  <2>7. CASE PumpStep
    <3>1. ASSUME NEW r \in Runs, PumpClaim(r)
          PROVE  Goal
      <4>1. pump'.pc = "claimed"
          BY <3>1 DEF PumpClaim, IdlePump
      <4> QED BY <4>1 DEF At
    <3> QED BY <2>3, <2>5, <2>6, <2>7, <3>1 DEF PumpStep, PumpPrecheckFails, RegisterTurn
  <2>8. CASE TurnStep
    <3>1. CASE SetupFails \/ BeginRefused \/ InterruptFailedTurn
      <4>1. ~At("idle") /\ pump'.run = pump.run /\ InterruptUnlessDone(pump.run)
          BY <2>6, <3>1, PumpMoves DEF SetupFails, BeginRefused, InterruptFailedTurn, At
      <4>2. run[pump.run] \in TerminalRun \/ run'[pump.run] \in TerminalRun
          BY <4>1, Driven DEF InterruptUnlessDone, MarkInterrupted, Interrupt, TerminalRun
      <4> QED BY <2>1, <4>1, <4>2
    <3>2. CASE CheckStop
      <4>1. At("setup") /\ pump.run \in Runs
          BY <3>2, Driven DEF CheckStop, At
      <4>2. CASE Goto("begin")
          BY <2>3, <2>6, <4>2
      <4>3. CASE CancelBeforeSpawn(pump.run) /\ Goto("clear")
        <5>1. run'[pump.run] = "cancelled"
            BY <4>1, <4>3 DEF CancelBeforeSpawn, SupBase, StoreInv, StoreTypeOK
        <5>2. pump'.run = pump.run /\ ~At("idle")
            BY <2>6, <4>1, <4>3, PumpMoves DEF At
        <5> QED BY <2>1, <5>1, <5>2 DEF TerminalRun
      <4> QED BY <3>2, <4>2, <4>3 DEF CheckStop
    <3>3. CASE Begin
      <4>1. pump'.pc = "spawn"
          BY <3>3, PumpMoves DEF Begin, PumpType
      <4> QED BY <4>1 DEF At
    <3>4. CASE Teardown \/ ReapChild
      <4>1. /\ pump.pc \in {"teardown", "reap"}
            /\ pump'.run = pump.run /\ pump'.failed = pump.failed
            /\ pump'.pc \in {"reap", "failed", "clear"}
            /\ (pump'.pc = "clear" => ~pump.failed)
          BY <2>6, <3>4, PumpMoves DEF Teardown, ReapChild, At, PumpStages
      <4>2. Ending' => ~pump.failed
          BY <4>1 DEF At
      <4>3. Ending' => run[pump.run] \in TerminalRun
          BY <4>1, <4>2 DEF OwnedRuns
      <4> QED BY <2>1, <4>1, <4>3 DEF At
    <3>5. CASE SpawnFails \/ SpawnWorker \/ StartTurn \/ ClearTurn \/ HandshakeFails
               \/ TransportEnds \/ DeliverDecision
        BY <2>3, <2>4, <2>5, <2>6, <3>5 DEF SpawnFails, SpawnWorker, StartTurn, ClearTurn,
           HandshakeFails, TransportEnds, DeliverDecision
    <3> QED BY <2>8, <3>1, <3>2, <3>3, <3>4, <3>5 DEF TurnStep
  <2>9. CASE FrameStep
    <3>1. ASSUME NEW ok \in BOOLEAN, TerminateRun(ok)
          PROVE  Goal
      <4>1. At("live") /\ pump'.run = pump.run /\ EventTerminated(pump.run, turn[pump.run], ok)
          BY <3>1, PumpMoves DEF TerminateRun, Live
      <4>2. ~At("idle")
          BY <4>1 DEF At
      <4>3. pump.run \in Runs
          BY <4>2, Driven
      <4>4. run'[pump.run] \in TerminalRun
          BY <4>1, <4>3 DEF EventTerminated, TerminalRun, SupBase, StoreInv, StoreTypeOK
      <4> QED BY <2>1, <4>1, <4>2, <4>4
    <3>2. CASE Observe
      <4>1. pump'.pc = "live"
          BY <3>2, PumpMoves DEF Observe, Live, At, PumpType
      <4> QED BY <4>1 DEF At
    <3> QED BY <2>2, <2>3, <2>4, <2>6, <2>9, <3>1, <3>2 DEF FrameStep, CompleteRun, Dispatch,
               StartGatedStep, AskApproval, FrameRejected, WorkerExits, supVars
  <2>10. CASE SweeperStep \/ \E d \in Devices : Requests(d) \/ HandlerStep(d)
    <3>1. UNCHANGED pump
        BY <2>10 DEF SweeperStep, SweepTx, SweepWake, MaintainLease, Requests, RequestStep, ReadActive,
           StopQueued, Decide, DecideTooLate, Revoke, ReadApprovals, MoveLease, HandlerStep,
           TakeoverCommits, StopCommits, RevokeDeviceCommits, RevokeLeaseCommits, HttpCancel,
           HttpWake, HttpReply, NoVolatileChange, supVars
    <3> QED BY <2>2, <3>1
  <2>11. CASE CrashService \/ UNCHANGED supVars
      BY <2>2, <2>5, <2>11 DEF CrashService, supVars
  <2>12. \/ PumpStep \/ TurnStep \/ FrameStep
         \/ SweeperStep \/ \E d \in Devices : Requests(d) \/ HandlerStep(d)
         \/ CrashService \/ UNCHANGED supVars
      BY DEF SupNext, HeardNext, Requests, Serve, Restart
  <2>13. Goal
      BY <2>7, <2>8, <2>9, <2>10, <2>11, <2>12
  <2> QED BY <2>13
<1> QED
    BY <1>4, <1>5, <1>6 DEF OwnedRuns, At

\* No turn is orphaned, however stops, takeovers, failures and restarts
\* interleave: whatever run is at work is the one that is driven.
THEOREM NoTurnOrphaned == SupSpec => []NoOrphanRun
<1>1. SupInit => OwnedRuns
    BY StoreAssumption DEF SupInit, StoreInit, OwnedRuns, Busy, Known, IdlePump, NoTurn, NoRequest, At
<1>2. SupBase /\ OwnedRuns /\ [SupNext]_vars => OwnedRuns'
  <2> SUFFICES ASSUME SupBase, OwnedRuns, [SupNext]_vars
               PROVE  OwnedRuns'
      OBVIOUS
  <2>1. CASE UNCHANGED vars
      BY <2>1 DEF OwnedRuns, Known, Mine, At, vars, storeVars, runVars, supVars
  <2> QED BY <2>1, OwnedRunsStep
<1>3. SupBase /\ OwnedRuns => NoOrphanRun
    BY DEF SupBase, TurnShape, OwnedRuns, Busy, Mine, NoOrphanRun
<1> QED
    BY <1>1, <1>2, <1>3, SupBaseInit, SupBaseStep, PTL DEF SupSpec

-----------------------------------------------------------------------------
(* No stop is dropped.  Once the turn has begun a cancelling run has its    *)
(* cancel on the way, armed, or delivered.                                  *)

OnItsWay == \E d \in Devices : http[d].run = pump.run /\ http[d].op \in {"cancelFirst", "wakeFirst"}

Armed ==
    \/ pump.pc \in {"spawn", "handshake"} /\ active.cancel
    \/ pump.pc \in {"live", "blocked"} /\ (worker.alive => worker.told)

Begun == {"spawn", "handshake", "live", "blocked"}

CancelHeard ==
    pump.pc \in Begun /\ run[pump.run] = "cancelling" => OnItsWay \/ Armed

\* A cancel leaves its handler only by reaching the turn.
LEMMA OnItsWayStep ==
    ASSUME SupBase, SupNext, pump.pc \in Begun, pump'.pc \in Begun, pump'.run = pump.run, OnItsWay
    PROVE  OnItsWay' \/ Armed'
<1> USE DEF SupBase, SupTypeOK
<1>0. PICK d \in Devices : http[d].run = pump.run /\ http[d].op \in {"cancelFirst", "wakeFirst"}
    BY DEF OnItsWay
<1>1. ASSUME http'[d].run = http[d].run, http'[d].op = http[d].op
      PROVE  OnItsWay'
    BY <1>0, <1>1 DEF OnItsWay
<1>2. pump.run \in Runs
    BY Driven DEF Begun, At
<1>3. CASE HttpCancel(d)
  <2>1. CancelActiveTurn(pump.run) /\ UNCHANGED pump
      BY <1>0, <1>3 DEF HttpCancel
  <2>2. active.run = pump.run /\ pump.run # NoRun
      BY <1>2, StoreAssumption DEF TurnShape, Begun
  <2>3. CASE active.started
    <3>1. worker'.told = (worker.told \/ worker.alive) /\ worker'.alive = worker.alive
          /\ UNCHANGED active
        BY <2>1, <2>2, <2>3 DEF CancelActiveTurn
    <3>2. pump.pc \in {"live", "blocked"}
        BY <2>3 DEF TurnShape, Begun
    <3> QED BY <2>1, <3>1, <3>2 DEF Armed
  <2>4. CASE ~active.started
    <3>1. active'.cancel = TRUE
        BY <2>1, <2>2, <2>4 DEF CancelActiveTurn
    <3>2. pump.pc \in {"spawn", "handshake"}
        BY <2>4 DEF TurnShape, Begun
    <3> QED BY <2>1, <3>1, <3>2 DEF Armed
  <2> QED BY <2>3, <2>4
<1>4. ASSUME NEW e \in Devices, NEW h, http' = [http EXCEPT ![e] = h], e # d
      PROVE  OnItsWay'
    BY <1>0, <1>1, <1>4
<1>5. ASSUME NEW e \in Devices, Requests(e)
      PROVE  OnItsWay'
  <2>1. CASE http[e].op = "none"
    <3>1. UNCHANGED http \/ \E h : http' = [http EXCEPT ![e] = h]
        BY <1>5 DEF Requests, RequestStep, ReadActive, StopQueued, Decide, DecideTooLate, Revoke,
           ReadApprovals, MoveLease, Follow, supVars
    <3> QED BY <1>0, <1>1, <1>4, <2>1, <3>1
  <2>2. CASE http[e].op # "none"
    <3>1. UNCHANGED http
        BY <1>5, <2>2 DEF Requests, RequestStep, ReadActive, StopQueued, Decide, DecideTooLate, Revoke,
           ReadApprovals, MoveLease, supVars
    <3> QED BY <1>1, <3>1
  <2> QED BY <2>1, <2>2
<1>6. ASSUME NEW e \in Devices, HandlerStep(e)
      PROVE  OnItsWay' \/ Armed'
  <2>1. CASE e # d
    <3>1. \E h : http' = [http EXCEPT ![e] = h]
        BY <1>6 DEF HandlerStep, TakeoverCommits, StopCommits, RevokeDeviceCommits,
           RevokeLeaseCommits, HttpCancel, HttpWake, HttpReply, Follow, Refused
    <3> QED BY <1>4, <2>1, <3>1
  <2>2. CASE e = d
    <3>1. ASSUME NEW a \in Approvals, HttpWake(d, a)
          PROVE  http'[d].run = http[d].run /\ http'[d].op = http[d].op
        BY <3>1 DEF HttpWake
    <3> QED
        BY <1>0, <1>1, <1>2, <1>3, <1>6, <2>2, <3>1, StoreAssumption DEF HandlerStep,
           TakeoverCommits, StopCommits, RevokeDeviceCommits, RevokeLeaseCommits, HttpReply
  <2> QED BY <2>1, <2>2
<1>7. CASE CrashService
    BY <1>7 DEF CrashService, IdlePump, Begun
<1>8. CASE PumpStep \/ TurnStep \/ FrameStep \/ SweeperStep \/ UNCHANGED supVars
  <2>1. UNCHANGED http
      BY <1>8 DEF PumpStep, PumpClaim, PumpPrecheckFails, RegisterTurn, TurnStep, SetupFails,
         CheckStop, Begin, BeginRefused, SpawnFails, SpawnWorker, HandshakeFails, StartTurn,
         TransportEnds, DeliverDecision, Teardown, ReapChild, InterruptFailedTurn, ClearTurn,
         FrameStep, Observe, CompleteRun, Dispatch, StartGatedStep, AskApproval, TerminateRun,
         FrameRejected, WorkerExits, SweeperStep, SweepTx, SweepWake, MaintainLease, supVars
  <2> QED BY <1>1, <2>1
<1> QED
    BY <1>5, <1>6, <1>7, <1>8 DEF SupNext, HeardNext, Requests, Serve, Restart

\* What was armed stays armed until the turn has started, and is delivered then.
LEMMA ArmedStep ==
    ASSUME SupBase, SupNext, pump.pc \in Begun, pump'.pc \in Begun, Armed
    PROVE  Armed'
<1> USE DEF SupBase, SupTypeOK
<1>1. ASSUME UNCHANGED <<active, worker>>,
             \/ pump'.pc = pump.pc
             \/ pump.pc \in {"spawn", "handshake"} /\ pump'.pc \in {"spawn", "handshake"}
             \/ pump.pc \in {"live", "blocked"} /\ pump'.pc \in {"live", "blocked"}
      PROVE  Armed'
    BY <1>1 DEF Armed
<1>2. CASE PumpStep
    BY <1>2 DEF PumpStep, PumpClaim, PumpPrecheckFails, RegisterTurn, At, Begun
<1>3. CASE TurnStep
  <2>1. CASE SpawnWorker
    <3>1. pump.pc = "spawn" /\ pump'.pc = "handshake" /\ UNCHANGED active
        BY <2>1, PumpMoves DEF SpawnWorker, At, PumpStages
    <3> QED BY <3>1 DEF Armed
  <2>2. CASE StartTurn
    <3>1. pump.pc = "handshake" /\ pump'.pc = "live" /\ worker'.told = active.cancel
        BY <2>2, PumpMoves DEF StartTurn, At, PumpStages
    <3> QED BY <3>1 DEF Armed
  <2>3. CASE DeliverDecision
    <3>1. pump.pc = "blocked" /\ (pump'.pc \in {"live", "teardown"})
        BY <2>3, PumpMoves DEF DeliverDecision, At, PumpStages
    <3>2. worker'.told = worker.told /\ worker'.alive = worker.alive
        BY <2>3 DEF DeliverDecision
    <3> QED BY <3>1, <3>2 DEF Armed, Begun
  <2>4. CASE SpawnFails \/ HandshakeFails \/ TransportEnds
    <3>1. {"failed", "teardown"} \cap Begun = {} /\ "failed" \in PumpStages
        BY DEF Begun, PumpStages
    <3>2. pump'.pc \in {"failed", "teardown"}
        BY <2>4, <3>1, PumpMoves DEF SpawnFails, HandshakeFails, TransportEnds
    <3> QED BY <3>1, <3>2
  <2>5. pump.pc \notin {"setup", "begin", "teardown", "reap", "failed", "clear"}
      BY DEF Begun
  <2> QED BY <1>3, <2>1, <2>2, <2>3, <2>4, <2>5 DEF TurnStep, SetupFails, CheckStop, Begin,
             BeginRefused, Teardown, ReapChild, InterruptFailedTurn, ClearTurn, At
<1>4. CASE FrameStep
  <2>1. CASE WorkerExits
    <3>1. UNCHANGED <<pump, active>> /\ worker'.alive = FALSE
        BY <2>1 DEF WorkerExits, NoWorker
    <3> QED BY <3>1 DEF Armed
  <2>2. CASE FrameRejected \/ \E ok \in BOOLEAN : TerminateRun(ok)
    <3>1. pump'.pc = "teardown"
        BY <2>2, PumpMoves DEF FrameRejected, TerminateRun
    <3> QED BY <3>1 DEF Begun
  <2>3. CASE Observe
    <3>1. pump'.pc = pump.pc /\ UNCHANGED <<active, worker>>
        BY <2>3, PumpMoves DEF Observe, PumpType
    <3> QED BY <1>1, <3>1
  <2>4. ASSUME NEW a \in Approvals, AskApproval(a)
        PROVE  Armed'
    <3>1. pump.pc = "live" /\ pump'.pc = "blocked" /\ UNCHANGED <<active, worker>>
        BY <2>4, PumpMoves DEF AskApproval, Live, At, PumpStages
    <3> QED BY <1>1, <3>1
  <2>5. UNCHANGED supVars => Armed'
      BY <1>1 DEF supVars
  <2> QED BY <1>4, <2>1, <2>2, <2>3, <2>4, <2>5 DEF FrameStep, CompleteRun, Dispatch,
             StartGatedStep
<1>5. CASE SweeperStep \/ (\E d \in Devices : Requests(d)) \/ UNCHANGED supVars
  <2>1. UNCHANGED <<pump, active, worker>>
      BY <1>5 DEF SweeperStep, SweepTx, SweepWake, MaintainLease, Requests, RequestStep, ReadActive,
         StopQueued, Decide, DecideTooLate, Revoke, ReadApprovals, MoveLease, NoVolatileChange,
         supVars
  <2> QED BY <1>1, <2>1
<1>6. ASSUME NEW d \in Devices, HandlerStep(d)
      PROVE  Armed'
  <2>1. CASE HttpCancel(d)
    <3>1. UNCHANGED pump /\ (active'.cancel = active.cancel \/ active'.cancel = TRUE)
          /\ worker'.alive = worker.alive /\ (worker.told => worker'.told)
        BY <2>1 DEF HttpCancel, CancelActiveTurn
    <3> QED BY <3>1 DEF Armed
  <2>2. CASE ~HttpCancel(d)
    <3>1. UNCHANGED <<pump, active, worker>>
        BY <1>6, <2>2 DEF HandlerStep, TakeoverCommits, StopCommits, RevokeDeviceCommits,
           RevokeLeaseCommits, HttpWake, HttpReply, NoVolatileChange
    <3> QED BY <1>1, <3>1
  <2> QED BY <2>1, <2>2
<1>7. CASE CrashService
    BY <1>7 DEF CrashService, IdlePump, Begun
<1> QED
    BY <1>2, <1>3, <1>4, <1>5, <1>6, <1>7 DEF SupNext, HeardNext, Requests, Serve, Restart

LEMMA CancelHeardStep ==
    ASSUME SupBase, CancelHeard, SupNext
    PROVE  CancelHeard'
<1> SUFFICES ASSUME pump'.pc \in Begun, run'[pump'.run] = "cancelling"
             PROVE  OnItsWay' \/ Armed'
    BY DEF CancelHeard
<1> DEFINE r == pump.run
<1>1. CASE ~(pump.pc \in Begun)
  <2>1. CASE Begin
    <3>1. At("begin") /\ pump'.run = r /\ run' = [run EXCEPT ![r] = "running"]
        BY <2>1, PumpMoves DEF Begin, BeginTurn, PumpType
    <3>2. r \in Runs
        BY <3>1, Driven DEF At
    <3>3. run'[r] = "running"
        BY <3>1, <3>2 DEF SupBase, StoreInv, StoreTypeOK
    <3> QED BY <3>1, <3>3
  <2>2. CASE UNCHANGED pump \/ pump' = IdlePump \/ \E failed \in BOOLEAN : EndTurn(failed)
      BY <1>1, <2>2, PumpMoves DEF Begun
  <2>3. ASSUME NEW pc \in PumpStages \ Begun, Goto(pc)
        PROVE  FALSE
      BY <2>3, PumpMoves
  <2>4. {"setup", "begin", "reap", "failed", "clear"} \subseteq PumpStages \ Begun
      BY DEF PumpStages, Begun
  <2>5. CASE PumpStep
    <3>1. ASSUME NEW s \in Runs, PumpClaim(s)
          PROVE  pump'.pc = "claimed"
        BY <3>1 DEF PumpClaim, IdlePump
    <3> QED BY <2>2, <2>3, <2>4, <2>5, <3>1 DEF PumpStep, PumpPrecheckFails, RegisterTurn, Begun
  <2>6. CASE TurnStep
      BY <1>1, <2>1, <2>2, <2>3, <2>4, <2>6 DEF TurnStep, SetupFails, CheckStop, BeginRefused,
         SpawnFails, SpawnWorker, HandshakeFails, StartTurn, TransportEnds, DeliverDecision,
         Teardown, ReapChild, InterruptFailedTurn, ClearTurn, At, Begun
  <2>7. CASE FrameStep
      BY <1>1, <2>2, <2>7 DEF FrameStep, Observe, CompleteRun, Dispatch, StartGatedStep,
         AskApproval, TerminateRun, FrameRejected, WorkerExits, Live, At, Begun, supVars
  <2>8. CASE SweeperStep \/ \E d \in Devices : Requests(d) \/ HandlerStep(d)
    <3>1. UNCHANGED pump
        BY <2>8 DEF SweeperStep, SweepTx, SweepWake, MaintainLease, Requests, RequestStep, ReadActive,
           StopQueued, Decide, DecideTooLate, Revoke, ReadApprovals, MoveLease, HandlerStep,
           TakeoverCommits, StopCommits, RevokeDeviceCommits, RevokeLeaseCommits, HttpCancel,
           HttpWake, HttpReply, NoVolatileChange, supVars
    <3> QED BY <2>2, <3>1
  <2>9. CASE CrashService \/ UNCHANGED supVars
      BY <2>2, <2>9 DEF CrashService, supVars
  <2> QED BY <2>5, <2>6, <2>7, <2>8, <2>9 DEF SupNext, HeardNext, Requests, Serve, Restart
<1>2. CASE pump.pc \in Begun
  <2>1. r \in Runs
      BY <1>2, Driven DEF Begun, At
  <2>2. pump'.run = r
      BY <1>2, PumpRunStep DEF At, Begun, IdlePump
  <2>3. CASE run[r] = "cancelling"
      BY <1>2, <2>2, <2>3, OnItsWayStep, ArmedStep DEF CancelHeard
  <2>4. CASE run[r] # "cancelling"
    <3>1. StopLands(r)
      <4>1. run'[r] = "cancelling"
          BY <2>2
      <4> QED BY <2>1, <2>4, <4>1, RunStep DEF TerminalRun
    <3>2. PICK d \in Devices : Follow(d, "cancelFirst", r, {}, "revoked") /\ NoVolatileChange
        BY <3>1 DEF StopLands
    <3>3. http'[d].run = r /\ http'[d].op = "cancelFirst"
        BY <3>2 DEF Follow, SupBase, SupTypeOK
    <3> QED BY <2>2, <3>3 DEF OnItsWay
  <2> QED BY <2>3, <2>4
<1> QED
    BY <1>1, <1>2

\* A stop that was accepted is heard by the worker it is meant for, wherever
\* the turn was when it was committed.
THEOREM NoStopDropped == SupSpec => []StopIsHeard
<1>1. SupInit => CancelHeard
    BY DEF SupInit, CancelHeard, IdlePump, Begun
<1>2. SupBase /\ CancelHeard /\ [SupNext]_vars => CancelHeard'
  <2> SUFFICES ASSUME SupBase, CancelHeard, [SupNext]_vars
               PROVE  CancelHeard'
      OBVIOUS
  <2>1. CASE UNCHANGED vars
      BY <2>1 DEF CancelHeard, OnItsWay, Armed, vars, storeVars, runVars, supVars
  <2> QED BY <2>1, CancelHeardStep
<1>3. CancelHeard => StopIsHeard
    BY DEF CancelHeard, OnItsWay, Armed, Begun, StopIsHeard, At
<1> QED
    BY <1>1, <1>2, <1>3, SupBaseInit, SupBaseStep, PTL DEF SupSpec

-----------------------------------------------------------------------------
(* What travels to the worker is what the row says.                         *)

\* An outcome o of approval a sits in a channel, a handler, the sweeper or
\* the worker.
Told(a, o) ==
    \/ waiter[a] = o
    \/ \E d \in Devices : a \in http[d].wake /\ http[d].outcome = o
    \/ a \in worker.tickets /\ o = "approved"
    \/ a \in sweep /\ o = "expired"

RowSays(a, o) == state[a] = o \/ (o = "approved" /\ state[a] = "revoked")

TellsTruth == \A a \in Approvals, o \in Outcomes : Told(a, o) => RowSays(a, o)

\* A new outcome is told of a row that says so.
LEMMA ToldStep ==
    ASSUME SupBase, SupNext, NEW a \in Approvals, NEW o \in Outcomes, Told(a, o)'
    PROVE  Told(a, o) \/ RowSays(a, o)'
<1> DEFINE Goal == Told(a, o) \/ RowSays(a, o)'
<1> USE DEF SupBase, SupTypeOK
<1>1. ASSUME UNCHANGED <<http, sweep>>, worker'.tickets \subseteq worker.tickets,
             waiter'[a] \in {waiter[a], "none", "waiting"}
      PROVE  Goal
    BY <1>1 DEF Told, Outcomes
<1>2. ASSUME NEW d \in Devices, NEW op, NEW r, NEW wake, NEW outcome,
             Follow(d, op, r, wake, outcome), NoVolatileChange,
             a \in wake => state'[a] = outcome
      PROVE  Goal
  <2>1. \A e \in Devices \ {d} : http'[e] = http[e]
      BY <1>2 DEF Follow
  <2>2. http'[d].wake = wake /\ http'[d].outcome = outcome
      BY <1>2 DEF Follow
  <2> QED BY <1>2, <2>1, <2>2 DEF Told, RowSays, NoVolatileChange
<1>3. CASE PumpStep
  <2>1. UNCHANGED <<waiter, worker, http, sweep>>
      BY <1>3 DEF PumpStep, PumpClaim, PumpPrecheckFails, RegisterTurn
  <2> QED BY <1>1, <2>1
<1>4. CASE TurnStep
  <2>1. CASE DeliverDecision
    <3>1. UNCHANGED <<http, sweep>> /\ waiter' = [waiter EXCEPT ![asked] = "none"]
          /\ asked \in Approvals
        BY <2>1 DEF DeliverDecision, TurnShape, At
    <3>2. \/ worker'.tickets = worker.tickets
          \/ worker'.tickets = worker.tickets \cup {asked} /\ waiter[asked] = "approved"
        BY <2>1 DEF DeliverDecision
    <3> QED BY <3>1, <3>2 DEF Told, Outcomes
  <2>2. CASE SpawnWorker \/ StartTurn \/ ReapChild
    <3>1. UNCHANGED <<waiter, http, sweep>> /\ worker'.tickets \subseteq worker.tickets
        BY <2>2 DEF SpawnWorker, StartTurn, ReapChild, NoWorker
    <3> QED BY <1>1, <3>1
  <2>3. CASE UNCHANGED <<waiter, worker, http, sweep>>
      BY <1>1, <2>3
  <2> QED BY <1>4, <2>1, <2>2, <2>3 DEF TurnStep, SetupFails, CheckStop, Begin, BeginRefused,
             SpawnFails, HandshakeFails, TransportEnds, Teardown, InterruptFailedTurn, ClearTurn
<1>5. CASE FrameStep
  <2>1. ASSUME NEW b \in Approvals, AskApproval(b)
        PROVE  Goal
    <3>1. waiter' = [waiter EXCEPT ![b] = "waiting"] /\ UNCHANGED <<worker, http, sweep>>
        BY <2>1 DEF AskApproval
    <3> QED BY <1>1, <3>1
  <2>2. CASE WorkerExits
    <3>1. UNCHANGED <<waiter, http, sweep>> /\ worker'.tickets = {}
        BY <2>2 DEF WorkerExits, NoWorker
    <3> QED BY <1>1, <3>1
  <2>3. CASE UNCHANGED <<waiter, worker, http, sweep>>
      BY <1>1, <2>3
  <2> QED BY <1>5, <2>1, <2>2, <2>3 DEF FrameStep, Observe, CompleteRun, Dispatch,
             StartGatedStep, TerminateRun, FrameRejected, supVars
<1>6. CASE SweeperStep
  <2>1. CASE SweepTx
    <3>1. sweep' = due /\ UNCHANGED <<waiter, worker, http>>
        BY <2>1 DEF SweepTx
    <3>2. \A b \in due : state'[b] = "expired"
        BY <2>1 DEF SweepTx, SweepExpired, Expire, Settle, StoreInv, StoreTypeOK, Pending
    <3> QED BY <3>1, <3>2 DEF Told, RowSays
  <2>2. ASSUME NEW b \in Approvals, SweepWake(b)
        PROVE  Goal
      BY <2>2 DEF SweepWake, Resolve, Told
  <2>3. CASE MaintainLease
      BY <1>1, <2>3 DEF MaintainLease, supVars
  <2> QED BY <1>6, <2>1, <2>2, <2>3 DEF SweeperStep
<1>7. ASSUME NEW d \in Devices, Requests(d)
      PROVE  Goal
  <2>1. CASE UNCHANGED supVars
      BY <1>1, <2>1 DEF supVars
  <2>2. ASSUME NEW op, ReadActive(d, op)
        PROVE  Goal
      BY <1>2, <2>2 DEF ReadActive, NoVolatileChange
  <2>3. ASSUME NEW b \in Approvals, NEW v \in Verdicts, NEW seen, Decide(d, b, v, seen)
        PROVE  Goal
    <3>1. state'[b] = v /\ Follow(d, "wakeFirst", NoRun, {b}, v) /\ NoVolatileChange
        BY <2>3 DEF Decide, DecideApproval, StoreInv, StoreTypeOK
    <3> QED BY <1>2, <3>1
  <2>4. ASSUME NEW b \in Approvals, DecideTooLate(d, b)
        PROVE  Goal
    <3>1. state'[b] = "expired" /\ Follow(d, "wakeFirst", NoRun, {b}, "expired") /\ NoVolatileChange
        BY <2>4 DEF DecideTooLate, LazyExpire, Expire, Settle
    <3> QED BY <1>2, <3>1
  <2>5. ASSUME NEW b \in Approvals, Revoke(d, b)
        PROVE  Goal
    <3> DEFINE W == IF b \in Pending THEN {b} ELSE {}
    <3>1. state'[b] = "revoked" /\ Follow(d, "wakeFirst", NoRun, W, "revoked")
          /\ NoVolatileChange
        BY <2>5 DEF Revoke, RevokeApproval, StoreInv, StoreTypeOK
    <3>2. a \in W => a = b
        OBVIOUS
    <3> HIDE DEF W
    <3> QED BY <1>2, <3>1, <3>2
  <2> QED BY <1>7, <2>1, <2>2, <2>3, <2>4, <2>5 DEF Requests, RequestStep, StopQueued,
         ReadApprovals, MoveLease
<1>8. ASSUME NEW d \in Devices, HandlerStep(d)
      PROVE  Goal
  <2>1. ASSUME Refused(d), NoVolatileChange
        PROVE  Goal
    <3>1. http'[d].wake = {} /\ \A e \in Devices \ {d} : http'[e] = http[e]
        BY <2>1 DEF Refused, NoRequest
    <3> QED BY <2>1, <3>1 DEF Told, NoVolatileChange
  <2>2. Settle(Pending, "revoked") => \A b \in Pending : state'[b] = "revoked"
      BY DEF Settle, Pending
  <2>3. CASE TakeoverCommits(d) \/ \E target \in Devices : RevokeDeviceCommits(d, target)
      BY <1>2, <2>2, <2>3 DEF TakeoverCommits, Takeover, RevokeDeviceCommits, RevokeDevice
  <2>4. CASE StopCommits(d) \/ RevokeLeaseCommits(d)
      BY <1>2, <2>1, <2>4 DEF StopCommits, RevokeLeaseCommits
  <2>5. CASE HttpCancel(d)
    <3>1. UNCHANGED <<waiter, sweep>> /\ worker'.tickets = worker.tickets
        BY <2>5 DEF HttpCancel, CancelActiveTurn
    <3>2. \A e \in Devices : http'[e].wake = http[e].wake /\ http'[e].outcome = http[e].outcome
        BY <2>5 DEF HttpCancel
    <3> QED BY <3>1, <3>2 DEF Told
  <2>6. ASSUME NEW b \in Approvals, HttpWake(d, b)
        PROVE  Goal
    <3>1. UNCHANGED <<worker, sweep>> /\ b \in http[d].wake /\ Resolve(b, http[d].outcome)
        BY <2>6 DEF HttpWake
    <3>2. \A e \in Devices : http'[e].wake \subseteq http[e].wake
                             /\ http'[e].outcome = http[e].outcome
        BY <2>6 DEF HttpWake
    <3> QED BY <3>1, <3>2 DEF Told, Resolve
  <2>7. CASE HttpReply(d)
    <3>1. http'[d].wake = {} /\ \A e \in Devices \ {d} : http'[e] = http[e]
        BY <2>7 DEF HttpReply, NoRequest
    <3>2. UNCHANGED <<waiter, worker, sweep>>
        BY <2>7 DEF HttpReply
    <3> QED BY <3>1, <3>2 DEF Told
  <2> QED BY <1>8, <2>3, <2>4, <2>5, <2>6, <2>7 DEF HandlerStep
<1>9. CASE CrashService
  <2>1. waiter'[a] = "none" /\ worker'.tickets = {} /\ sweep' = {}
        /\ \A d \in Devices : http'[d].wake = {}
      BY <1>9 DEF CrashService, NoWorker, NoRequest
  <2> QED BY <2>1 DEF Told, Outcomes
<1>10. CASE UNCHANGED supVars
    BY <1>1, <1>10 DEF supVars
<1> QED
    BY <1>3, <1>4, <1>5, <1>6, <1>7, <1>8, <1>9, <1>10 DEF SupNext, HeardNext, Requests, Serve, Restart

LEMMA TellsTruthStep == SupBase /\ TellsTruth /\ [SupNext]_vars => TellsTruth'
<1> SUFFICES ASSUME SupBase, TellsTruth, [SupNext]_vars, NEW a \in Approvals, NEW o \in Outcomes,
                    Told(a, o)'
             PROVE  RowSays(a, o)'
    BY DEF TellsTruth
<1>1. CASE UNCHANGED vars
    BY <1>1 DEF TellsTruth, Told, RowSays, vars, storeVars, rowVars, supVars
<1>2. CASE SupNext
  <2>1. CASE Told(a, o)
    <3>1. RowSays(a, o)
        BY <2>1 DEF TellsTruth
    <3>2. CASE UNCHANGED storeVars
        BY <3>1, <3>2 DEF RowSays, storeVars, rowVars
    <3>3. CASE StoreNext
        BY <3>1, <3>3, RowStep DEF RowSays, SupBase, Outcomes
    <3> QED BY <3>2, <3>3, SupBaseStep
  <2> QED BY <1>2, <2>1, ToldStep
<1> QED
    BY <1>1, <1>2

LEMMA TellsTruthInit == SupInit => TellsTruth
    BY DEF SupInit, TellsTruth, Told, Outcomes, NoWorker, NoRequest

\* The worker hears the verdict of the row and no other, whichever of the
\* verdict, the expiry and the revocations won, and whoever delivered it.
THEOREM VerdictIsDelivered == SupSpec => []OutcomeMatchesRow
<1>1. TellsTruth => OutcomeMatchesRow
  <2> SUFFICES ASSUME TellsTruth, NEW a \in Approvals
               PROVE  LET says == {waiter[a]}
                                  \cup {http[d].outcome : d \in {e \in Devices : a \in http[e].wake}}
                                  \cup (IF a \in worker.tickets THEN {"approved"} ELSE {})
                                  \cup (IF a \in sweep THEN {"expired"} ELSE {})
                      IN  /\ \A o \in says \cap (Outcomes \ {"approved"}) : state[a] = o
                          /\ "approved" \in says => state[a] \in {"approved", "revoked"}
      BY DEF OutcomeMatchesRow
  <2> DEFINE says == {waiter[a]}
                     \cup {http[d].outcome : d \in {e \in Devices : a \in http[e].wake}}
                     \cup (IF a \in worker.tickets THEN {"approved"} ELSE {})
                     \cup (IF a \in sweep THEN {"expired"} ELSE {})
  <2>1. \A o \in says \cap Outcomes : Told(a, o)
      BY DEF Told
  <2>2. \A o \in says \cap Outcomes : RowSays(a, o)
      BY <2>1 DEF TellsTruth
  <2> HIDE DEF says
  <2>3. /\ \A o \in says \cap (Outcomes \ {"approved"}) : state[a] = o
        /\ "approved" \in says => state[a] \in {"approved", "revoked"}
      BY <2>2 DEF RowSays, Outcomes
  <2> QED BY <2>3 DEF says
<1> QED
    BY <1>1, TellsTruthInit, TellsTruthStep, SupBaseInit, SupBaseStep, PTL DEF SupSpec

-----------------------------------------------------------------------------
(* Nobody is asked before somebody listens.                                 *)

\* An undecided row was undecided before, or it has just been proposed by the
\* turn that now sleeps on it.
LEMMA PendingFrom ==
    ASSUME SupBase, SupNext, service' = "up", NEW a \in Pending'
    PROVE  \/ a \in Pending /\ bound'[a] = bound[a] /\ service = "up"
           \/ AskApproval(a)
<1> DEFINE Goal == \/ a \in Pending /\ bound'[a] = bound[a] /\ service = "up"
                   \/ AskApproval(a)
<1> USE DEF SupBase, StoreInv, StoreTypeOK, Pending, rowVars
<1>1. ASSUME service = "up", UNCHANGED <<state, bound>>
      PROVE  Goal
    BY <1>1
<1>2. ASSUME service = "up", UNCHANGED bound, NEW S, NEW outcome, Settle(S, outcome),
             outcome # "pending"
      PROVE  Goal
    BY <1>2 DEF Settle
<1>3. CASE Serve(PumpStep) \/ Serve(TurnStep)
  <2>1. service = "up" /\ UNCHANGED <<state, bound>>
      BY <1>3 DEF Serve, PumpStep, PumpClaim, ClaimQueuedRun, PumpPrecheckFails, RegisterTurn,
         TurnStep, SetupFails, InterruptUnlessDone, MarkInterrupted, CheckStop, CancelBeforeSpawn,
         Begin, BeginTurn, BeginRefused, SpawnFails, SpawnWorker, HandshakeFails, StartTurn,
         TransportEnds, DeliverDecision, Teardown, ReapChild, InterruptFailedTurn, ClearTurn,
         storeVars
  <2> QED BY <1>1, <2>1
<1>4. CASE Serve(FrameStep)
  <2>1. service = "up" /\ FrameStep
      BY <1>4 DEF Serve
  <2>2. ASSUME NEW b \in Approvals, AskApproval(b)
        PROVE  Goal
      BY <2>1, <2>2 DEF AskApproval, ProposeApproval
  <2>3. CASE UNCHANGED <<state, bound>>
      BY <1>1, <2>1, <2>3
  <2> QED BY <2>1, <2>2, <2>3 DEF FrameStep, Observe, EventResumed, CompleteRun, EventCompleted,
             Dispatch, EventDispatched, StartGatedStep, EventToolStarted, TerminateRun,
             EventTerminated, FrameRejected, WorkerExits, storeVars
<1>5. CASE Serve(SweeperStep)
  <2>1. service = "up" /\ SweeperStep
      BY <1>5 DEF Serve
  <2> QED BY <1>1, <1>2, <2>1 DEF SweeperStep, SweepTx, SweepExpired, Expire, SweepWake,
             MaintainLease, AutoRelease, storeVars
<1>6. ASSUME NEW d \in Devices, Serve(Requests(d))
      PROVE  Goal
  <2>1. service = "up" /\ Requests(d)
      BY <1>6 DEF Serve
  <2>2. ASSUME NEW b \in Approvals, NEW v \in Verdicts, NEW seen, Decide(d, b, v, seen)
        PROVE  Goal
      BY <2>1, <2>2 DEF Decide, DecideApproval, Verdicts
  <2>3. ASSUME NEW b \in Approvals, Revoke(d, b)
        PROVE  Goal
      BY <2>1, <2>3 DEF Revoke, RevokeApproval
  <2>4. CASE ReadApprovals(d) \/ \E b \in Approvals : DecideTooLate(d, b)
      BY <1>2, <2>1, <2>4 DEF ReadApprovals, SweepExpired, LazyExpire, Expire, DecideTooLate
  <2>5. CASE \/ \E op \in {"takeover", "stop", "revokeDevice", "revokeLease"} : ReadActive(d, op)
             \/ \E r \in Runs : StopQueued(d, r)
             \/ MoveLease(d)
      BY <1>1, <2>1, <2>5 DEF ReadActive, StopQueued, StopTask, MoveLease, TakeoverAck,
         PrivateBegin, PrivateEnd, ResumeLease, Heartbeat, HolderMoves, storeVars
  <2> QED BY <2>1, <2>2, <2>3, <2>4, <2>5 DEF Requests, RequestStep
<1>7. ASSUME NEW d \in Devices, Serve(HandlerStep(d))
      PROVE  Goal
  <2>1. service = "up" /\ HandlerStep(d)
      BY <1>7 DEF Serve
  <2>2. CASE TakeoverCommits(d) \/ \E target \in Devices : RevokeDeviceCommits(d, target)
      BY <1>2, <2>1, <2>2 DEF TakeoverCommits, Takeover, RevokeDeviceCommits, RevokeDevice
  <2>3. CASE \/ StopCommits(d) \/ RevokeLeaseCommits(d) \/ HttpCancel(d) \/ HttpReply(d)
             \/ \E b \in Approvals : HttpWake(d, b)
      BY <1>1, <2>1, <2>3 DEF StopCommits, StopTask, Refused, RevokeLeaseCommits, RevokeLease,
         HttpCancel, HttpReply, HttpWake, storeVars
  <2> QED BY <2>1, <2>2, <2>3 DEF HandlerStep
<1>8. CASE Restart
  <2>1. CASE RecoverApprovals
      BY <2>1 DEF RecoverApprovals
  <2> QED BY <1>8, <2>1 DEF Restart, CrashService, Crash, MarkInterruptedOnStartup
<1>9. CASE Clock
    BY <1>1, <1>9 DEF Clock, DeadlinePasses, HeartbeatLapses
<1> QED
    BY <1>3, <1>4, <1>5, <1>6, <1>7, <1>8, <1>9 DEF SupNext, HeardNext, Requests, Serve

\* A sleeping turn sleeps on until an outcome reaches its channel.
LEMMA SleeperStays ==
    ASSUME SupBase, TellsTruth, SupNext, service' = "up",
           NEW a \in Pending, At("blocked"), asked = a, waiter[a] = "waiting"
    PROVE  At("blocked")' /\ asked' = a /\ waiter'[a] = "waiting" /\ pump'.run = pump.run
<1> DEFINE Goal == At("blocked")' /\ asked' = a /\ waiter'[a] = "waiting" /\ pump'.run = pump.run
<1> USE DEF SupBase, SupTypeOK, At
<1>0. \A o \in Outcomes : ~Told(a, o)
    BY DEF TellsTruth, RowSays, Outcomes, Pending
<1>1. ASSUME UNCHANGED <<pump, asked>>, waiter'[a] = waiter[a]
      PROVE  Goal
    BY <1>1
<1>2. CASE PumpStep
    BY <1>2 DEF PumpStep, PumpClaim, PumpPrecheckFails, RegisterTurn
<1>3. CASE TurnStep
    BY <1>3 DEF TurnStep, SetupFails, CheckStop, Begin, BeginRefused, SpawnFails, SpawnWorker,
       HandshakeFails, StartTurn, TransportEnds, DeliverDecision, Teardown, ReapChild,
       InterruptFailedTurn, ClearTurn, Outcomes
<1>4. CASE FrameStep
  <2>1. WorkerExits
      BY <1>4 DEF FrameStep, Observe, CompleteRun, Dispatch, StartGatedStep, AskApproval,
         TerminateRun, FrameRejected, Live
  <2> QED BY <1>1, <2>1 DEF WorkerExits
<1>5. ASSUME NEW b \in Approvals, NEW o \in Outcomes, Resolve(b, o), Told(b, o),
             UNCHANGED <<pump, asked>>
      PROVE  Goal
  <2>1. a # b
      BY <1>0, <1>5
  <2> QED BY <1>1, <1>5, <2>1 DEF Resolve
<1>6. CASE SweeperStep
  <2>1. ASSUME NEW b \in Approvals, SweepWake(b)
        PROVE  Goal
      BY <1>5, <2>1 DEF SweepWake, Told, Outcomes
  <2>2. UNCHANGED <<pump, asked, waiter>> => Goal
      BY <1>1
  <2> QED BY <1>6, <2>1, <2>2 DEF SweeperStep, SweepTx, MaintainLease, supVars
<1>7. ASSUME NEW d \in Devices, Requests(d)
      PROVE  Goal
    BY <1>1, <1>7 DEF Requests, RequestStep, ReadActive, StopQueued, Decide, DecideTooLate, Revoke,
       ReadApprovals, MoveLease, NoVolatileChange, supVars
<1>8. ASSUME NEW d \in Devices, HandlerStep(d)
      PROVE  Goal
  <2>1. ASSUME NEW b \in Approvals, HttpWake(d, b)
        PROVE  Goal
      BY <1>5, <2>1 DEF HttpWake, Told
  <2>2. UNCHANGED <<pump, asked, waiter>> => Goal
      BY <1>1
  <2> QED BY <1>8, <2>1, <2>2 DEF HandlerStep, TakeoverCommits, StopCommits, RevokeDeviceCommits,
             RevokeLeaseCommits, HttpCancel, HttpReply, NoVolatileChange
<1>9. CASE UNCHANGED supVars
    BY <1>1, <1>9 DEF supVars
<1>10. CASE CrashService
    BY <1>10 DEF CrashService, Crash
<1> QED
    BY <1>2, <1>3, <1>4, <1>6, <1>7, <1>8, <1>9, <1>10 DEF SupNext, HeardNext, Requests, Serve, Restart

\* No approval can be decided before its sleeper is armed: the waiter is
\* registered in the step that publishes the row, and nothing disarms it
\* while the row is undecided.
THEOREM NobodyAskedUnheard == SupSpec => []PendingHasWaiter
<1>1. SupInit => PendingHasWaiter
    BY DEF SupInit, StoreInit, PendingHasWaiter, Pending
<1>2. SupBase /\ TellsTruth /\ PendingHasWaiter /\ [SupNext]_vars => PendingHasWaiter'
  <2> SUFFICES ASSUME SupBase, TellsTruth, PendingHasWaiter, [SupNext]_vars
               PROVE  PendingHasWaiter'
      OBVIOUS
  <2>1. CASE UNCHANGED vars
      BY <2>1 DEF PendingHasWaiter, Pending, At, vars, storeVars, rowVars, supVars
  <2>2. ASSUME SupNext, service' = "up", NEW a \in Pending'
        PROVE  /\ At("blocked")' /\ asked' = a /\ waiter'[a] = "waiting"
               /\ pump'.run = bound'[a].run
    <3>1. CASE AskApproval(a)
      <4>1. a \in Approvals
          BY DEF Pending
      <4>2. asked' = a /\ waiter' = [waiter EXCEPT ![a] = "waiting"] /\ Goto("blocked")
            /\ ProposeApproval(a, pump.run, turn[pump.run])
          BY <3>1 DEF AskApproval
      <4>3. waiter'[a] = "waiting"
          BY <4>1, <4>2 DEF SupBase, SupTypeOK
      <4>4. bound'[a].run = pump.run
          BY <4>1, <4>2 DEF ProposeApproval, SupBase, StoreInv, StoreTypeOK
      <4>5. At("blocked")' /\ pump'.run = pump.run
          BY <4>2, PumpMoves DEF PumpStages, At
      <4> QED BY <4>2, <4>3, <4>4, <4>5
    <3>2. CASE a \in Pending /\ bound'[a] = bound[a] /\ service = "up"
      <4>1. At("blocked") /\ asked = a /\ waiter[a] = "waiting" /\ pump.run = bound[a].run
          BY <3>2 DEF PendingHasWaiter
      <4> QED BY <2>2, <3>2, <4>1, SleeperStays
    <3> QED BY <2>2, <3>1, <3>2, PendingFrom
  <2> QED BY <2>1, <2>2 DEF PendingHasWaiter
<1> QED
    BY <1>1, <1>2, TellsTruthInit, TellsTruthStep, SupBaseInit, SupBaseStep, PTL DEF SupSpec
=============================================================================
