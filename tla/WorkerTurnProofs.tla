-------------------------- MODULE WorkerTurnProofs --------------------------
(***************************************************************************)
(* For every value of the constants: a stop that comes before the model    *)
(* has answered prevails, and a clean report means a clean machine.        *)
(***************************************************************************)
EXTENDS WorkerTurn, Integers, FiniteSetTheorems, SequenceTheorems, TLAPS

\* The awaits up to the model's answer, and those of a turn that was lost.
Early == {"binding", "started", "network", "proxy", "ready", "create", "start", "fetch",
          "restore", "restored", "thread", "bound", "turn"}
Failing == {"lost", "close", "rmWorker", "rmProxy", "rmNetwork", "report", "terminated",
            "exit", "dead"}

Types == {"started", "restored", "bound", "thinking", "delta", "saving", "delivered",
          "terminated"} \cup Outcomes
Entries == [type : Types, n : Int, units : SUBSET Nat]

\* The types the argument needs: that the log is a sequence of events.
FlowTypes ==
  /\ log \in Seq(Entries)
  /\ text \in [streamed : Nat, buffered : SUBSET Nat]
  /\ changed \in [found : Nat, delivered : Int]
  /\ failures \subseteq Resources

\* A stop is remembered: it is what cancelled says.
StopIsKept == stoppedAt # "never" => cancelled

\* No outcome is said before the model has answered ...
NotYetCompleted == pc \in Early => ~Said("completed")

\* ... and a turn stopped by then is still in its setup or on its way out.
StoppedTurnsBack == stoppedAt \in Early => pc \in Early \cup Failing /\ ~Said("completed")

StopInv == FlowTypes /\ StopIsKept /\ NotYetCompleted /\ StoppedTurnsBack

-----------------------------------------------------------------------------
(* The log.                                                                *)

\* What is said after s has been appended was said before or is said by s.
LEMMA SaidOfAppended ==
    ASSUME NEW L \in Seq(Entries), NEW s \in Seq(Entries), NEW t,
           \A i \in DOMAIN L : L[i].type # t,
           \A i \in DOMAIN s : s[i].type # t
    PROVE  \A i \in DOMAIN (L \o s) : (L \o s)[i].type # t
<1> SUFFICES ASSUME NEW i \in DOMAIN (L \o s)
             PROVE  (L \o s)[i].type # t
  OBVIOUS
<1>1. L \o s \in Seq(Entries) /\ Len(L \o s) = Len(L) + Len(s)
  OBVIOUS
<1>2. i \in 1..(Len(L) + Len(s))
  BY <1>1
<1>3. CASE i <= Len(L)
  <2>1. i \in DOMAIN L /\ (L \o s)[i] = L[i]
    BY <1>2, <1>3
  <2> QED BY <2>1
<1>4. CASE i > Len(L)
  <2>1. i - Len(L) \in DOMAIN s /\ (L \o s)[i] = s[i - Len(L)]
    BY <1>2, <1>4
  <2> QED BY <2>1
<1> QED BY <1>2, <1>3, <1>4

LEMMA SingleEvent ==
    ASSUME NEW t \in Types, NEW n \in Int
    PROVE  /\ <<Event(t, n)>> \in Seq(Entries)
           /\ \A i \in DOMAIN <<Event(t, n)>> : <<Event(t, n)>>[i].type = t
BY DEF Event, Entries

\* Emitting s keeps the log a log, and says nothing that s does not say.
LEMMA SingleDelta ==
    ASSUME NEW units \in SUBSET Nat
    PROVE  /\ Delta(units) \in Entries /\ <<Delta(units)>> \in Seq(Entries)
           /\ \A i \in DOMAIN <<Delta(units)>> : <<Delta(units)>>[i].type = "delta"
BY DEF Delta, Entries, Types

LEMMA EmittedKeeps ==
    ASSUME log \in Seq(Entries), NEW s \in Seq(Entries), NEW t
    PROVE  /\ Emitted(s) \in Seq(Entries) /\ Len(Emitted(s)) >= Len(log)
           /\ ~Said(t) /\ (\A i \in DOMAIN s : s[i].type # t)
              => \A i \in DOMAIN Emitted(s) : Emitted(s)[i].type # t
<1>1. log \o s \in Seq(Entries) /\ Len(log \o s) >= Len(log) /\ Len(log) >= Len(log)
  OBVIOUS
<1>2. ASSUME ~Said(t), \A i \in DOMAIN s : s[i].type # t
      PROVE  \A i \in DOMAIN (log \o s) : (log \o s)[i].type # t
  <2>1. \A i \in DOMAIN log : log[i].type # t
    BY <1>2 DEF Said
  <2> QED BY <2>1, <1>2, SaidOfAppended
<1>3. ~Said(t) => \A i \in DOMAIN log : log[i].type # t
  BY DEF Said
<1> QED BY <1>1, <1>2, <1>3 DEF Emitted

\* What Emit(s), Flushed(s), Throw and Checkpoint leave: a log that has grown,
\* with a milestone only if it had it before, or s has it; and typed text.
Milestones == {"completed", "terminated"}
Unsaid(t) == Said(t)' => Said(t)
LogGrows == log' \in Seq(Entries) /\ Len(log') >= Len(log)
LogTyped == LogGrows /\ text' \in [streamed : Nat, buffered : SUBSET Nat]
NoneSaid == \A t \in Milestones : Unsaid(t)

Innocent(s) == s \in Seq(Entries) /\ \A i \in DOMAIN s : s[i].type \notin Milestones

LEMMA NothingIsInnocent == Innocent(<<>>)
BY DEF Innocent

LEMMA EventIsInnocent ==
    ASSUME NEW t \in Types, t \notin Milestones, NEW n \in Int
    PROVE  Innocent(<<Event(t, n)>>)
BY SingleEvent DEF Innocent

LEMMA DeltaIsInnocent ==
    ASSUME NEW units \in SUBSET Nat
    PROVE  Innocent(<<Delta(units)>>)
BY SingleDelta DEF Innocent, Milestones

LEMMA EmitKeeps ==
    ASSUME FlowTypes, NEW s, Innocent(s), Emit(s)
    PROVE  LogGrows /\ NoneSaid
<1>1. LogGrows
  BY EmittedKeeps DEF FlowTypes, Innocent, Emit, LogGrows
<1>2. ASSUME NEW t \in Milestones
      PROVE  Unsaid(t)
  <2>1. \A i \in DOMAIN s : s[i].type # t
    BY <1>2 DEF Innocent
  <2>2. ~Said(t) => \A i \in DOMAIN Emitted(s) : Emitted(s)[i].type # t
    BY <2>1, EmittedKeeps DEF FlowTypes, Innocent
  <2> QED BY <2>2 DEF Emit, Unsaid, Said
<1> QED BY <1>1, <1>2 DEF NoneSaid

LEMMA FlushedKeeps ==
    ASSUME FlowTypes, NEW s, Innocent(s), Flushed(s)
    PROVE  LogTyped /\ NoneSaid
<1> DEFINE b == IF text.buffered # {} THEN <<Delta(text.buffered)>> ELSE <<>>
<1>1. Innocent(b)
  <2>1. CASE text.buffered # {}
    <3>1. text.buffered \in SUBSET Nat
      BY DEF FlowTypes
    <3>2. Innocent(<<Delta(text.buffered)>>)
      BY <3>1, DeltaIsInnocent
    <3>3. b = <<Delta(text.buffered)>>
      BY <2>1
    <3> QED BY ONLY <3>2, <3>3
  <2>2. CASE text.buffered = {}
    <3>1. b = <<>>
      BY <2>2
    <3> QED BY ONLY <3>1, NothingIsInnocent
  <2> QED BY <2>1, <2>2
<1>2. log' = Emitted(b \o s) /\ text' = [text EXCEPT !.buffered = {}]
  BY DEF Flushed
<1> HIDE DEF b
<1>3. Innocent(b \o s)
  <2>1. b \o s \in Seq(Entries)
    BY <1>1 DEF Innocent
  <2>2. ASSUME NEW t \in Milestones
        PROVE  \A i \in DOMAIN (b \o s) : (b \o s)[i].type # t
    BY <1>1, <2>2, SaidOfAppended DEF Innocent
  <2> QED BY <2>1, <2>2 DEF Innocent
<1>4. LogGrows /\ NoneSaid
  BY <1>2, <1>3, EmitKeeps DEF Emit
<1> QED BY <1>2, <1>4 DEF LogTyped, FlowTypes

LEMMA ThrowKeeps ==
    ASSUME FlowTypes, Throw
    PROVE  pc' = "lost" /\ LogTyped /\ NoneSaid
<1> DEFINE outcome == IF cancelled THEN "cancelled" ELSE "failed"
<1>1. outcome \in Types /\ outcome \notin Milestones
  BY DEF Types, Outcomes, Milestones
<1>2. Flushed(<<Event(outcome, 0)>>) /\ pc' = "lost"
  BY DEF Throw
<1> HIDE DEF outcome
<1>3. Innocent(<<Event(outcome, 0)>>)
  BY <1>1, EventIsInnocent
<1> QED BY <1>2, <1>3, FlushedKeeps

LEMMA CheckpointKeeps ==
    ASSUME FlowTypes, NEW next, NEW s, Innocent(s), Checkpoint(next, s)
    PROVE  pc' \in {next, "lost"} /\ LogTyped /\ NoneSaid
<1>1. CASE cancelled
  BY <1>1, ThrowKeeps DEF Checkpoint
<1>2. CASE ~cancelled
  BY <1>2, EmitKeeps DEF Checkpoint, LogTyped, FlowTypes
<1> QED BY <1>1, <1>2

\* One milestone does not say the other.
LEMMA MilestoneKeeps ==
    ASSUME FlowTypes, NEW t \in Milestones, NEW n \in Int, Emit(<<Event(t, n)>>)
    PROVE  LogGrows /\ \A u \in Milestones \ {t} : Unsaid(u)
<1>1. t \in Types
  BY DEF Types, Outcomes, Milestones
<1>2. /\ <<Event(t, n)>> \in Seq(Entries)
      /\ \A i \in DOMAIN <<Event(t, n)>> : <<Event(t, n)>>[i].type = t
  BY <1>1, SingleEvent
<1> DEFINE s == <<Event(t, n)>>
<1> HIDE DEF s
<1>3. LogGrows
  BY <1>2, EmittedKeeps DEF Emit, FlowTypes, LogGrows, s
<1>4. ASSUME NEW u \in Milestones \ {t}
      PROVE  Unsaid(u)
  <2>1. \A i \in DOMAIN s : s[i].type # u
    BY <1>2, <1>4 DEF s
  <2>2. ~Said(u) => \A i \in DOMAIN Emitted(s) : Emitted(s)[i].type # u
    BY <1>2, <2>1, EmittedKeeps DEF FlowTypes, s
  <2> QED BY <2>2 DEF Emit, Unsaid, Said, s
<1> QED BY <1>3, <1>4

-----------------------------------------------------------------------------
(* The steps of the turn.                                                  *)

\* No step but the stop goes back into the setup, or leaves it for anything but
\* an end once the turn is cancelled; and the outcome is said at two places.
Moves ==
  /\ FlowTypes'
  /\ UNCHANGED <<cancelled, stoppedAt>>
  /\ pc \in Early => pc' \in Early \cup Failing \/ (pc = "turn" /\ ~cancelled)
  /\ pc \notin Early => pc' \notin Early
  /\ pc \in Failing => pc' \in Failing
  /\ pc \notin Failing => pc' \notin Failing \/ pc' \in {"lost", "close", "dead"}
  /\ Len(log') >= Len(log)
  /\ pc \in {"snapshot", "delivered"} \/ Unsaid("completed")
  /\ pc = "report" \/ Unsaid("terminated")

LEMMA AwaitMoves ==
    ASSUME FlowTypes,
           NEW at \in Early \cup {"delivered", "completed"},
           NEW next, NEW s, Innocent(s), Await(at, next, s),
           at \in Early => next \in Early,
           at \notin Early => next \in {"deliver", "close"}
    PROVE  Moves
<1>1. pc = at /\ pc' \in {next, "lost"} /\ LogTyped /\ NoneSaid
  <2>1. CASE Acked /\ pc' = next /\ Emit(s) /\ UNCHANGED text
    BY <2>1, EmitKeeps DEF Await, LogTyped, FlowTypes
  <2>2. CASE ~up /\ Throw
    BY <2>2, ThrowKeeps DEF Await
  <2> QED BY <2>1, <2>2 DEF Await
<1>2. UNCHANGED <<changed, failures, cancelled, stoppedAt>>
  BY DEF Await, flowVars, controlVars
<1>3. FlowTypes'
  BY <1>1, <1>2 DEF FlowTypes, LogTyped, LogGrows
<1> QED BY <1>1, <1>2, <1>3 DEF Moves, NoneSaid, Milestones, LogGrows, LogTyped, Early, Failing

LEMMA SetupMoves ==
    ASSUME FlowTypes,
           \/ ReadBinding \/ AwaitStarted \/ MakeNetwork \/ MakeProxy \/ AwaitProxy
           \/ MakeWorker \/ StartWorker \/ FetchChunk \/ Restore \/ AwaitRestored
           \/ OpenThread \/ AwaitBound
    PROVE  Moves
<1> DEFINE Set(at, next) ==
      /\ pc = at /\ pc' \in {next, "lost"} /\ LogTyped /\ NoneSaid
      /\ UNCHANGED <<changed, failures, cancelled, stoppedAt>>
<1>1. ASSUME NEW at \in Early \ {"turn"}, NEW next \in Early, Set(at, next)
      PROVE  Moves
  BY <1>1 DEF Moves, NoneSaid, Milestones, LogGrows, FlowTypes, LogTyped, Early, Failing
<1>2. ASSUME UNCHANGED <<log, text>>
      PROVE  LogTyped /\ NoneSaid
  <2>1. LogTyped
    BY <1>2 DEF LogTyped, LogGrows, FlowTypes
  <2>2. NoneSaid
    BY <1>2 DEF NoneSaid, Unsaid, Said
  <2> QED BY <2>1, <2>2
<1>3. Innocent(<<>>) /\ Innocent(<<Event("started", 0)>>) /\ Innocent(<<Event("restored", 0)>>)
      /\ Innocent(<<Event("bound", 0)>>) /\ Innocent(<<Event("thinking", 0)>>)
  <2>1. {"started", "restored", "bound", "thinking"} \subseteq Types \ Milestones
    BY DEF Types, Milestones
  <2> QED BY <2>1, EventIsInnocent, NothingIsInnocent
<1>4. ASSUME ReadBinding
      PROVE  Moves
  <2>1. Set("binding", "started")
    BY <1>4, <1>3, ThrowKeeps, CheckpointKeeps DEF ReadBinding, flowVars, controlVars
  <2> QED BY <2>1, <1>1 DEF Early
<1>5. ASSUME AwaitStarted \/ AwaitRestored
      PROVE  Moves
  BY <1>5, <1>3, AwaitMoves DEF AwaitStarted, AwaitRestored, Early
<1>13. ASSUME AwaitBound
       PROVE  Moves
  <2>1. Set("bound", "turn")
    <3>1. CASE Throw
      BY <1>13, <3>1, ThrowKeeps DEF AwaitBound, controlVars
    <3>2. CASE pc' = "turn" /\ Emit(<<Event("thinking", 0)>>) /\ UNCHANGED text
      BY <1>13, <1>3, <3>2, EmitKeeps DEF AwaitBound, controlVars, LogTyped, FlowTypes
    <3> QED BY <1>13, <3>1, <3>2 DEF AwaitBound
  <2> QED BY <2>1, <1>1 DEF Early
<1>6. ASSUME NEW at \in Early \ {"turn"}, NEW r, NEW next \in Early, Make(at, r, next)
      PROVE  Moves
  <2>1. Set(at, next)
    BY <1>6, <1>2, ThrowKeeps DEF Make, flowVars, controlVars
  <2> QED BY <2>1, <1>1
<1>7. ASSUME MakeNetwork \/ MakeProxy \/ MakeWorker
      PROVE  Moves
  BY <1>7, <1>6 DEF MakeNetwork, MakeProxy, MakeWorker, Early
<1>8. ASSUME AwaitProxy
      PROVE  Moves
  <2>1. Set("ready", "create")
    BY <1>8, <1>3, ThrowKeeps, CheckpointKeeps DEF AwaitProxy, flowVars, controlVars
  <2> QED BY <2>1, <1>1 DEF Early
<1>9. ASSUME StartWorker
      PROVE  Moves
  <2>1. Set("start", "fetch")
    BY <1>9, <1>2, ThrowKeeps DEF StartWorker
  <2> QED BY <2>1, <1>1 DEF Early
<1>10. ASSUME FetchChunk
       PROVE  Moves
  <2>1. \E next \in {"fetch", "restore"} : Set("fetch", next)
    BY <1>10, <1>2, ThrowKeeps DEF FetchChunk, SendRequest, flowVars, controlVars
  <2> QED BY <2>1, <1>1 DEF Early
<1>11. ASSUME Restore
       PROVE  Moves
  <2>1. Set("restore", "restored")
    BY <1>11, <1>3, ThrowKeeps, CheckpointKeeps DEF Restore, flowVars, controlVars
  <2> QED BY <2>1, <1>1 DEF Early
<1>12. ASSUME OpenThread
       PROVE  Moves
  <2>1. Set("thread", "bound")
    BY <1>12, <1>3, ThrowKeeps, CheckpointKeeps DEF OpenThread, flowVars, controlVars
  <2> QED BY <2>1, <1>1 DEF Early
<1> QED BY <1>4, <1>5, <1>7, <1>8, <1>9, <1>10, <1>11, <1>12, <1>13

LEMMA AnswerMoves ==
    ASSUME FlowTypes,
           \/ TurnCompleted \/ TurnRejected \/ Snapshot \/ DeliverArtifacts
           \/ AwaitDelivered \/ AwaitCompleted
    PROVE  Moves
<1>1. ASSUME TurnCompleted
      PROVE  Moves
  <2>1. Innocent(<<Event("saving", 0)>>)
    <3>1. "saving" \in Types \ Milestones
      BY DEF Types, Milestones
    <3> QED BY <3>1, EventIsInnocent
  <2>2. /\ pc = "turn" /\ LogTyped /\ NoneSaid
        /\ pc' = "lost" \/ (pc' = "snapshot" /\ ~cancelled)
    BY <1>1, <2>1, ThrowKeeps, FlushedKeeps DEF TurnCompleted
  <2>3. UNCHANGED <<changed, failures, cancelled, stoppedAt>>
    BY <1>1 DEF TurnCompleted, flowVars, controlVars
  <2> QED BY <2>2, <2>3 DEF Moves, NoneSaid, Milestones, LogGrows, FlowTypes, LogTyped, Early, Failing
<1>2. ASSUME TurnRejected
      PROVE  Moves
  BY <1>2, ThrowKeeps DEF TurnRejected, flowVars, controlVars, Moves, NoneSaid, Milestones, FlowTypes, LogTyped, LogGrows, Early, Failing
<1>3. ASSUME Snapshot
      PROVE  Moves
  <2>1. /\ pc = "snapshot" /\ pc' \in {"completed", "deliver", "lost"}
        /\ LogTyped /\ Unsaid("terminated") /\ changed' \in [found : Nat, delivered : Int]
    <3>1. CASE Throw /\ UNCHANGED changed
      BY <1>3, <3>1, ThrowKeeps DEF Snapshot, FlowTypes, NoneSaid, Milestones
    <3>2. CASE /\ UNCHANGED text
               /\ \E n \in 0..MaxChanged :
                    /\ changed' = [changed EXCEPT !.found = n]
                    /\ IF n = 0 THEN pc' = "completed" /\ Emit(<<Event("completed", 0)>>)
                       ELSE pc' = "deliver" /\ UNCHANGED log
      <4>1. pc = "snapshot" /\ text' \in [streamed : Nat, buffered : SUBSET Nat]
        BY <1>3, <3>2 DEF Snapshot, FlowTypes
      <4>2. PICK n \in 0..MaxChanged :
              /\ changed' = [changed EXCEPT !.found = n]
              /\ IF n = 0 THEN pc' = "completed" /\ Emit(<<Event("completed", 0)>>)
                 ELSE pc' = "deliver" /\ UNCHANGED log
        BY <3>2
      <4>3. changed' \in [found : Nat, delivered : Int]
        BY <4>2, TurnAssumption DEF FlowTypes
      <4>4. CASE n = 0
        BY <4>1, <4>2, <4>3, <4>4, MilestoneKeeps DEF LogTyped, Milestones
      <4>5. CASE n # 0
        BY <4>1, <4>2, <4>3, <4>5 DEF LogTyped, LogGrows, FlowTypes, Unsaid, Said
      <4> QED BY <4>4, <4>5
    <3> QED BY <1>3, <3>1, <3>2 DEF Snapshot
  <2>2. UNCHANGED <<failures, cancelled, stoppedAt>>
    BY <1>3 DEF Snapshot, flowVars, controlVars
  <2> QED BY <2>1, <2>2 DEF Moves, NoneSaid, Milestones, LogGrows, FlowTypes, LogTyped, Early, Failing
<1>4. ASSUME DeliverArtifacts
      PROVE  Moves
  <2> DEFINE left  == changed.found - changed.delivered
             batch == IF left < MaxManifest THEN left ELSE MaxManifest
  <2>1. batch \in Int
    BY TurnAssumption DEF FlowTypes
  <2>2. Innocent(<<Event("delivered", batch)>>)
    <3> HIDE DEF batch
    <3>1. "delivered" \in Types \ Milestones
      BY DEF Types, Milestones
    <3> QED BY <2>1, <3>1, EventIsInnocent
  <2>3. \/ Throw /\ UNCHANGED changed
        \/ /\ changed' = [changed EXCEPT !.delivered = @ + batch]
           /\ pc' = "delivered" /\ Emit(<<Event("delivered", batch)>>) /\ UNCHANGED text
    BY <1>4 DEF DeliverArtifacts, SendRequest
  <2>4. pc = "deliver" /\ UNCHANGED <<failures, cancelled, stoppedAt>>
    BY <1>4 DEF DeliverArtifacts, flowVars, controlVars
  <2> HIDE DEF batch
  <2>5. /\ pc' \in {"lost", "delivered"} /\ LogTyped /\ NoneSaid
        /\ changed' \in [found : Nat, delivered : Int]
    BY <2>1, <2>2, <2>3, ThrowKeeps, EmitKeeps DEF FlowTypes, LogTyped, LogGrows
  <2> QED BY <2>4, <2>5 DEF Moves, NoneSaid, Milestones, LogGrows, FlowTypes, LogTyped, Early, Failing
<1>5. ASSUME AwaitDelivered
      PROVE  Moves
  <2>1. CASE changed.delivered < changed.found
    BY <1>5, <2>1, NothingIsInnocent, AwaitMoves DEF AwaitDelivered, Early
  <2>2. CASE ~(changed.delivered < changed.found)
    <3>1. Await("delivered", "completed", <<Event("completed", 0)>>)
      BY <1>5, <2>2 DEF AwaitDelivered
    <3>2. pc = "delivered" /\ pc' \in {"completed", "lost"} /\ LogTyped
           /\ Unsaid("terminated")
      BY <3>1, ThrowKeeps, MilestoneKeeps
         DEF Await, FlowTypes, LogTyped, NoneSaid, Milestones
    <3>3. UNCHANGED <<changed, failures, cancelled, stoppedAt>>
      BY <3>1 DEF Await, flowVars, controlVars
    <3> QED BY <3>2, <3>3 DEF Moves, NoneSaid, Milestones, LogGrows, FlowTypes, LogTyped, Early, Failing
  <2> QED BY <2>1, <2>2
<1>6. ASSUME AwaitCompleted
      PROVE  Moves
  BY <1>6, NothingIsInnocent, AwaitMoves DEF AwaitCompleted, Early
<1> QED BY <1>1, <1>2, <1>3, <1>4, <1>5, <1>6

\* A step that neither emits nor streams.
Silent == UNCHANGED <<log, text, changed, cancelled, stoppedAt>>

LEMMA ResourcesAreFinite == \A S : S \subseteq Resources => IsFiniteSet(S)
<1>1. IsFiniteSet(({} \cup {"network"}) \cup {"proxy"})
  BY FS_EmptySet, FS_AddElement
<1>2. IsFiniteSet((({} \cup {"network"}) \cup {"proxy"}) \cup {"worker"})
  BY <1>1, FS_AddElement
<1>3. IsFiniteSet(Resources)
  BY <1>2 DEF Resources
<1> QED BY <1>3, FS_Subset

LEMMA FinallyMoves ==
    ASSUME FlowTypes,
           \/ AwaitLost \/ CloseClient \/ RemoveWorker \/ RemoveProxy \/ RemoveNetwork
           \/ ReportTerminated \/ AwaitTerminated
    PROVE  Moves
<1>1. ASSUME NEW at \in Failing, NEW next \in Failing, NEW r \in Resources,
             CleanUp(at, r, next)
      PROVE  Moves
  <2>1. Silent /\ pc = at /\ pc' = next /\ failures' \subseteq Resources
    BY <1>1 DEF CleanUp, Silent, flowVars, controlVars, dataVars, FlowTypes
  <2> QED BY <2>1 DEF Silent, Moves, FlowTypes, Unsaid, Said, Early, Failing
<1>2. ASSUME RemoveWorker \/ RemoveProxy \/ RemoveNetwork
      PROVE  Moves
  BY <1>1, <1>2 DEF RemoveWorker, RemoveProxy, RemoveNetwork, Failing, Resources
<1>3. ASSUME AwaitLost \/ CloseClient \/ AwaitTerminated
      PROVE  Moves
  <2>1. Silent /\ UNCHANGED failures /\ pc \in Failing /\ pc' \in Failing
    BY <1>3 DEF AwaitLost, CloseClient, AwaitTerminated, Silent, flowVars, controlVars, dataVars, Failing
  <2> QED BY <2>1 DEF Silent, Moves, FlowTypes, Unsaid, Said, Early, Failing
<1>4. ASSUME ReportTerminated
      PROVE  Moves
  <2>1. Cardinality(failures) \in Int
    <3>1. IsFiniteSet(failures)
      BY ResourcesAreFinite DEF FlowTypes
    <3> QED BY <3>1, FS_CardinalityType
  <2>2. LogGrows /\ Unsaid("completed")
    BY <1>4, <2>1, MilestoneKeeps DEF ReportTerminated, Milestones
  <2>3. /\ pc = "report" /\ pc' = "terminated"
        /\ UNCHANGED <<text, changed, failures, cancelled, stoppedAt>>
    BY <1>4 DEF ReportTerminated, flowVars, controlVars
  <2> QED BY <2>2, <2>3 DEF Moves, LogGrows, FlowTypes, Early, Failing
<1> QED BY <1>2, <1>3, <1>4

\* What runs beside the coroutine: frames of the client, docker stop, the loss of
\* the connection, abortHook and the service.
LEMMA BesideMoves ==
    ASSUME FlowTypes,
           \/ StreamText \/ ClientFails \/ StopWorker \/ Disconnect \/ Abort
           \/ WorkerDies \/ ApplyEvent
    PROVE  Moves
<1>1. ASSUME StreamText
      PROVE  Moves
  <2> DEFINE b == text.buffered \cup {text.streamed + 1}
  <2>1. b \in SUBSET Nat
    BY DEF FlowTypes
  <2>2. \/ /\ Emit(<<Delta(b)>>)
           /\ text' = [streamed |-> text.streamed + 1, buffered |-> {}]
        \/ /\ text' = [streamed |-> text.streamed + 1, buffered |-> b]
           /\ UNCHANGED log
    BY <1>1 DEF StreamText
  <2>3. UNCHANGED <<pc, changed, failures, cancelled, stoppedAt>>
    BY <1>1 DEF StreamText, flowVars, controlVars
  <2> HIDE DEF b
  <2>4. Innocent(<<Delta(b)>>)
    BY <2>1, DeltaIsInnocent
  <2>5. LogGrows /\ NoneSaid
    BY <2>2, <2>4, EmitKeeps DEF FlowTypes, NoneSaid, LogGrows, Unsaid, Said
  <2>6. text' \in [streamed : Nat, buffered : SUBSET Nat]
    <3>1. text.streamed + 1 \in Nat /\ {} \in SUBSET Nat
      BY DEF FlowTypes
    <3>2. PICK n : n = text.streamed + 1
      OBVIOUS
    <3>3. \E c \in SUBSET Nat : text' = [streamed |-> n, buffered |-> c]
      BY <2>1, <2>2, <3>1, <3>2
    <3> QED BY <3>1, <3>2, <3>3
  <2> QED BY <2>3, <2>5, <2>6 DEF Moves, NoneSaid, Milestones, LogGrows, FlowTypes
<1>2. ASSUME ClientFails \/ StopWorker \/ Disconnect \/ Abort \/ ApplyEvent
      PROVE  Moves
  <2>1. Silent /\ UNCHANGED <<pc, failures>>
    BY <1>2 DEF ClientFails, StopWorker, Disconnect, Abort, ApplyEvent, Silent, flowVars, controlVars, dataVars
  <2> QED BY <2>1 DEF Silent, Moves, FlowTypes, Unsaid, Said
<1>3. ASSUME WorkerDies
      PROVE  Moves
  <2>1. Silent /\ UNCHANGED failures /\ pc' = "dead"
    BY <1>3 DEF WorkerDies, Silent, flowVars, controlVars, dataVars
  <2> QED BY <2>1 DEF Silent, Moves, FlowTypes, Unsaid, Said, Early, Failing
<1> QED BY <1>1, <1>2, <1>3

-----------------------------------------------------------------------------
(* The invariant.                                                          *)

LEMMA StopInvInit == TurnInit => StopInv
BY DEF TurnInit, StopInv, FlowTypes, StopIsKept, NotYetCompleted, StoppedTurnsBack, Said, Early

LEMMA StopInvStep == StopInv /\ [Next]_vars => StopInv'
<1> SUFFICES ASSUME StopInv, [Next]_vars
             PROVE  StopInv'
  OBVIOUS
<1>1. ASSUME Moves
      PROVE  StopInv'
  <2>1. StopIsKept' /\ FlowTypes'
    BY <1>1 DEF Moves, StopInv, StopIsKept
  <2>2. NotYetCompleted'
    BY <1>1 DEF Moves, StopInv, NotYetCompleted, Unsaid, Early
  <2>3. StoppedTurnsBack'
    <3> SUFFICES ASSUME stoppedAt' \in Early
                 PROVE  pc' \in Early \cup Failing /\ ~Said("completed")'
      BY DEF StoppedTurnsBack
    <3>1. stoppedAt \in Early /\ cancelled
      BY <1>1 DEF Moves, StopInv, StopIsKept, Early
    <3>2. pc \in Early \cup Failing /\ ~Said("completed")
      BY <3>1 DEF StopInv, StoppedTurnsBack
    <3>3. pc \notin {"snapshot", "delivered"}
      BY <3>2 DEF Early, Failing
    <3> QED BY <1>1, <3>1, <3>2, <3>3 DEF Moves, Unsaid
  <2> QED BY <2>1, <2>2, <2>3 DEF StopInv
<1>2. ASSUME Turn
      PROVE  StopInv'
  BY <1>1, <1>2, SetupMoves, AnswerMoves, FinallyMoves DEF Turn, StopInv
<1>3. ASSUME Stop
      PROVE  StopInv'
  <2>1. /\ UNCHANGED <<pc, log, text, changed, failures>>
        /\ stoppedAt' = pc /\ cancelled'
    BY <1>3 DEF Stop, dataVars
  <2>2. NotYetCompleted' /\ StoppedTurnsBack'
    BY <2>1 DEF StopInv, NotYetCompleted, StoppedTurnsBack, Said
  <2> QED BY <2>1, <2>2 DEF StopInv, FlowTypes, StopIsKept
<1>4. ASSUME Beside \/ Abort \/ WorkerDies \/ ApplyEvent
      PROVE  StopInv'
  BY <1>1, <1>3, <1>4, BesideMoves DEF Beside, StopInv
<1>5. ASSUME UNCHANGED vars
      PROVE  StopInv'
  BY <1>5 DEF vars, flowVars, controlVars, dataVars, StopInv, FlowTypes, StopIsKept, NotYetCompleted,
              StoppedTurnsBack, Said
<1> QED BY <1>2, <1>4, <1>5 DEF Next

\* A stop (service.turn.cancel, or the turn's deadline) that comes before the
\* model has answered is never followed by run.completed: every way from the
\* setup to the snapshot passes a checkpoint.
THEOREM EarlyStopPrevails == Spec => []StopPrevails
<1>1. StopInv => StopPrevails
  BY DEF StopInv, StoppedTurnsBack, StopPrevails, Early
<1> QED BY <1>1, StopInvInit, StopInvStep, PTL DEF Spec

-----------------------------------------------------------------------------
(* The text: a log L that carries it, of n units of which B are buffered.  *)

\* Each delta carries units that were streamed, after those of the deltas before
\* it and before those still buffered.
Ordered(L, n, B) ==
  /\ L \in Seq(Entries) /\ n \in Nat /\ B \in SUBSET (1..n)
  /\ \A j, k \in DOMAIN L : j < k => \A u \in L[j].units, v \in L[k].units : u < v
  /\ \A j \in DOMAIN L : L[j].units \subseteq 1..n /\ \A u \in L[j].units, v \in B : u < v

\* What is not buffered has been sent.
Whole(L, n, B) == \A u \in 1..n : u \in B \/ \E j \in DOMAIN L : u \in L[j].units

\* Text may come late, after the outcome; not while the turn saves.
Saving == {"snapshot", "deliver", "delivered", "completed"}

TextHolds ==
  /\ Ordered(log, text.streamed, text.buffered)
  /\ up => Whole(log, text.streamed, text.buffered)
  /\ pc \in Saving => text.buffered = {} /\ ~streaming

\* What a step must do that makes K, with n units streamed, of a log L: an outcome
\* is its last event, and all the text is before it.
Decides(K, L, n) ==
  \A i \in DOMAIN K \ DOMAIN L :
    K[i].type \in Outcomes => \A u \in 1..n : \E j \in 1..i : u \in K[j].units

TextGoesOn == TextHolds' /\ Decides(log', log, text.streamed)

\* The elements of a log one event longer.
LEMMA OneMore ==
    ASSUME NEW L \in Seq(Entries), NEW e \in Entries
    PROVE  /\ L \o <<e>> \in Seq(Entries)
           /\ DOMAIN (L \o <<e>>) = 1..(Len(L) + 1) /\ DOMAIN L = 1..Len(L) /\ Len(L) \in Nat
           /\ \A i \in DOMAIN L : (L \o <<e>>)[i] = L[i]
           /\ (L \o <<e>>)[Len(L) + 1] = e
OBVIOUS

\* An event that carries no text.
LEMMA PlainEvent ==
    ASSUME NEW L, NEW n, NEW B, Ordered(L, n, B), NEW e \in Entries, e.units = {}
    PROVE  /\ Ordered(L \o <<e>>, n, B)
           /\ Whole(L, n, B) => Whole(L \o <<e>>, n, B)
           /\ (e.type \in Outcomes => Whole(L, n, {})) => Decides(L \o <<e>>, L, n)
<1> DEFINE M == L \o <<e>>
<1>1. /\ M \in Seq(Entries) /\ DOMAIN M = 1..(Len(L) + 1) /\ DOMAIN L = 1..Len(L)
      /\ \A i \in DOMAIN L : M[i] = L[i]
      /\ M[Len(L) + 1] = e /\ Len(L) \in Nat
  BY OneMore DEF Ordered
<1> HIDE DEF M
<1>2. \A i \in DOMAIN M : i \in DOMAIN L \/ (i = Len(L) + 1 /\ M[i] = e)
  BY <1>1
<1>3. Ordered(M, n, B)
  BY <1>1, <1>2 DEF Ordered
<1>4. ASSUME Whole(L, n, B)
      PROVE  Whole(M, n, B)
  <2>1. \A j \in DOMAIN L : j \in DOMAIN M
    BY <1>1
  <2> QED BY <1>1, <1>4, <2>1 DEF Whole
<1>5. ASSUME e.type \in Outcomes => Whole(L, n, {})
      PROVE  Decides(M, L, n)
  <2> SUFFICES ASSUME NEW i \in DOMAIN M \ DOMAIN L, M[i].type \in Outcomes, NEW u \in 1..n
               PROVE  \E j \in 1..i : u \in M[j].units
    BY DEF Decides
  <2>1. i = Len(L) + 1 /\ M[i] = e
    BY <1>2
  <2>2. PICK j \in DOMAIN L : u \in L[j].units
    BY <1>5, <2>1 DEF Whole
  <2>3. j \in 1..i /\ M[j] = L[j]
    BY <1>1, <2>1
  <2> QED BY <2>2, <2>3
<1> QED BY <1>3, <1>4, <1>5 DEF M

\* A delta that carries what was buffered.
LEMMA DeltaEvent ==
    ASSUME NEW L, NEW n, NEW B, Ordered(L, n, B)
    PROVE  /\ Ordered(L \o <<Delta(B)>>, n, {})
           /\ Whole(L, n, B) => Whole(L \o <<Delta(B)>>, n, {})
           /\ Decides(L \o <<Delta(B)>>, L, n)
<1>0. B \in SUBSET Nat /\ n \in Nat /\ B \subseteq 1..n
  BY DEF Ordered
<1> DEFINE e == Delta(B)
           M == L \o <<e>>
<1>e. e \in Entries /\ e.units = B /\ e.type = "delta"
  BY <1>0, SingleDelta DEF Delta
<1> HIDE DEF e
<1>1. /\ M \in Seq(Entries) /\ DOMAIN M = 1..(Len(L) + 1) /\ DOMAIN L = 1..Len(L)
      /\ \A i \in DOMAIN L : M[i] = L[i]
      /\ M[Len(L) + 1] = e /\ Len(L) \in Nat
  BY <1>e, OneMore DEF Ordered
<1> HIDE DEF M
<1>2. \A i \in DOMAIN M : i \in DOMAIN L \/ (i = Len(L) + 1 /\ M[i] = e)
  BY <1>1
<1>3. Ordered(M, n, {})
  <2>1. ASSUME NEW j \in DOMAIN M, NEW k \in DOMAIN M, j < k,
               NEW u \in M[j].units, NEW v \in M[k].units
        PROVE  u < v
    <3>1. j \in DOMAIN L /\ M[j] = L[j]
      BY <1>1, <2>1
    <3>2. CASE k \in DOMAIN L
      BY <1>1, <2>1, <3>1, <3>2 DEF Ordered
    <3>3. CASE k = Len(L) + 1 /\ M[k] = e
      BY <1>e, <2>1, <3>1, <3>3 DEF Ordered
    <3> QED BY <1>2, <3>2, <3>3
  <2>2. ASSUME NEW j \in DOMAIN M
        PROVE  M[j].units \subseteq 1..n
    BY <1>0, <1>1, <1>2, <1>e DEF Ordered
  <2> QED BY <1>0, <1>1, <2>1, <2>2 DEF Ordered
<1>4. ASSUME Whole(L, n, B)
      PROVE  Whole(M, n, {})
  <2> SUFFICES ASSUME NEW u \in 1..n
               PROVE  \E j \in DOMAIN M : u \in M[j].units
    BY DEF Whole
  <2>1. Len(L) + 1 \in DOMAIN M /\ \A j \in DOMAIN L : j \in DOMAIN M
    BY <1>1
  <2>2. u \in B \/ \E j \in DOMAIN L : u \in L[j].units
    BY <1>4 DEF Whole
  <2> QED BY <1>1, <1>e, <2>1, <2>2
<1>5. Decides(M, L, n)
  BY <1>2, <1>e DEF Decides, Outcomes
<1> QED BY <1>3, <1>4, <1>5 DEF M, e

\* What flushDelta and the event after it do to a log.
LEMMA FlushedText ==
    ASSUME FlowTypes, TextHolds, NEW t \in Types, Flushed(<<Event(t, 0)>>)
    PROVE  /\ text'.streamed = text.streamed /\ text'.buffered = {}
           /\ Ordered(log', text.streamed, {}) /\ Decides(log', log, text.streamed)
           /\ up => Whole(log', text.streamed, {})
<1> DEFINE n == text.streamed
           B == text.buffered
           e == Event(t, 0)
           d == Delta(B)
<1>1. e \in Entries /\ e.units = {} /\ e.type = t
  BY DEF Event, Entries
<1>2. d \in Entries /\ Ordered(log, n, B) /\ (up => Whole(log, n, B))
  BY SingleDelta DEF TextHolds, FlowTypes
<1>3. text'.streamed = n /\ text'.buffered = {}
  BY DEF Flushed, FlowTypes
<1>4. log' = Emitted((IF B # {} THEN <<d>> ELSE <<>>) \o <<e>>)
  BY DEF Flushed
<1> HIDE DEF e, d
<1> SUFFICES /\ Ordered(log', n, {}) /\ Decides(log', log, n)
             /\ up => Whole(log', n, {})
  BY <1>3
<1>5. CASE ~up
  <2>1. log' = log
    BY <1>4, <1>5 DEF Emitted
  <2>2. Ordered(log, n, {}) /\ Decides(log, log, n)
    BY <1>2 DEF Ordered, Decides
  <2> QED BY <1>2, <1>5, <2>1, <2>2
<1>6. CASE up /\ B = {}
  <2>1. log' = log \o <<e>>
    <3>1. <<>> \o <<e>> = <<e>>
      BY <1>1, <1>2
    <3> QED BY <1>4, <1>6, <3>1 DEF Emitted
  <2>2. Ordered(log, n, {}) /\ Whole(log, n, {})
    BY <1>2, <1>6
  <2> QED BY <1>1, <2>1, <2>2, PlainEvent
<1>7. CASE up /\ B # {}
  <2> DEFINE M == log \o <<d>>
  <2>1. Ordered(M, n, {}) /\ Whole(M, n, {}) /\ Decides(M, log, n)
    BY <1>2, <1>7, DeltaEvent DEF d
  <2>2. log' = log \o (<<d>> \o <<e>>)
    BY <1>4, <1>7 DEF Emitted
  <2>3. log' = M \o <<e>>
    <3>1. log \in Seq(Entries) /\ <<d>> \in Seq(Entries) /\ <<e>> \in Seq(Entries)
      BY <1>1, <1>2 DEF FlowTypes
    <3> QED BY <2>2, <3>1, ConcatAssociative
  <2>4. /\ Ordered(log', n, {}) /\ Whole(log', n, {}) /\ Decides(log', M, n)
        /\ M \in Seq(Entries) /\ DOMAIN log' = 1..(Len(M) + 1) /\ DOMAIN M = 1..Len(M)
        /\ \A i \in DOMAIN M : log'[i] = M[i]
    <3>1. Ordered(log', n, {}) /\ Whole(log', n, {}) /\ Decides(log', M, n)
      BY <1>1, <2>1, <2>3, PlainEvent
    <3>2. M \in Seq(Entries)
      BY <2>1 DEF Ordered
    <3> QED BY ONLY <1>1, <2>3, <3>1, <3>2, OneMore
  <2>5. \A i \in DOMAIN log' : i \in DOMAIN M \/ i \in DOMAIN log' \ DOMAIN M
    OBVIOUS
  <2>6. \A i \in DOMAIN M : (1..i) \subseteq DOMAIN M
    BY <2>4
  <2> HIDE DEF M
  <2>7. Decides(log', log, n)
    <3> SUFFICES ASSUME NEW i \in DOMAIN log' \ DOMAIN log, log'[i].type \in Outcomes,
                        NEW u \in 1..n
                 PROVE  \E j \in 1..i : u \in log'[j].units
      BY DEF Decides
    <3>1. CASE i \in DOMAIN M
      <4>1. PICK j \in 1..i : u \in M[j].units
        BY <2>1, <2>4, <3>1 DEF Decides
      <4>2. log'[j] = M[j]
        BY <2>4, <2>6, <3>1, <4>1
      <4> QED BY <4>1, <4>2
    <3>2. CASE i \notin DOMAIN M
      BY <2>4, <3>2 DEF Decides
    <3> QED BY <3>1, <3>2
  <2> QED BY <2>4, <2>7
<1> QED BY <1>5, <1>6, <1>7

\* A step that throws flushes what is buffered before it says how the turn ended.
LEMMA ThrowHolds ==
    ASSUME FlowTypes, TextHolds, Throw, UNCHANGED up
    PROVE  TextGoesOn
<1> DEFINE outcome == IF cancelled THEN "cancelled" ELSE "failed"
<1>1. outcome \in Types /\ Flushed(<<Event(outcome, 0)>>) /\ pc' = "lost"
  BY DEF Throw, Types, Outcomes
<1> HIDE DEF outcome
<1>2. /\ text'.streamed = text.streamed /\ text'.buffered = {}
      /\ Ordered(log', text.streamed, {}) /\ Decides(log', log, text.streamed)
      /\ up => Whole(log', text.streamed, {})
  BY <1>1, FlushedText
<1>3. pc' \notin Saving
  BY <1>1 DEF Saving
<1> QED BY <1>2, <1>3 DEF TextHolds, TextGoesOn

\* A step that emits an event without text.
LEMMA EmitText ==
    ASSUME FlowTypes, TextHolds, NEW t \in Types, NEW k \in Int, Emit(<<Event(t, k)>>),
           t \in Outcomes => text.buffered = {}
    PROVE  /\ Ordered(log', text.streamed, text.buffered) /\ Decides(log', log, text.streamed)
           /\ up => Whole(log', text.streamed, text.buffered)
<1> DEFINE e == Event(t, k)
<1>1. e \in Entries /\ e.units = {} /\ e.type = t
  BY DEF Event, Entries
<1>2. log' = log \/ (up /\ log' = log \o <<e>>)
  BY DEF Emit, Emitted
<1> HIDE DEF e
<1>3. CASE log' = log
  BY <1>3 DEF TextHolds, Decides
<1>4. CASE up /\ log' = log \o <<e>>
  BY <1>1, <1>4, PlainEvent DEF TextHolds
<1> QED BY <1>2, <1>3, <1>4

\* The turn begins to save only by turn/completed.
Keeps == pc' \in Saving => pc \in Saving /\ (streaming' => streaming)

LEMMA QuietHolds ==
    ASSUME TextHolds, UNCHANGED <<log, text>>, up' => up, Keeps
    PROVE  TextGoesOn
BY DEF TextHolds, Keeps, TextGoesOn, Decides

LEMMA EmitHolds ==
    ASSUME FlowTypes, TextHolds, UNCHANGED <<text, up>>, Keeps,
           NEW t \in Types \ Outcomes, NEW k \in Int, Emit(<<Event(t, k)>>)
    PROVE  TextGoesOn
<1>1. /\ Ordered(log', text.streamed, text.buffered) /\ Decides(log', log, text.streamed)
      /\ up => Whole(log', text.streamed, text.buffered)
  BY EmitText
<1> QED BY <1>1 DEF TextHolds, Keeps, TextGoesOn

\* ... or nothing.
LEMMA EmptyHolds ==
    ASSUME FlowTypes, TextHolds, UNCHANGED <<text, up>>, Keeps, Emit(<<>>)
    PROVE  TextGoesOn
<1>1. log' = log
  BY DEF FlowTypes, Emit, Emitted
<1> QED BY <1>1, QuietHolds

\* run.completed is said when nothing is buffered.
LEMMA CompletedHolds ==
    ASSUME FlowTypes, TextHolds, UNCHANGED <<text, up, streaming>>, pc \in Saving,
           Emit(<<Event("completed", 0)>>)
    PROVE  TextGoesOn
<1>1. /\ Ordered(log', text.streamed, text.buffered) /\ Decides(log', log, text.streamed)
      /\ up => Whole(log', text.streamed, text.buffered)
  BY EmitText DEF TextHolds, Types, Outcomes
<1> QED BY <1>1 DEF TextHolds, TextGoesOn

\* Text that comes, in time or late, is kept or sent.
LEMMA StreamHolds == ASSUME FlowTypes, TextHolds, StreamText PROVE TextGoesOn
<1>1. /\ streaming /\ pc' = pc /\ up' = up
      /\ text.streamed \in Nat /\ log \in Seq(Entries)
  BY DEF StreamText, flowVars, controlVars, FlowTypes
<1>2. PICK n \in Nat : n = text.streamed
  BY <1>1
<1>3. PICK B : B = text.buffered \cup {n + 1}
  OBVIOUS
<1>4. \/ /\ Emit(<<Delta(B)>>) /\ text'.streamed = n + 1 /\ text'.buffered = {}
      \/ /\ UNCHANGED log /\ text'.streamed = n + 1 /\ text'.buffered = B
  BY <1>2, <1>3 DEF StreamText
<1>5. Ordered(log, n, text.buffered) /\ (up => Whole(log, n, text.buffered))
  BY <1>2 DEF TextHolds
<1>6. Ordered(log, n + 1, B)
  <2>1. B \in SUBSET (1..(n + 1))
    BY <1>3, <1>5 DEF Ordered
  <2>2. ASSUME NEW j \in DOMAIN log
        PROVE  log[j].units \subseteq 1..(n + 1) /\ \A u \in log[j].units, v \in B : u < v
    BY <1>3, <1>5 DEF Ordered
  <2> QED BY <1>2, <1>5, <2>1, <2>2 DEF Ordered
<1>7. up => Whole(log, n + 1, B)
  <2> SUFFICES ASSUME up, NEW u \in 1..(n + 1)
               PROVE  u \in B \/ \E j \in DOMAIN log : u \in log[j].units
    BY DEF Whole
  <2>1. u \in 1..n \/ u = n + 1
    BY <1>2
  <2> QED BY <1>3, <1>5, <2>1 DEF Whole
<1>8. pc' \notin Saving
  BY <1>1 DEF TextHolds
<1>9. ASSUME UNCHANGED log, text'.streamed = n + 1, text'.buffered = B
      PROVE  TextGoesOn
  BY <1>1, <1>6, <1>7, <1>8, <1>9 DEF TextHolds, TextGoesOn, Decides
<1>10. CASE Emit(<<Delta(B)>>) /\ text'.streamed = n + 1 /\ text'.buffered = {}
  <2>1. CASE ~up
    <3>1. log' = log /\ Ordered(log, n + 1, {})
      BY <1>6, <1>10, <2>1 DEF Emit, Emitted, Ordered
    <3> QED BY <1>1, <1>8, <1>10, <2>1, <3>1 DEF TextHolds, TextGoesOn, Decides
  <2>2. CASE up
    <3>1. log' = log \o <<Delta(B)>>
      BY <1>10, <2>2 DEF Emit, Emitted
    <3>2. Ordered(log', n + 1, {}) /\ Whole(log', n + 1, {}) /\ Decides(log', log, n + 1)
      BY <1>6, <1>7, <2>2, <3>1, DeltaEvent
    <3>3. Decides(log', log, n)
      BY <1>2, <3>2 DEF Decides
    <3> QED BY <1>1, <1>2, <1>8, <1>10, <3>2, <3>3 DEF TextHolds, TextGoesOn
  <2> QED BY <2>1, <2>2
<1> QED BY <1>4, <1>9, <1>10

LEMMA CheckpointHolds ==
    ASSUME FlowTypes, TextHolds, UNCHANGED up,
           NEW next, next \notin Saving,
           \/ Checkpoint(next, <<>>)
           \/ \E t \in Types \ Outcomes : Checkpoint(next, <<Event(t, 0)>>)
    PROVE  TextGoesOn
<1>1. CASE cancelled
  BY <1>1, ThrowHolds DEF Checkpoint
<1>2. CASE ~cancelled
  <2>1. pc' = next /\ UNCHANGED text /\ Keeps
    BY <1>2 DEF Checkpoint, Keeps
  <2>2. Emit(<<>>) \/ \E t \in Types \ Outcomes : Emit(<<Event(t, 0)>>)
    BY <1>2 DEF Checkpoint
  <2>3. ASSUME NEW t \in Types \ Outcomes, Emit(<<Event(t, 0)>>)
        PROVE  TextGoesOn
    <3>1. 0 \in Int
      OBVIOUS
    <3> QED BY <2>1, <2>3, <3>1, EmitHolds
  <2>4. Emit(<<>>) => TextGoesOn
    BY <2>1, EmptyHolds
  <2> QED BY <2>2, <2>3, <2>4
<1> QED BY <1>1, <1>2

LEMMA AwaitHolds ==
    ASSUME FlowTypes, TextHolds, NEW at, NEW next,
           next \in Saving => at \in Saving, Await(at, next, <<>>)
    PROVE  TextGoesOn
<1>1. UNCHANGED <<up, streaming>> /\ pc = at
  BY DEF Await, flowVars, controlVars
<1>2. CASE Throw
  BY <1>1, <1>2, ThrowHolds
<1>3. CASE ~Throw
  <2>1. pc' = next /\ UNCHANGED text /\ Emit(<<>>)
    BY <1>3 DEF Await
  <2>2. Keeps
    BY <1>1, <2>1 DEF Keeps
  <2> QED BY <1>1, <2>1, <2>2, EmptyHolds
<1> QED BY <1>2, <1>3

LEMMA SetupHolds ==
    ASSUME FlowTypes, TextHolds,
           \/ ReadBinding \/ AwaitStarted \/ MakeNetwork \/ MakeProxy \/ AwaitProxy
           \/ MakeWorker \/ StartWorker \/ FetchChunk \/ Restore \/ AwaitRestored
           \/ OpenThread \/ AwaitBound
    PROVE  TextGoesOn
<1>1. UNCHANGED up
  BY DEF ReadBinding, AwaitStarted, MakeNetwork, MakeProxy, AwaitProxy, MakeWorker, StartWorker,
         FetchChunk, Restore, AwaitRestored, OpenThread, AwaitBound, Await, Make, flowVars,
         controlVars
<1>2. {"started", "restored", "bound", "thinking"} \subseteq Types \ Outcomes
  BY DEF Types, Outcomes
<1>3. CASE Throw
  BY <1>1, <1>3, ThrowHolds
<1>4. ASSUME UNCHANGED <<log, text>>, pc' \in Early
      PROVE  TextGoesOn
  <2>1. Keeps
    BY <1>4 DEF Keeps, Early, Saving
  <2> QED BY <1>1, <1>4, <2>1, QuietHolds
<1>5. ASSUME NEW next \in Early, NEW t \in {"started", "restored", "bound", "thinking"},
             Checkpoint(next, <<Event(t, 0)>>) \/ Checkpoint(next, <<>>)
      PROVE  TextGoesOn
  <2>1. next \notin Saving
    BY DEF Early, Saving
  <2> QED BY <1>1, <1>2, <1>5, <2>1, CheckpointHolds
<1>6. ASSUME AwaitStarted \/ AwaitRestored
      PROVE  TextGoesOn
  <2>1. {"network", "thread"} \cap Saving = {}
    BY DEF Saving
  <2> QED BY <1>6, <2>1, AwaitHolds DEF AwaitStarted, AwaitRestored
<1>10. ASSUME AwaitBound, ~Throw
       PROVE  TextGoesOn
  <2>1. pc' = "turn" /\ UNCHANGED text /\ Emit(<<Event("thinking", 0)>>)
    BY <1>10 DEF AwaitBound
  <2>2. Keeps /\ 0 \in Int
    BY <2>1 DEF Keeps, Saving
  <2> QED BY <1>1, <1>2, <2>1, <2>2, EmitHolds
<1>7. ASSUME MakeNetwork \/ MakeProxy \/ MakeWorker
      PROVE  Throw \/ (UNCHANGED <<log, text>> /\ pc' \in Early)
  BY <1>7 DEF MakeNetwork, MakeProxy, MakeWorker, Make, Early
<1>8. ASSUME StartWorker \/ FetchChunk
      PROVE  Throw \/ (UNCHANGED <<log, text>> /\ pc' \in Early)
  BY <1>8 DEF StartWorker, FetchChunk, SendRequest, Early
<1>9. ASSUME ReadBinding \/ AwaitProxy \/ Restore \/ OpenThread
      PROVE  Throw \/ \E next \in Early, t \in {"started", "restored", "bound", "thinking"} :
                        Checkpoint(next, <<Event(t, 0)>>) \/ Checkpoint(next, <<>>)
  <2>1. {"started", "create", "restored", "bound"} \subseteq Early
    BY DEF Early
  <2>2. CASE ReadBinding
    BY <2>1, <2>2 DEF ReadBinding
  <2>3. CASE AwaitProxy
    BY <2>1, <2>3 DEF AwaitProxy
  <2>4. CASE Restore
    BY <2>1, <2>4 DEF Restore
  <2>5. CASE OpenThread
    BY <2>1, <2>5 DEF OpenThread
  <2> QED BY <1>9, <2>2, <2>3, <2>4, <2>5
<1> QED BY <1>3, <1>4, <1>5, <1>6, <1>7, <1>8, <1>9, <1>10

LEMMA AnswerHolds ==
    ASSUME FlowTypes, TextHolds,
           \/ TurnCompleted \/ TurnRejected \/ Snapshot \/ DeliverArtifacts
           \/ AwaitDelivered \/ AwaitCompleted
    PROVE  TextGoesOn
<1>1. UNCHANGED up
  BY DEF TurnCompleted, TurnRejected, Snapshot, DeliverArtifacts, AwaitDelivered, AwaitCompleted,
         Await, flowVars, controlVars
<1>2. CASE Throw
  BY <1>1, <1>2, ThrowHolds
<1>3. ASSUME TurnCompleted, ~Throw
      PROVE  TextGoesOn
  <2>1. ~streaming' /\ Flushed(<<Event("saving", 0)>>) /\ "saving" \in Types
    BY <1>3 DEF TurnCompleted, Types
  <2>2. /\ text'.streamed = text.streamed /\ text'.buffered = {}
        /\ Ordered(log', text.streamed, {}) /\ Decides(log', log, text.streamed)
        /\ up => Whole(log', text.streamed, {})
    BY <2>1, FlushedText
  <2> QED BY <1>1, <2>1, <2>2 DEF TextHolds, TextGoesOn
<1>4. TurnRejected => Throw
  BY DEF TurnRejected
<1>5. ASSUME Snapshot, ~Throw
      PROVE  TextGoesOn
  <2>1. /\ pc = "snapshot" /\ UNCHANGED <<text, streaming>>
        /\ Emit(<<Event("completed", 0)>>) \/ UNCHANGED log
    BY <1>5 DEF Snapshot, flowVars
  <2>2. pc \in Saving /\ Keeps
    BY <2>1 DEF Saving, Keeps
  <2>3. CASE Emit(<<Event("completed", 0)>>)
    BY <1>1, <2>1, <2>2, <2>3, CompletedHolds
  <2>4. CASE UNCHANGED log
    BY <1>1, <2>1, <2>2, <2>4, QuietHolds
  <2> QED BY <2>1, <2>3, <2>4
<1>6. ASSUME DeliverArtifacts, ~Throw
      PROVE  TextGoesOn
  <2> DEFINE left  == changed.found - changed.delivered
             batch == IF left < MaxManifest THEN left ELSE MaxManifest
  <2>1. /\ pc = "deliver" /\ UNCHANGED <<text, streaming>>
        /\ Emit(<<Event("delivered", batch)>>)
    BY <1>6 DEF DeliverArtifacts, SendRequest, flowVars
  <2>2. batch \in Int
    BY TurnAssumption DEF FlowTypes
  <2> HIDE DEF batch
  <2>3. Keeps /\ "delivered" \in Types \ Outcomes
    BY <2>1 DEF Keeps, Saving, Types, Outcomes
  <2> QED BY <1>1, <2>1, <2>2, <2>3, EmitHolds
<1>7. ASSUME AwaitDelivered, ~Throw
      PROVE  TextGoesOn
  <2>1. CASE changed.delivered < changed.found
    <3>1. "delivered" \in Saving
      BY DEF Saving
    <3> QED BY <1>7, <2>1, <3>1, AwaitHolds DEF AwaitDelivered
  <2>2. CASE ~(changed.delivered < changed.found)
    <3>1. pc = "delivered" /\ UNCHANGED <<text, streaming>> /\ Emit(<<Event("completed", 0)>>)
      BY <1>7, <2>2 DEF AwaitDelivered, Await, flowVars
    <3>2. pc \in Saving
      BY <3>1 DEF Saving
    <3> QED BY <1>1, <3>1, <3>2, CompletedHolds
  <2> QED BY <2>1, <2>2
<1>8. ASSUME AwaitCompleted
      PROVE  TextGoesOn
  <2>1. "close" \notin Saving
    BY DEF Saving
  <2> QED BY <1>8, <2>1, AwaitHolds DEF AwaitCompleted
<1> QED BY <1>2, <1>3, <1>4, <1>5, <1>6, <1>7, <1>8

LEMMA FinallyHolds ==
    ASSUME FlowTypes, TextHolds,
           \/ AwaitLost \/ CloseClient \/ RemoveWorker \/ RemoveProxy \/ RemoveNetwork
           \/ ReportTerminated \/ AwaitTerminated
    PROVE  TextGoesOn
<1>1. UNCHANGED <<up, text>> /\ pc' \in Failing
  BY DEF AwaitLost, CloseClient, RemoveWorker, RemoveProxy, RemoveNetwork, CleanUp,
         ReportTerminated, AwaitTerminated, flowVars, controlVars, dataVars, Failing
<1>2. Keeps
  BY <1>1 DEF Keeps, Failing, Saving
<1>3. CASE UNCHANGED log
  BY <1>1, <1>2, <1>3, QuietHolds
<1>4. CASE ReportTerminated
  <2>1. Cardinality(failures) \in Int
    <3>1. IsFiniteSet(failures)
      BY ResourcesAreFinite DEF FlowTypes
    <3> QED BY <3>1, FS_CardinalityType
  <2>2. "terminated" \in Types \ Outcomes
    BY DEF Types, Outcomes
  <2>3. Emit(<<Event("terminated", Cardinality(failures))>>)
    BY <1>4 DEF ReportTerminated
  <2> QED BY <1>1, <1>2, <2>1, <2>2, <2>3, EmitHolds
<1>5. UNCHANGED log \/ ReportTerminated
  BY DEF AwaitLost, CloseClient, RemoveWorker, RemoveProxy, RemoveNetwork, CleanUp,
         AwaitTerminated, dataVars
<1> QED BY <1>3, <1>4, <1>5

LEMMA BesideHolds ==
    ASSUME FlowTypes, TextHolds,
           \/ Stop \/ ClientFails \/ StopWorker \/ Disconnect \/ Abort \/ WorkerDies \/ ApplyEvent
           \/ UNCHANGED vars
    PROVE  TextGoesOn
<1>1. UNCHANGED <<log, text, streaming>> /\ (up' => up) /\ pc' \in {pc, "dead"}
  BY DEF Stop, ClientFails, StopWorker, Disconnect, Abort, WorkerDies, ApplyEvent, flowVars,
         controlVars, dataVars, vars
<1>2. Keeps
  BY <1>1 DEF Keeps, Saving
<1> QED BY <1>1, <1>2, QuietHolds

LEMMA TextInit == TurnInit => TextHolds
<1> SUFFICES ASSUME TurnInit
             PROVE  TextHolds
  OBVIOUS
<1>1. /\ text.streamed = 0 /\ text.buffered = {} /\ log = <<>> /\ DOMAIN log = {}
      /\ log \in Seq(Entries) /\ 1..0 = {} /\ ~streaming
  BY DEF TurnInit
<1> QED BY <1>1 DEF TextHolds, Ordered, Whole

LEMMA TextStep == FlowTypes /\ TextHolds /\ [Next]_vars => TextGoesOn
BY SetupHolds, AnswerHolds, FinallyHolds, StreamHolds, BesideHolds DEF Next, Turn, Beside

\* The events carry the text in order, each unit once, and no turn says how it
\* ended before all the text that has come by then is in the events before: a turn
\* that ends as completed has flushed it before it saves, one that throws anywhere
\* else, or is stopped, before it says so.  Text may still come after that, from a
\* client that has failed or is being closed.
THEOREM TextIsKept == Spec => NoTextLost
<1>1. TextGoesOn => TextHolds'
  BY DEF TextGoesOn
<1>2. TextGoesOn => [/\ TextInOrder'
                     /\ \A i \in DOMAIN log' \ DOMAIN log :
                          log'[i].type \in Outcomes
                            => \A u \in 1..text.streamed : \E j \in 1..i : u \in log'[j].units]_vars
  BY DEF TextGoesOn, TextHolds, Ordered, TextInOrder, Decides
<1>3. StopInv => FlowTypes
  BY DEF StopInv
<1>4. FlowTypes /\ TextHolds /\ [Next]_vars => TextGoesOn
  BY TextStep
<1> QED BY <1>1, <1>2, <1>3, <1>4, StopInvInit, StopInvStep, TextInit, PTL DEF Spec, NoTextLost

-----------------------------------------------------------------------------
(* A clean report means that what was noted as created is gone, whatever   *)
(* docker commands fail, time out, or take effect after they timed out.    *)

LastSteps == {"terminated", "exit", "dead"}

TaskTypes ==
  /\ task \in [status : Outcomes \cup {"running"}, artifacts : Int, terminated : BOOLEAN]
  /\ applied \in Nat /\ applied <= Len(log)

\* What is left of what was noted.
Left == exists \cap created

\* What is past its removal and left is a failure of cleanup.
Noted ==
  /\ exists \subseteq Resources /\ created \subseteq Resources
  /\ pc \in {"rmProxy", "rmNetwork", "report", "terminated"} /\ "worker" \in Left
       => "worker" \in failures
  /\ pc \in {"rmNetwork", "report", "terminated"} /\ "proxy" \in Left
       => "proxy" \in failures
  /\ pc \in {"report", "terminated"} /\ "network" \in Left
       => "network" \in failures

\* Nothing but text is said after the first k events.
OnlyTextAfter(k) == \A i \in DOMAIN log : i > k => log[i].type = "delta"

\* run.terminated is said once, truthfully, with nothing but late text behind it ...
ReportIsTrue ==
  \A i \in DOMAIN log :
    log[i].type = "terminated" =>
      /\ OnlyTextAfter(i) /\ pc \in LastSteps
      /\ Left \subseteq failures /\ log[i].n = Cardinality(failures)

\* ... and a task that has heard it has heard everything that matters.
TaskIsTrue ==
  task.terminated =>
    /\ pc \in LastSteps /\ OnlyTextAfter(applied)
    /\ task.status \in {"completed", "cancelled"} => Left = {}

CleanInv == FlowTypes /\ TaskTypes /\ Noted /\ ReportIsTrue /\ TaskIsTrue

\* While the turn works, nothing is reported.
LEMMA WorkKeepsClean ==
    ASSUME CleanInv, Moves, pc \notin Failing, pc' # "dead",
           exists' \subseteq Resources, created' \subseteq Resources,
           UNCHANGED applied, TaskTypes', task'.terminated = task.terminated
    PROVE  CleanInv'
<1>1. pc \notin LastSteps /\ pc' \notin LastSteps /\ ~task.terminated
  BY DEF CleanInv, TaskIsTrue, Moves, LastSteps, Failing
<1>2. ~Said("terminated")
  BY <1>1 DEF CleanInv, ReportIsTrue, Said
<1>3. ~Said("terminated")'
  BY <1>2 DEF Moves, Unsaid, Failing
<1>4. Noted'
  BY DEF Noted, Moves, Failing
<1>5. ReportIsTrue'
  BY <1>3 DEF ReportIsTrue, Said
<1>6. TaskIsTrue'
  BY <1>1 DEF TaskIsTrue
<1> QED BY <1>4, <1>5, <1>6 DEF CleanInv, Moves

\* What only removes resources, kills the process, or fails a turn that runs.
LEMMA LossKeepsClean ==
    ASSUME CleanInv, FlowTypes', UNCHANGED <<log, created, failures, applied>>,
           exists' \subseteq exists,
           TaskTypes', task'.terminated = task.terminated,
           task'.status \in {task.status, "failed"},
           pc' \in {pc, "dead"} \/ (pc \notin LastSteps /\ pc' \in {"close", "rmWorker"})
             \/ (pc' = "exit" /\ pc = "terminated")
    PROVE  CleanInv'
<1>1. Left' \subseteq Left
  BY DEF Left
<1>2. Noted'
  BY <1>1 DEF CleanInv, Noted
<1>3. ReportIsTrue'
  BY <1>1 DEF CleanInv, ReportIsTrue, OnlyTextAfter, LastSteps
<1>4. TaskIsTrue'
  BY <1>1 DEF CleanInv, TaskIsTrue, OnlyTextAfter, LastSteps
<1> QED BY <1>2, <1>3, <1>4 DEF CleanInv

\* Text that comes is no report, before one or after it.
LEMMA StreamIsClean ==
    ASSUME CleanInv, StreamText
    PROVE  CleanInv'
<1>1. /\ FlowTypes' /\ Len(log') >= Len(log)
      /\ UNCHANGED <<pc, exists, created, failures, applied, task>>
  BY BesideMoves DEF CleanInv, Moves, StreamText, dockerVars
<1>2. PICK B \in SUBSET Nat : log' \in {log, log \o <<Delta(B)>>}
  <2>1. text.buffered \cup {text.streamed + 1} \in SUBSET Nat
    BY DEF CleanInv, FlowTypes
  <2> QED BY <2>1 DEF StreamText, Emit, Emitted
<1>3. PICK d : d = Delta(B)
  OBVIOUS
<1>4. d \in Entries /\ d.type = "delta" /\ log \in Seq(Entries)
  BY <1>2, <1>3, SingleDelta DEF Delta, CleanInv, FlowTypes
<1>5. \A i \in DOMAIN log' : (i \in DOMAIN log /\ log'[i] = log[i]) \/ log'[i].type = "delta"
  <2>1. CASE log' = log
    BY <2>1
  <2>2. CASE log' = log \o <<d>>
    <3>1. /\ DOMAIN log' = 1..(Len(log) + 1) /\ DOMAIN log = 1..Len(log) /\ Len(log) \in Nat
          /\ \A i \in DOMAIN log : log'[i] = log[i]
          /\ log'[Len(log) + 1] = d
      BY <1>4, <2>2, OneMore
    <3> QED BY <1>4, <3>1
  <2> QED BY <1>2, <1>3, <2>1, <2>2
<1>6. \A k : OnlyTextAfter(k) => OnlyTextAfter(k)'
  BY <1>5 DEF OnlyTextAfter
<1>7. Left' = Left
  BY <1>1 DEF Left
<1>8. Noted'
  BY <1>1, <1>7 DEF CleanInv, Noted
<1>9. ReportIsTrue'
  BY <1>1, <1>5, <1>6, <1>7 DEF CleanInv, ReportIsTrue
<1>10. TaskIsTrue'
  BY <1>1, <1>6, <1>7 DEF CleanInv, TaskIsTrue
<1>11. TaskTypes'
  BY <1>1 DEF CleanInv, TaskTypes, FlowTypes
<1> QED BY <1>1, <1>8, <1>9, <1>10, <1>11 DEF CleanInv

LEMMA SetupIsClean ==
    ASSUME CleanInv,
           \/ ReadBinding \/ AwaitStarted \/ MakeNetwork \/ MakeProxy \/ AwaitProxy
           \/ MakeWorker \/ StartWorker \/ FetchChunk \/ Restore \/ AwaitRestored
           \/ OpenThread \/ AwaitBound
    PROVE  CleanInv'
<1>1. Moves /\ pc \in Early
  <2>1. Moves
    BY SetupMoves DEF CleanInv
  <2>2. pc \in Early
    BY DEF ReadBinding, AwaitStarted, MakeNetwork, MakeProxy, AwaitProxy, MakeWorker, StartWorker,
           FetchChunk, Restore, AwaitRestored, OpenThread, AwaitBound, Await, Make, Early
  <2> QED BY <2>1, <2>2
<1>2. pc \notin Failing /\ pc' # "dead"
  <2>1. pc \notin Failing
    BY <1>1 DEF Early, Failing
  <2>2. pc' \in Early \cup {"lost"}
    BY DEF ReadBinding, AwaitStarted, MakeNetwork, MakeProxy, AwaitProxy, MakeWorker, StartWorker,
           FetchChunk, Restore, AwaitRestored, OpenThread, AwaitBound, Await, Make, Early,
           SendRequest, Throw, Checkpoint
  <2> QED BY <2>1, <2>2 DEF Early
<1>3. UNCHANGED <<applied, task>>
  BY DEF ReadBinding, AwaitStarted, MakeNetwork, MakeProxy, AwaitProxy, MakeWorker, StartWorker,
         FetchChunk, Restore, AwaitRestored, OpenThread, AwaitBound, Await, Make
<1>4. exists' \subseteq Resources /\ created' \subseteq Resources
  <2>1. ASSUME UNCHANGED <<exists, created>>
        PROVE  exists' \subseteq Resources /\ created' \subseteq Resources
    BY <2>1 DEF CleanInv, Noted
  <2>2. ASSUME NEW at, NEW r \in Resources, NEW next, Make(at, r, next)
        PROVE  exists' \subseteq Resources /\ created' \subseteq Resources
    BY <2>2 DEF Make, CleanInv, Noted
  <2>3. ASSUME MakeNetwork \/ MakeProxy \/ MakeWorker
        PROVE  exists' \subseteq Resources /\ created' \subseteq Resources
    BY <2>2, <2>3 DEF MakeNetwork, MakeProxy, MakeWorker, Resources
  <2>4. ASSUME \/ ReadBinding \/ AwaitStarted \/ AwaitProxy \/ StartWorker \/ FetchChunk
               \/ Restore \/ AwaitRestored \/ OpenThread \/ AwaitBound
        PROVE  UNCHANGED <<exists, created>>
    BY <2>4 DEF ReadBinding, AwaitStarted, AwaitProxy, StartWorker, FetchChunk, Restore,
                AwaitRestored, OpenThread, AwaitBound, Await, dockerVars
  <2> QED BY <2>1, <2>3, <2>4
<1>5. TaskTypes'
  BY <1>1, <1>3 DEF Moves, FlowTypes, CleanInv, TaskTypes
<1> QED BY <1>1, <1>2, <1>3, <1>4, <1>5, WorkKeepsClean

LEMMA AnswerIsClean ==
    ASSUME CleanInv,
           \/ TurnCompleted \/ TurnRejected \/ Snapshot \/ DeliverArtifacts
           \/ AwaitDelivered \/ AwaitCompleted
    PROVE  CleanInv'
<1>1. Moves
  BY AnswerMoves DEF CleanInv
<1>2. pc \notin Failing /\ pc' # "dead"
  BY DEF TurnCompleted, TurnRejected, Snapshot, DeliverArtifacts, AwaitDelivered, AwaitCompleted,
         Await, SendRequest, Throw, Failing
<1>3. UNCHANGED <<exists, created, applied>>
  BY DEF TurnCompleted, TurnRejected, Snapshot, DeliverArtifacts, AwaitDelivered, AwaitCompleted,
         Await, dockerVars
<1>4. /\ task' \in [status : Outcomes \cup {"running"}, artifacts : Int, terminated : BOOLEAN]
      /\ task'.terminated = task.terminated
  <2>1. ASSUME DeliverArtifacts
        PROVE  \E n : task' \in {task, onArtifactsDeliver(task, n)}
    BY <2>1 DEF DeliverArtifacts, SendRequest
  <2>2. ASSUME ~DeliverArtifacts
        PROVE  UNCHANGED task
    BY <2>2 DEF TurnCompleted, TurnRejected, Snapshot, AwaitDelivered, AwaitCompleted,
                Await
  <2>3. ASSUME NEW n
        PROVE  /\ onArtifactsDeliver(task, n) \in
                    [status : Outcomes \cup {"running"}, artifacts : Int, terminated : BOOLEAN]
               /\ onArtifactsDeliver(task, n).terminated = task.terminated
    BY TurnAssumption DEF onArtifactsDeliver, CleanInv, TaskTypes
  <2>4. task \in [status : Outcomes \cup {"running"}, artifacts : Int, terminated : BOOLEAN]
    BY DEF CleanInv, TaskTypes
  <2> QED BY <2>1, <2>2, <2>3, <2>4
<1>5. TaskTypes'
  BY <1>1, <1>3, <1>4 DEF Moves, FlowTypes, CleanInv, TaskTypes
<1>6. exists' \subseteq Resources /\ created' \subseteq Resources
  BY <1>3 DEF CleanInv, Noted
<1> QED BY <1>1, <1>2, <1>3, <1>4, <1>5, <1>6, WorkKeepsClean

LEMMA FinallyIsClean ==
    ASSUME CleanInv,
           \/ AwaitLost \/ CloseClient \/ RemoveWorker \/ RemoveProxy \/ RemoveNetwork
           \/ ReportTerminated \/ AwaitTerminated
    PROVE  CleanInv'
<1>1. FlowTypes'
  BY FinallyMoves DEF CleanInv, Moves
<1>2. UNCHANGED <<created, applied, task>>
  BY DEF AwaitLost, CloseClient, RemoveWorker, RemoveProxy, RemoveNetwork, CleanUp,
         ReportTerminated, AwaitTerminated, dataVars
<1>3. ASSUME AwaitLost \/ CloseClient \/ AwaitTerminated
      PROVE  CleanInv'
  <2>1. UNCHANGED <<log, exists, failures>>
    BY <1>3 DEF AwaitLost, CloseClient, AwaitTerminated, dataVars, dockerVars
  <2>2. (pc \notin LastSteps /\ pc' \in {"close", "rmWorker"}) \/ (pc' = "exit" /\ pc = "terminated")
    BY <1>3 DEF AwaitLost, CloseClient, AwaitTerminated, LastSteps
  <2>3. TaskTypes'
    BY <1>2, <2>1 DEF CleanInv, TaskTypes
  <2> QED BY <1>1, <1>2, <2>1, <2>2, <2>3, LossKeepsClean
<1>4. ASSUME NEW at \in {"rmWorker", "rmProxy", "rmNetwork"}, NEW r \in Resources,
             NEW next \in {"rmProxy", "rmNetwork", "report"}, CleanUp(at, r, next)
      PROVE  /\ pc = at /\ pc' = next /\ UNCHANGED log
             /\ exists' \subseteq exists /\ failures \subseteq failures'
             /\ r \in Left' => r \in failures'
  BY <1>2, <1>4 DEF CleanUp, Gone, MaybeGone, dockerVars, dataVars, Left, CleanInv, FlowTypes
<1>5. ASSUME UNCHANGED log, pc \notin LastSteps, pc' \notin LastSteps, Noted'
      PROVE  CleanInv'
  <2>1. TaskTypes'
    BY <1>2, <1>5 DEF CleanInv, TaskTypes
  <2>2. ReportIsTrue' /\ TaskIsTrue'
    BY <1>2, <1>5 DEF CleanInv, ReportIsTrue, TaskIsTrue, OnlyTextAfter
  <2> QED BY <1>1, <1>5, <2>1, <2>2 DEF CleanInv
<1>6. ASSUME RemoveWorker
      PROVE  CleanInv'
  <2>1. /\ pc = "rmWorker" /\ pc' = "rmProxy" /\ UNCHANGED log
        /\ exists' \subseteq exists
        /\ "worker" \in Left' => "worker" \in failures'
    BY <1>4, <1>6 DEF RemoveWorker, Resources
  <2> QED BY <1>2, <1>5, <2>1 DEF CleanInv, Noted, Left, LastSteps
<1>7. ASSUME RemoveProxy
      PROVE  CleanInv'
  <2>1. /\ pc = "rmProxy" /\ pc' = "rmNetwork" /\ UNCHANGED log
        /\ exists' \subseteq exists /\ failures \subseteq failures'
        /\ "proxy" \in Left' => "proxy" \in failures'
    BY <1>4, <1>7 DEF RemoveProxy, Resources
  <2> QED BY <1>2, <1>5, <2>1 DEF CleanInv, Noted, Left, LastSteps
<1>8. ASSUME RemoveNetwork
      PROVE  CleanInv'
  <2>1. /\ pc = "rmNetwork" /\ pc' = "report" /\ UNCHANGED log
        /\ exists' \subseteq exists /\ failures \subseteq failures'
        /\ "network" \in Left' => "network" \in failures'
    BY <1>4, <1>8 DEF RemoveNetwork, Resources
  <2> QED BY <1>2, <1>5, <2>1 DEF CleanInv, Noted, Left, LastSteps
<1>9. ASSUME ReportTerminated
      PROVE  CleanInv'
  <2>1. /\ pc = "report" /\ pc' = "terminated"
        /\ UNCHANGED <<exists, failures>>
        /\ log' \in {log, log \o <<Event("terminated", Cardinality(failures))>>}
    BY <1>9 DEF ReportTerminated, Emit, Emitted, dockerVars
  <2>2. Left \subseteq failures /\ Left' = Left
    BY <1>2, <2>1 DEF CleanInv, Noted, Resources, Left
  <2>3. Noted'
    BY <1>2, <2>1, <2>2 DEF CleanInv, Noted, Left
  <2>4. ~Said("terminated") /\ ~task.terminated
    BY <2>1 DEF CleanInv, ReportIsTrue, TaskIsTrue, Said, LastSteps
  <2>5. ReportIsTrue'
    <3>1. CASE log' = log
      BY <2>4, <3>1 DEF ReportIsTrue, Said
    <3>2. CASE log' = log \o <<Event("terminated", Cardinality(failures))>>
      <4> DEFINE e == Event("terminated", Cardinality(failures))
      <4>1. e.type = "terminated" /\ e.n = Cardinality(failures)
        BY DEF Event
      <4>2. \A i \in DOMAIN log : log[i].type # "terminated"
        BY <2>4 DEF Said
      <4>3. log \in Seq(Entries) /\ log' = log \o <<e>> /\ Len(log') = Len(log) + 1
        BY <1>1, <3>2 DEF CleanInv, FlowTypes
      <4> HIDE DEF e
      <4>4. ASSUME NEW i \in DOMAIN log', log'[i].type = "terminated"
            PROVE  i = Len(log') /\ log'[i].n = Cardinality(failures)
        <5>1. i \in 1..(Len(log) + 1)
          BY <1>1, <4>3, <4>4 DEF FlowTypes
        <5>2. CASE i <= Len(log)
          <6>1. i \in DOMAIN log /\ log'[i] = log[i]
            BY <4>3, <5>1, <5>2
          <6> QED BY <4>2, <4>4, <6>1
        <5>3. CASE i = Len(log) + 1
          <6>1. log'[i] = e
            BY <4>3, <5>3
          <6> QED BY <4>1, <4>3, <5>3, <6>1
        <5> QED BY <4>3, <5>1, <5>2, <5>3
      <4>5. ASSUME NEW i \in DOMAIN log', i = Len(log')
            PROVE  OnlyTextAfter(i)'
        <5>1. \A k \in DOMAIN log' : ~(k > i)
          BY <1>1, <4>5 DEF FlowTypes
        <5> QED BY <5>1 DEF OnlyTextAfter
      <4> QED BY <2>1, <2>2, <4>4, <4>5 DEF ReportIsTrue, LastSteps
    <3> QED BY <2>1, <3>1, <3>2
  <2>6. TaskTypes'
    BY <1>1, <1>2, <1>9, FinallyMoves DEF CleanInv, TaskTypes, FlowTypes, Moves
  <2>7. TaskIsTrue'
    BY <1>2, <2>4 DEF TaskIsTrue
  <2> QED BY <1>1, <2>3, <2>5, <2>6, <2>7 DEF CleanInv
<1> QED BY <1>3, <1>6, <1>7, <1>8, <1>9

LEMMA LossIsClean ==
    ASSUME CleanInv, ClientFails \/ Stop \/ StopWorker \/ Disconnect \/ Abort \/ WorkerDies
    PROVE  CleanInv'
<1>1. UNCHANGED <<log, text, changed, created, failures, applied>>
  BY DEF ClientFails, Stop, StopWorker, Disconnect, Abort, WorkerDies, dataVars
<1>2. exists' \subseteq exists /\ pc' \in {pc, "dead"}
  BY DEF ClientFails, Stop, StopWorker, Disconnect, Abort, WorkerDies, dockerVars, Gone, MaybeGone
<1>3. task' \in {task, [task EXCEPT !.status = "failed"]}
  BY DEF ClientFails, Stop, StopWorker, Disconnect, Abort, WorkerDies, dataVars
<1>4. /\ TaskTypes' /\ task'.terminated = task.terminated
      /\ task'.status \in {task.status, "failed"}
  BY <1>1, <1>3 DEF CleanInv, TaskTypes, Outcomes
<1>5. FlowTypes'
  BY <1>1 DEF CleanInv, FlowTypes
<1> QED BY <1>1, <1>2, <1>4, <1>5, LossKeepsClean

LEMMA ApplyIsClean ==
    ASSUME CleanInv, ApplyEvent
    PROVE  CleanInv'
<1> DEFINE e == log[applied + 1]
<1>1. /\ applied < Len(log) /\ applied' = applied + 1 /\ task' = Outcome(task, e)
      /\ UNCHANGED <<pc, exists, created, failures, log, text, changed>>
  BY DEF ApplyEvent, dockerVars
<1>2. applied + 1 \in DOMAIN log /\ e \in Entries
  BY <1>1 DEF CleanInv, TaskTypes, FlowTypes
<1>3. Left' = Left /\ (\A k : OnlyTextAfter(k) => OnlyTextAfter(k)')
  BY <1>1 DEF Left, OnlyTextAfter
<1>4. FlowTypes' /\ Noted' /\ ReportIsTrue'
  BY <1>1, <1>3 DEF CleanInv, FlowTypes, Noted, ReportIsTrue
<1>5. TaskTypes'
  <2>1. applied' \in Nat /\ applied' <= Len(log')
    BY <1>1 DEF CleanInv, TaskTypes, FlowTypes
  <2>2. task' \in [status : Outcomes \cup {"running"}, artifacts : Int, terminated : BOOLEAN]
    BY <1>1 DEF CleanInv, TaskTypes, Outcome, Outcomes
  <2> QED BY <2>1, <2>2 DEF TaskTypes
<1>6. CASE task.terminated
  <2>1. OnlyTextAfter(applied) /\ applied + 1 > applied
    BY <1>6 DEF CleanInv, TaskIsTrue, TaskTypes
  <2>2. e.type = "delta"
    BY <1>2, <2>1 DEF OnlyTextAfter
  <2>3. task' = task
    BY <1>1, <2>2 DEF Outcome, Outcomes
  <2>4. OnlyTextAfter(applied')
    BY <1>1, <2>1 DEF OnlyTextAfter, CleanInv, TaskTypes, FlowTypes
  <2>5. TaskIsTrue'
    BY <1>1, <1>3, <1>6, <2>3, <2>4 DEF CleanInv, TaskIsTrue, OnlyTextAfter
  <2> QED BY <1>4, <1>5, <2>5 DEF CleanInv
<1>7. CASE ~task.terminated
  <2> SUFFICES ASSUME task'.terminated
               PROVE  /\ pc \in LastSteps /\ OnlyTextAfter(applied')
                      /\ task'.status \in {"completed", "cancelled"} => Left = {}
    BY <1>1, <1>3, <1>4, <1>5 DEF CleanInv, TaskIsTrue, OnlyTextAfter
  <2>1. e.type = "terminated"
    BY <1>1, <1>7 DEF Outcome, CleanInv, TaskTypes
  <2>2. /\ OnlyTextAfter(applied + 1) /\ pc \in LastSteps
        /\ Left \subseteq failures /\ e.n = Cardinality(failures)
    BY <1>2, <2>1 DEF CleanInv, ReportIsTrue
  <2>3. ASSUME task'.status \in {"completed", "cancelled"}
        PROVE  Left = {}
    <3>1. ~(e.n > 0)
      BY <1>1, <2>1, <2>3 DEF Outcome, Outcomes, CleanInv, TaskTypes
    <3>2. IsFiniteSet(failures)
      BY ResourcesAreFinite DEF CleanInv, FlowTypes
    <3>3. Cardinality(failures) = 0
      BY <2>2, <3>1, <3>2, FS_CardinalityType
    <3> QED BY <2>2, <3>2, <3>3, FS_EmptySet
  <2> QED BY <1>1, <2>2, <2>3
<1> QED BY <1>6, <1>7

LEMMA CleanInvInit == TurnInit => CleanInv
<1> SUFFICES ASSUME TurnInit
             PROVE  CleanInv
  OBVIOUS
<1>1. FlowTypes
  BY StopInvInit DEF StopInv
<1>2. log = <<>> /\ Len(log) = 0 /\ exists = {} /\ created = {} /\ applied = 0
  BY DEF TurnInit
<1>3. task = [status |-> "running", artifacts |-> 0, terminated |-> FALSE] /\ pc = "binding"
  BY DEF TurnInit
<1> QED BY <1>1, <1>2, <1>3 DEF CleanInv, TaskTypes, Noted, ReportIsTrue, TaskIsTrue, Left

LEMMA CleanInvStep == CleanInv /\ [Next]_vars => CleanInv'
<1> SUFFICES ASSUME CleanInv, [Next]_vars
             PROVE  CleanInv'
  OBVIOUS
<1>1. ASSUME UNCHANGED vars
      PROVE  CleanInv'
  BY <1>1 DEF vars, flowVars, controlVars, dataVars, dockerVars, CleanInv, FlowTypes, TaskTypes, Noted,
              ReportIsTrue, TaskIsTrue, Left, OnlyTextAfter
<1>2. ASSUME Turn
      PROVE  CleanInv'
  BY <1>2, SetupIsClean, AnswerIsClean, FinallyIsClean DEF Turn
<1>3. ASSUME Beside \/ Abort \/ WorkerDies \/ ApplyEvent
      PROVE  CleanInv'
  BY <1>3, StreamIsClean, LossIsClean, ApplyIsClean DEF Beside
<1> QED BY <1>1, <1>2, <1>3 DEF Next

\* A turn the service holds for completed or stopped, and whose run.terminated it
\* has, has left nothing that its worker knew of: whatever failed or timed out, and
\* took effect or not, where a stop came and how far abortHook got.
THEOREM CleanReports == Spec => []CleanupTruthful
<1>1. CleanInv => CleanupTruthful
  BY DEF CleanInv, TaskIsTrue, CleanupTruthful, Left
<1> QED BY <1>1, CleanInvInit, CleanInvStep, PTL DEF Spec
=============================================================================
