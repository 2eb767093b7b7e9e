-------------------------- MODULE WorkerSeamProofs --------------------------
(***************************************************************************)
(* What holds of the seam for every value of the constants: no event is    *)
(* left in its queue with nothing to send it, events are applied in their  *)
(* order and without a gap, what is acknowledged is on disk, and the seam  *)
(* implements the journal.                                                 *)
(***************************************************************************)
EXTENDS WorkerSeam, SequenceTheorems, FiniteSetTheorems,
        WellFoundedInduction, TLAPS

\* Message 0 is none, so a batch under way is never Idle.
QueueInv ==
  /\ sent \in Nat
  /\ timer \in BOOLEAN
  /\ NothingStranded

\* flush(): what it leaves in the queue is behind a flush under way.
LEMMA FlushStrandsNothing ==
    ASSUME QueueInv, NEW q, Flush(q)
    PROVE  sent' \in Nat /\ timer' \in BOOLEAN /\ (queue' = <<>> \/ flight' # Idle)
<1>1. CASE flight # Idle \/ q = <<>>
  BY <1>1 DEF Flush, QueueInv
<1>2. CASE ~(flight # Idle \/ q = <<>>)
  <2> DEFINE n == IF Len(q) < MaxBatch THEN Len(q) ELSE MaxBatch
  <2>1. sent' = sent + 1 /\ flight' = [msg |-> sent + 1, batch |-> SubSeq(q, 1, n)]
        /\ timer' = FALSE
    BY <1>2 DEF Flush
  <2> HIDE DEF n
  <2>2. flight'.msg = sent + 1 /\ sent + 1 # 0 /\ sent + 1 \in Nat
    BY <2>1 DEF QueueInv
  <2>3. Idle.msg = 0
    BY DEF Idle
  <2>4. flight' # Idle
    BY <2>2, <2>3
  <2> QED BY <2>1, <2>2, <2>4
<1> QED BY <1>1, <1>2

LEMMA QueueInvInit == SeamInit => QueueInv
<1> SUFFICES ASSUME SeamInit
             PROVE  QueueInv
  OBVIOUS
<1>1. sent = 0 /\ timer = FALSE /\ queue = <<>>
  BY DEF SeamInit
<1> QED BY <1>1 DEF QueueInv, NothingStranded

LEMMA QueueInvStep == QueueInv /\ [Next]_vars => QueueInv'
<1> SUFFICES ASSUME QueueInv, [Next]_vars
             PROVE  QueueInv'
  OBVIOUS
<1>1. ASSUME AppendEvent
      PROVE  QueueInv'
  <2>1. CASE Len(Append(queue, next + 1)) >= MaxBatch
    BY <1>1, <2>1, FlushStrandsNothing DEF AppendEvent, QueueInv, NothingStranded
  <2>2. CASE ~(Len(Append(queue, next + 1)) >= MaxBatch)
    BY <1>1, <2>2 DEF AppendEvent, QueueInv, NothingStranded
  <2> QED BY <2>1, <2>2
<1>2. ASSUME FlushTimer
      PROVE  QueueInv'
  BY <1>2, FlushStrandsNothing DEF FlushTimer, QueueInv, NothingStranded
<1>3. ASSUME ReceiveReply
      PROVE  QueueInv'
  BY <1>3 DEF ReceiveReply, QueueInv, NothingStranded
<1>4. ASSUME AckTimeout
      PROVE  QueueInv'
  BY <1>4 DEF AckTimeout, QueueInv, NothingStranded
<1>5. ASSUME WorkerExits \/ WorkerKilled
      PROVE  QueueInv'
  BY <1>5 DEF WorkerExits, WorkerKilled, workerVars, QueueInv, NothingStranded
<1>6. ASSUME UNCHANGED <<workerVars, workerUp>>
      PROVE  QueueInv'
  BY <1>6 DEF workerVars, QueueInv, NothingStranded
<1>7. ASSUME ServiceNext
      PROVE  QueueInv'
  <2>1. ASSUME NEW k, ReadChunk(k)
        PROVE  QueueInv'
    BY <1>6, <2>1 DEF ReadChunk
  <2>2. ASSUME NEW m, Promoted(m) \/ PromoteFails(m)
        PROVE  QueueInv'
    BY <1>6, <2>2 DEF Promoted, PromoteFails
  <2>3. ASSUME OnFrame \/ Microtask \/ SaveDone \/ SaveFails \/ WorkerClosed
        PROVE  QueueInv'
    BY <1>6, <2>3 DEF OnFrame, Microtask, SaveDone, SaveFails, WorkerClosed
  <2> QED BY <1>7, <2>1, <2>2, <2>3 DEF ServiceNext
<1>8. ASSUME UNCHANGED vars
      PROVE  QueueInv'
  BY <1>6, <1>8 DEF vars
<1> QED BY <1>1, <1>2, <1>3, <1>4, <1>5, <1>7, <1>8 DEF Next, WorkerNext, Over

\* An event in the queue has a timer or a flush that will send it: a timer that
\* fires while a flush is under way leaves the rest to the end of that flush.
THEOREM QueueIsServed == Spec => []NothingStranded
<1>1. QueueInv => NothingStranded
  BY DEF QueueInv
<1> QED BY <1>1, QueueInvInit, QueueInvStep, PTL DEF Spec

-----------------------------------------------------------------------------
(* The events: in order, without a gap, and on disk before they are acked.   *)

\* The events among the first u applied.
Kept(u) == {log[i] : i \in 1..u}

\* s is b + 1, b + 2 and so on, of the events emitted.
Run(s, b) == b + Len(s) <= next /\ \A i \in 1..Len(s) : s[i] = b + i

\* s begins with the first event of all or follows one that was applied.
Follows(s) == \E b \in {0} \cup Kept(Len(log)) : Run(s, b)

\* Of the events emitted the first k are acknowledged and the others are under
\* way or queued, in order.  Each message sent was answered, which settled an
\* event at least, or timed out.
Outstanding(k) ==
  /\ k + Len(flight.batch) + Len(queue) = next
  /\ Run(flight.batch, k) /\ Run(queue, k + Len(flight.batch))
  /\ failures <= MaxFailures
  /\ sent <= k * (MaxFailures + 1) + failures + (IF flight = Idle THEN 0 ELSE 1)

WorkerHolds ==
  /\ flight # Idle => flight.msg = sent /\ sent > 0 /\ flight.batch # <<>>
  /\ \E k \in 0..next :
       /\ \A e \in Events : settled[e] = "ok" <=> e <= k
       /\ ~fatal => Outstanding(k)

\* What the service has applied is at any time a prefix of the events emitted.
LogHolds ==
  /\ \A u \in 0..Len(log) : \E n \in 0..next : Kept(u) = 1..n
  /\ applied \subseteq Kept(Len(log))
  /\ disk.upto <= Len(log)

\* The batch the worker waits for.
Batch == ToSet(flight.batch)

\* Each save holds more than the one before it, and all of the batch its handler
\* will acknowledge.
SavesHold ==
  /\ \A i \in 1..Len(saves) :
       /\ disk.upto <= saves[i].upto /\ saves[i].upto <= Len(log)
       /\ saves[i].by <= sent
       /\ flight # Idle /\ saves[i].by = flight.msg => Batch \subseteq Kept(saves[i].upto)
  /\ \A i, j \in 1..Len(saves) : i < j => saves[i].upto <= saves[j].upto

\* A message is on the wire once, and its events follow what was applied.
WireHolds ==
  /\ chunk <= Len(toService)
  /\ \A i \in 1..Len(toService) :
       /\ toService[i].msg \in 1..sent /\ Follows(toService[i].batch)
       /\ flight # Idle /\ toService[i].msg = flight.msg => toService[i].batch = flight.batch
  /\ \A i, j \in 1..Len(toService) : toService[i].msg = toService[j].msg => i = j

\* A handler that waits in applyEvent has applied its event and not yet what
\* follows it; each continuation is queued once, and only for such a handler; a
\* message still on the wire has none.
HandlersHold ==
  /\ \A m \in 1..MaxSends :
       /\ handlers[m].phase # "none" => m <= sent
       /\ handlers[m].phase \in {"tick", "promote"} =>
            /\ handlers[m].event \in Kept(Len(log)) /\ Run(handlers[m].rest, handlers[m].event)
            /\ flight # Idle /\ flight.msg = m =>
                 Batch \subseteq Kept(Len(log)) \cup ToSet(handlers[m].rest)
  /\ \A i \in 1..Len(ready) : handlers[ready[i]].phase = "tick"
  /\ \A i, j \in 1..Len(ready) : ready[i] = ready[j] => i = j
  /\ \A i \in 1..Len(toService) : handlers[toService[i].msg].phase = "none"

\* What is acknowledged, or will be by a reply on its way, is on disk.
AcksHold ==
  /\ \A e \in Events : settled[e] = "ok" => e \in Kept(disk.upto)
  /\ \A i \in 1..Len(toWorker) :
       /\ toWorker[i] <= sent
       /\ flight # Idle /\ toWorker[i] = flight.msg => Batch \subseteq Kept(disk.upto)

SeamInv ==
  /\ SeamTypeOK /\ WorkerHolds /\ LogHolds /\ SavesHold /\ WireHolds /\ HandlersHold
  /\ AcksHold

\* Sequences.
LEMMA ElementsOf ==
    ASSUME NEW s, DOMAIN s = 1..Len(s)
    PROVE  ToSet(s) = {s[i] : i \in 1..Len(s)}
BY DEF ToSet

LEMMA TailFacts ==
    ASSUME NEW S, NEW s \in Seq(S), s # <<>>
    PROVE  /\ Len(s) \in Nat \ {0} /\ Head(s) = s[1] /\ s[1] \in S
           /\ Tail(s) \in Seq(S) /\ Len(Tail(s)) = Len(s) - 1
           /\ \A i \in 1..Len(s) - 1 : i + 1 \in 1..Len(s) /\ Tail(s)[i] = s[i + 1]
<1>1. Len(s) \in Nat \ {0}
  BY EmptySeq
<1> QED BY <1>1, HeadTailProperties, ElementOfSeq

LEMMA AppendFacts ==
    ASSUME NEW S, NEW s \in Seq(S), NEW e \in S
    PROVE  /\ Append(s, e) \in Seq(S) /\ Len(Append(s, e)) = Len(s) + 1 /\ Len(s) \in Nat
           /\ \A i \in 1..Len(s) : i \in 1..Len(s) + 1 /\ Append(s, e)[i] = s[i]
           /\ Append(s, e)[Len(s) + 1] = e
BY AppendProperties, LenProperties

\* What the constants bound: a turn sends no more than MaxSends messages.
LEMMA Products ==
    ASSUME NEW a \in Nat, NEW b \in Nat, NEW c \in Nat, a < b
    PROVE  a * c + c <= b * c
<1>1. PICK d \in Nat : b = a + 1 + d
  <2>1. b - a - 1 \in Nat /\ b = a + 1 + (b - a - 1)
    OBVIOUS
  <2> QED BY <2>1
<1>2. b * c = a * c + c + d * c
  BY <1>1
<1>3. a * c \in Nat /\ d * c \in Nat
  OBVIOUS
<1> QED BY <1>2, <1>3

LEMMA ConstantFacts ==
    /\ NEvents \in Nat \ {0} /\ MaxFailures \in Nat /\ MaxBatch \in Nat \ {0}
    /\ MaxFailures + 1 \in Nat /\ MaxSends \in Nat /\ Completed \in Nat
    /\ NEvents * (MaxFailures + 1) <= MaxSends
<1>1. /\ NEvents \in Nat \ {0} /\ MaxFailures \in Nat /\ MaxBatch \in Nat \ {0}
      /\ Completed \in Nat
  BY SeamAssumption
<1>2. NEvents * (MaxFailures + 2) = NEvents * (MaxFailures + 1) + NEvents
  BY <1>1
<1>3. NEvents * (MaxFailures + 1) \in Nat
  BY <1>1
<1> QED BY <1>1, <1>2, <1>3 DEF MaxSends

LEMMA RoomToSend ==
    ASSUME NEW k \in Nat, k < NEvents, NEW n \in Nat, NEW f \in Nat, f <= MaxFailures,
           n <= k * (MaxFailures + 1) + f
    PROVE  n + 1 <= MaxSends /\ n + 1 <= k * (MaxFailures + 1) + f + 1
<1> DEFINE p == k * (MaxFailures + 1)
           t == NEvents * (MaxFailures + 1)
<1>1. /\ p \in Nat /\ t \in Nat /\ p + (MaxFailures + 1) <= t /\ t <= MaxSends
      /\ MaxFailures \in Nat /\ MaxSends \in Nat
  BY ConstantFacts, Products
<1>2. n <= p + f
  OBVIOUS
<1> HIDE DEF p, t
<1>3. n + 1 <= MaxSends /\ n + 1 <= p + f + 1
  BY <1>1, <1>2
<1> QED BY <1>3 DEF p

-----------------------------------------------------------------------------
(* The log only grows.                                                       *)

\* log is kept, or an event is appended to it.
LogGrows == log' = log \/ \E e \in Events : log' = Append(log, e)

LEMMA LogTypes ==
    ASSUME SeamTypeOK
    PROVE  /\ log \in Seq(Events) /\ Len(log) \in Nat /\ disk.upto \in Nat /\ next \in Nat
           /\ \A i \in 1..Len(log) : log[i] \in Events
  BY LenProperties, ElementOfSeq, ConstantFacts DEF SeamTypeOK

LEMMA KeptFacts ==
    ASSUME SeamTypeOK, NEW u \in 0..Len(log), NEW v \in u..Len(log)
    PROVE  Kept(u) \subseteq Kept(v) /\ Kept(v) \subseteq Events
BY LogTypes DEF Kept

LEMMA LogGrown ==
    ASSUME SeamTypeOK, LogGrows
    PROVE  /\ log' \in Seq(Events) /\ Len(log') \in Nat /\ Len(log) <= Len(log')
           /\ \A u \in 0..Len(log) : Kept(u)' = Kept(u)
           /\ Kept(Len(log)) \subseteq Kept(Len(log))'
<1>1. log \in Seq(Events) /\ Len(log) \in Nat
  BY LogTypes
<1>2. /\ log' \in Seq(Events) /\ Len(log') \in Nat /\ Len(log) <= Len(log')
      /\ \A i \in 1..Len(log) : log'[i] = log[i]
  BY <1>1, AppendFacts DEF LogGrows
<1>3. \A u \in 0..Len(log) : Kept(u)' = Kept(u)
  BY <1>1, <1>2 DEF Kept
<1>4. Kept(Len(log)) \subseteq Kept(Len(log))'
  BY <1>1, <1>2 DEF Kept
<1> QED BY <1>2, <1>3, <1>4

\* What the disk holds.
LEMMA DurableIsKept ==
    ASSUME SeamTypeOK, disk.upto <= Len(log)
    PROVE  Durable = Kept(disk.upto)
<1> DEFINE d == disk.upto
           s == SubSeq(log, 1, d)
<1>1. log \in Seq(Events) /\ d \in Nat /\ \A i \in 1..d : log[i] \in Events
  BY LogTypes
<1>2. s \in Seq(Events) /\ Len(s) = d /\ \A i \in 1..d : s[i] = log[i]
  BY <1>1, SubSeqProperties
<1> HIDE DEF s
<1>3. DOMAIN s = 1..Len(s)
  BY <1>2, LenProperties
<1>4. ToSet(s) = {s[i] : i \in 1..d}
  BY <1>2, <1>3 DEF ToSet
<1>5. {s[i] : i \in 1..d} = {log[i] : i \in 1..d}
  BY <1>2
<1> QED BY <1>4, <1>5 DEF Durable, Kept, s

LEMMA SameLogHolds ==
    ASSUME SeamTypeOK, LogHolds, log' = log, next' \in Nat, next <= next',
           applied' \subseteq Kept(Len(log)), disk'.upto <= Len(log)
    PROVE  LogHolds'
<1>1. \A u \in 0..Len(log) : Kept(u)' = Kept(u)
  BY DEF Kept
<1>2. next \in Nat /\ Len(log) \in Nat
  BY LogTypes
<1> QED BY <1>1, <1>2 DEF LogHolds

\* An event that follows what was applied is applied.
LEMMA AppliedHolds ==
    ASSUME SeamTypeOK, LogHolds, NEW e \in 1..next, log' = Append(log, e),
           e = 1 \/ e - 1 \in Kept(Len(log)),
           applied' \subseteq Kept(Len(log)), UNCHANGED <<next, disk>>
    PROVE  LogHolds' /\ e \in Kept(Len(log))'
<1>1. /\ log \in Seq(Events) /\ Len(log) \in Nat /\ disk.upto \in Nat /\ next \in 0..NEvents
      /\ NEvents \in Nat
  BY LogTypes, ConstantFacts DEF SeamTypeOK
<1>2. e \in Events
  BY <1>1 DEF Events
<1>3. LogGrows
  BY <1>2 DEF LogGrows
<1>4. /\ Len(log') = Len(log) + 1 /\ log'[Len(log) + 1] = e
      /\ \A i \in 1..Len(log) : log'[i] = log[i]
  BY <1>1, <1>2, AppendFacts
<1>5. Kept(Len(log))' = Kept(Len(log)) \cup {e}
  <2>1. Kept(Len(log))' = {log'[i] : i \in 1..Len(log) + 1}
    BY <1>4 DEF Kept
  <2>2. \A i \in 1..Len(log) + 1 : i \in 1..Len(log) \/ i = Len(log) + 1
    BY <1>1
  <2>3. \A i \in 1..Len(log) : i \in 1..Len(log) + 1
    BY <1>1
  <2>4. Len(log) + 1 \in 1..Len(log) + 1
    BY <1>1
  <2> QED BY <1>4, <2>1, <2>2, <2>3, <2>4 DEF Kept
<1>6. PICK n \in 0..next : Kept(Len(log)) = 1..n
  BY <1>1 DEF LogHolds
<1>7. \E x \in 0..next : 1..n \cup {e} = 1..x
  <2>1. CASE e <= n
    <3>1. 1..n \cup {e} = 1..n
      BY <1>1, <1>6, <2>1
    <3> QED BY <3>1
  <2>2. CASE ~(e <= n)
    <3>1. e = n + 1
      BY <1>1, <1>6, <2>2
    <3>2. 1..n \cup {e} = 1..e
      BY <1>1, <1>6, <3>1
    <3> QED BY <1>1, <3>2
  <2> QED BY <2>1, <2>2
<1>8. ASSUME NEW u \in 0..Len(log')
      PROVE  \E x \in 0..next : Kept(u)' = 1..x
  <2>1. CASE u \in 0..Len(log)
    <3>1. Kept(u)' = Kept(u)
      BY <1>3, <2>1, LogGrown
    <3> QED BY <2>1, <3>1 DEF LogHolds
  <2>2. CASE u = Len(log) + 1
    <3>1. Kept(u)' = Kept(Len(log))'
      BY <1>4, <2>2 DEF Kept
    <3> QED BY <1>5, <1>6, <1>7, <3>1
  <2> QED BY <1>1, <1>4, <1>8, <2>1, <2>2
<1>9. applied' \subseteq Kept(Len(log))' /\ disk'.upto <= Len(log')
  BY <1>1, <1>4, <1>5 DEF LogHolds
<1> QED BY <1>5, <1>8, <1>9 DEF LogHolds

-----------------------------------------------------------------------------
(* The chain of saves.                                                       *)

Saves == [by : 0..MaxSends, upto : Nat, status : {"running", "completed", "failed"}]

\* A save may leave the chain at its head and one may join it, of all that was
\* applied.
LEMMA SavesStep ==
    ASSUME SeamTypeOK, LogHolds, SavesHold, UNCHANGED <<log, disk, sent, flight>>,
           NEW c, c = saves \/ (saves # <<>> /\ c = Tail(saves)),
           NEW s \in Saves, s.upto = Len(log), s.by <= sent,
           flight # Idle /\ s.by = flight.msg => Batch \subseteq Kept(Len(log)),
           saves' = c \/ saves' = Append(c, s)
    PROVE  SavesHold' /\ saves' \in Seq(Saves)
<1>1. /\ saves \in Seq(Saves) /\ Len(log) \in Nat /\ Len(saves) \in Nat
      /\ \A i \in 1..Len(saves) : saves[i] \in Saves
  BY LogTypes, LenProperties, ElementOfSeq DEF SeamTypeOK, Saves
<1>2. /\ c \in Seq(Saves) /\ Len(c) \in Nat
      /\ \E x \in {0, 1} : Len(c) = Len(saves) - x
                         /\ \A i \in 1..Len(c) : i + x \in 1..Len(saves) /\ c[i] = saves[i + x]
  <2>1. CASE c = saves
    <3>1. \A i \in 1..Len(c) : i + 0 \in 1..Len(saves) /\ c[i] = saves[i + 0]
      BY <1>1, <2>1
    <3> QED BY <1>1, <2>1, <3>1
  <2>2. CASE saves # <<>> /\ c = Tail(saves)
    BY <1>1, <2>2, TailFacts
  <2> QED BY <2>1, <2>2
<1>3. /\ \A i \in 1..Len(c) :
           /\ disk.upto <= c[i].upto /\ c[i].upto <= Len(log) /\ c[i].by <= sent
           /\ flight # Idle /\ c[i].by = flight.msg => Batch \subseteq Kept(c[i].upto)
      /\ \A i, j \in 1..Len(c) : i < j => c[i].upto <= c[j].upto
  <2>1. PICK x \in {0, 1} : /\ Len(c) = Len(saves) - x
                            /\ \A i \in 1..Len(c) : i + x \in 1..Len(saves) /\ c[i] = saves[i + x]
    BY <1>2
  <2>2. \A i, j \in 1..Len(c) : i < j => i + x < j + x
    BY <1>2, <2>1
  <2> QED BY <2>1, <2>2 DEF SavesHold
<1>4. /\ saves' \in Seq(Saves) /\ Len(saves') \in Nat
      /\ \A i \in 1..Len(saves') : \/ i \in 1..Len(c) /\ saves'[i] = c[i]
                                   \/ i = Len(c) + 1 /\ saves'[i] = s
  <2>1. CASE saves' = c
    BY <1>2, <2>1
  <2>2. CASE saves' = Append(c, s)
    <3>1. /\ saves' \in Seq(Saves) /\ Len(saves') = Len(c) + 1
          /\ \A i \in 1..Len(c) : saves'[i] = c[i]
          /\ saves'[Len(c) + 1] = s
      BY <1>2, <2>2, AppendFacts
    <3> QED BY <1>2, <3>1
  <2> QED BY <2>1, <2>2
<1>5. UNCHANGED Batch /\ \A u : Kept(u)' = Kept(u)
  BY DEF Batch, Kept
<1>6. disk.upto <= Len(log)
  BY DEF LogHolds
<1>7. ASSUME NEW i \in 1..Len(saves')
      PROVE  /\ disk.upto <= saves'[i].upto /\ saves'[i].upto <= Len(log)
             /\ saves'[i].by <= sent
             /\ flight # Idle /\ saves'[i].by = flight.msg => Batch \subseteq Kept(saves'[i].upto)
  <2>1. CASE i \in 1..Len(c) /\ saves'[i] = c[i]
    BY <1>3, <2>1
  <2>2. CASE i = Len(c) + 1 /\ saves'[i] = s
    BY <1>1, <1>6, <2>2
  <2> QED BY <1>4, <2>1, <2>2
<1>8. ASSUME NEW i \in 1..Len(saves'), NEW j \in 1..Len(saves'), i < j
      PROVE  saves'[i].upto <= saves'[j].upto
  <2>1. i \in 1..Len(c) /\ saves'[i] = c[i]
    BY <1>2, <1>4, <1>8
  <2>2. CASE j \in 1..Len(c) /\ saves'[j] = c[j]
    BY <1>3, <1>8, <2>1, <2>2
  <2>3. CASE saves'[j] = s
    BY <1>3, <2>1, <2>3
  <2> QED BY <1>4, <2>2, <2>3
<1> QED BY <1>4, <1>5, <1>7, <1>8 DEF SavesHold

LEMMA SameSavesHold ==
    ASSUME SeamTypeOK, LogHolds, SavesHold, LogGrows, UNCHANGED <<saves, disk>>,
           sent' \in Nat, sent <= sent', flight' = flight
    PROVE  SavesHold'
<1>1. /\ Len(log') \in Nat /\ Len(log) <= Len(log')
      /\ \A u \in 0..Len(log) : Kept(u)' = Kept(u)
  BY LogGrown
<1>2. /\ sent \in Nat /\ Len(log) \in Nat /\ disk.upto \in Nat
      /\ \A i \in 1..Len(saves) : saves[i].by \in Nat /\ saves[i].upto \in Nat
  <2>1. MaxSends \in Nat
    BY ConstantFacts
  <2>2. \A i \in 1..Len(saves) : saves[i] \in Saves
    BY ElementOfSeq DEF SeamTypeOK, Saves
  <2>3. sent \in Nat
    BY <2>1 DEF SeamTypeOK
  <2> QED BY <2>1, <2>2, <2>3, LogTypes DEF Saves
<1>3. \A i \in 1..Len(saves) : /\ saves[i].upto \in 0..Len(log) /\ saves[i].by <= sent'
                               /\ saves[i].upto <= Len(log')
                               /\ Kept(saves[i].upto)' = Kept(saves[i].upto)
  BY <1>1, <1>2 DEF SavesHold
<1> QED BY <1>3 DEF SavesHold, Batch

-----------------------------------------------------------------------------
(* The service: frames, handlers, microtasks and saves.                      *)

Handlers == [phase : {"none", "tick", "promote", "save"}, event : 0..NEvents,
             rest : Seq(Events)]
Turns    == {"running", "completed", "failed"}

TurnTypes ==
  /\ status \in Turns /\ sawTerminal \in BOOLEAN /\ turnDone \in BOOLEAN
  /\ promise \in {"open", "resolved", "rejected"}

LEMMA Types ==
    ASSUME SeamTypeOK
    PROVE  /\ next \in 0..NEvents /\ sent \in 0..MaxSends /\ MaxSends \in Nat /\ NEvents \in Nat
           /\ flight \in Batches /\ flight.batch \in Seq(Events) /\ queue \in Seq(Events)
           /\ toService \in Seq(Batches) /\ toWorker \in Seq(1..MaxSends)
           /\ handlers \in [1..MaxSends -> Handlers] /\ ready \in Seq(1..MaxSends)
           /\ saves \in Seq(Saves) /\ disk \in [upto : Nat, status : Turns] /\ TurnTypes
           /\ log \in Seq(Events) /\ applied \subseteq Events
           /\ settled \in [Events -> {"none", "wait", "ok", "err"}]
BY ConstantFacts DEF SeamTypeOK, Handlers, Saves, Turns, TurnTypes, Batches

LEMMA FailTurnTypes ==
    ASSUME TurnTypes, NEW c, NEW r, FailTurn(c, r)
    PROVE  /\ TurnTypes'
           /\ \/ saves' = c
              \/ saves' = Append(c, [by |-> 0, upto |-> Len(log), status |-> "failed"])
<1>1. CASE turnDone
  BY <1>1 DEF FailTurn, turnVars, TurnTypes
<1>2. CASE ~turnDone
  <2>1. /\ turnDone' = TRUE /\ promise' = "rejected" /\ sawTerminal' = sawTerminal
        /\ status' \in {status, "failed"}
        /\ \/ saves' = c
           \/ saves' = Append(c, [by |-> 0, upto |-> Len(log), status |-> "failed"])
    BY <1>2 DEF FailTurn
  <2> QED BY <2>1 DEF TurnTypes, Turns
<1> QED BY <1>1, <1>2 DEF TurnTypes

LEMMA SameWorkerHolds ==
    ASSUME WorkerHolds, UNCHANGED workerVars
    PROVE  WorkerHolds'
BY DEF WorkerHolds, Outstanding, Run, workerVars

\* What was on disk, or applied, still is.
LEMMA SameAcksHold ==
    ASSUME SeamTypeOK, LogHolds, AcksHold, LogGrows, UNCHANGED workerVars,
           UNCHANGED <<toWorker, disk>>
    PROVE  AcksHold'
<1>1. Kept(disk.upto)' = Kept(disk.upto)
  <2>1. disk.upto \in 0..Len(log) /\ disk' = disk
    BY LogTypes DEF LogHolds
  <2>2. \A u \in 0..Len(log) : Kept(u)' = Kept(u)
    BY LogGrown
  <2> QED BY <2>1, <2>2 DEF Kept
<1> QED BY <1>1 DEF AcksHold, Batch, workerVars

LEMMA FollowsLater ==
    ASSUME SeamTypeOK, LogGrows, next' \in Nat, next <= next',
           NEW s \in Seq(Events), Follows(s)
    PROVE  Follows(s)'
<1>1. PICK b \in {0} \cup Kept(Len(log)) : Run(s, b)
  BY DEF Follows
<1>2. b \in {0} \cup Kept(Len(log))' /\ b \in Nat
  <2>1. Kept(Len(log)) \subseteq Nat
    BY LogTypes DEF Kept, Events
  <2> QED BY <2>1, LogGrown
<1>3. Len(s) \in Nat /\ next \in Nat
  BY LenProperties, LogTypes
<1>4. Run(s, b)'
  BY <1>1, <1>2, <1>3 DEF Run
<1> QED BY <1>2, <1>4 DEF Follows

\* Frames are taken off the wire at its head.
LEMMA WireStep ==
    ASSUME SeamInv, LogGrows, UNCHANGED workerVars,
           toService' = toService \/ (toService # <<>> /\ toService' = Tail(toService)),
           chunk' <= Len(toService')
    PROVE  /\ WireHolds' /\ toService' \in Seq(Batches)
           /\ \A i \in 1..Len(toService') :
                \E j \in 1..Len(toService) : toService'[i] = toService[j]
           /\ toService # <<>> /\ toService' = Tail(toService) =>
                \A i \in 1..Len(toService') : toService'[i].msg # Head(toService).msg
<1>1. /\ toService \in Seq(Batches) /\ Len(toService) \in Nat
      /\ \A i \in 1..Len(toService) : toService[i] \in Batches
  BY Types, LenProperties, ElementOfSeq DEF SeamInv
<1>2. /\ toService' \in Seq(Batches) /\ Len(toService') \in Nat
      /\ \E x \in {0, 1} :
           /\ \A i \in 1..Len(toService') : i + x \in 1..Len(toService)
                                            /\ toService'[i] = toService[i + x]
           /\ toService # <<>> /\ toService' = Tail(toService) => x = 1
  <2>1. CASE toService' = toService /\ ~(toService # <<>> /\ toService' = Tail(toService))
    <3>1. \A i \in 1..Len(toService') : i + 0 \in 1..Len(toService)
                                        /\ toService'[i] = toService[i + 0]
      BY <1>1, <2>1
    <3> QED BY <1>1, <2>1, <3>1
  <2>2. CASE toService # <<>> /\ toService' = Tail(toService)
    BY <1>1, <2>2, TailFacts
  <2> QED BY <2>1, <2>2
<1>3. PICK x \in {0, 1} :
        /\ \A i \in 1..Len(toService') : i + x \in 1..Len(toService)
                                         /\ toService'[i] = toService[i + x]
        /\ toService # <<>> /\ toService' = Tail(toService) => x = 1
  BY <1>2
<1>4. \A i \in 1..Len(toService') : \E j \in 1..Len(toService) : toService'[i] = toService[j]
  BY <1>3
<1>5. UNCHANGED <<sent, flight, next>> /\ next \in Nat
  BY LogTypes DEF workerVars, SeamInv
<1>6. ASSUME NEW i \in 1..Len(toService'), NEW s, s = toService'[i].batch
      PROVE  /\ toService'[i].msg \in 1..sent /\ Follows(s)'
             /\ flight # Idle /\ toService'[i].msg = flight.msg => s = flight.batch
  <2>1. PICK j \in 1..Len(toService) : toService'[i] = toService[j]
    BY <1>4
  <2>2. /\ toService[j].msg \in 1..sent /\ Follows(s)
        /\ flight # Idle /\ toService[j].msg = flight.msg => s = flight.batch
        /\ s \in Seq(Events)
    BY <1>1, <1>6, <2>1 DEF SeamInv, WireHolds, Batches
  <2>3. Follows(s)'
    BY <1>5, <2>2, FollowsLater DEF SeamInv
  <2> QED BY <2>1, <2>2, <2>3
<1>7. ASSUME NEW i \in 1..Len(toService'), NEW j \in 1..Len(toService'),
             toService'[i].msg = toService'[j].msg
      PROVE  i = j
  <2>1. /\ i + x \in 1..Len(toService) /\ j + x \in 1..Len(toService)
        /\ toService[i + x].msg = toService[j + x].msg
    BY <1>3, <1>7
  <2>2. i + x = j + x
    BY <2>1 DEF SeamInv, WireHolds
  <2> QED BY <1>2, <2>2
<1>8. WireHolds'
  <2>1. \A i \in 1..Len(toService') : \E b \in {0} \cup Kept(Len(log))' :
          b + Len(toService'[i].batch) <= next'
          /\ \A y \in 1..Len(toService'[i].batch) : toService'[i].batch[y] = b + y
    BY <1>6 DEF Follows, Run
  <2> QED BY <1>5, <1>6, <1>7, <2>1 DEF WireHolds, Follows, Run
<1>9. ASSUME toService # <<>>, toService' = Tail(toService), NEW i \in 1..Len(toService')
      PROVE  toService'[i].msg # Head(toService).msg
  <2>1. x = 1 /\ i + 1 \in 1..Len(toService) /\ toService'[i] = toService[i + 1]
    BY <1>3, <1>9
  <2>2. Head(toService) = toService[1] /\ 1 \in 1..Len(toService)
    BY <1>1, <1>9, TailFacts, EmptySeq
  <2>3. i + 1 # 1
    BY <1>2
  <2> QED BY <2>1, <2>2, <2>3 DEF SeamInv, WireHolds
<1> QED BY <1>2, <1>4, <1>8, <1>9

LEMMA ServiceTypes ==
    ASSUME SeamTypeOK, UNCHANGED <<workerVars, workerUp>>,
           toService' \in Seq(Batches), toWorker' \in Seq(1..MaxSends), chunk' \in 0..MaxChunk,
           handlers' \in [1..MaxSends -> Handlers], ready' \in Seq(1..MaxSends),
           log' \in Seq(Events), applied' \subseteq Events, saves' \in Seq(Saves),
           disk' \in [upto : Nat, status : Turns], storeFailed' \in BOOLEAN, TurnTypes'
    PROVE  SeamTypeOK'
BY DEF SeamTypeOK, workerVars, Handlers, Saves, Turns, TurnTypes

\* What a handler finds that has the events evs left, with `others` queued.
Resumable(m, evs, others) ==
  /\ m \in 1..sent /\ evs \in Seq(Events) /\ Follows(evs)
  /\ flight # Idle /\ flight.msg = m => Batch \subseteq Kept(Len(log)) \cup ToSet(evs)
  /\ others \in Seq(1..MaxSends)
  /\ \A i \in 1..Len(others) : others[i] # m /\ handlers[others[i]].phase = "tick"
  /\ \A i, j \in 1..Len(others) : others[i] = others[j] => i = j

\* Its frame is off the wire.
Taken(m) ==
  /\ toService' = toService \/ (toService # <<>> /\ toService' = Tail(toService))
  /\ chunk' \in 0..MaxChunk /\ chunk' <= Len(toService')
  /\ \A i \in 1..Len(toService') : toService'[i].msg # m

\* The handler of message m is set to h.
LEMMA HandlerStep ==
    ASSUME SeamInv, LogGrows, UNCHANGED workerVars,
           NEW m \in 1..sent, NEW others \in Seq(1..MaxSends), NEW h \in Handlers,
           handlers' = [handlers EXCEPT ![m] = h],
           \A i \in 1..Len(others) : others[i] # m /\ handlers[others[i]].phase = "tick",
           \A i, j \in 1..Len(others) : others[i] = others[j] => i = j,
           h.phase \in {"tick", "promote"} =>
             /\ h.event \in Kept(Len(log))' /\ Run(h.rest, h.event)
             /\ flight # Idle /\ flight.msg = m => Batch \subseteq Kept(Len(log))' \cup ToSet(h.rest),
           ready' = others \/ (h.phase = "tick" /\ ready' = Append(others, m)),
           \A i \in 1..Len(toService') :
             /\ \E j \in 1..Len(toService) : toService'[i] = toService[j]
             /\ toService'[i].msg = m => h.phase = "none"
    PROVE  /\ HandlersHold' /\ handlers' \in [1..MaxSends -> Handlers]
           /\ ready' \in Seq(1..MaxSends)
<1>1. /\ UNCHANGED <<next, sent, flight>> /\ m \in 1..MaxSends
      /\ handlers \in [1..MaxSends -> Handlers]
      /\ Kept(Len(log)) \subseteq Kept(Len(log))'
  BY Types, LogGrown DEF SeamInv, workerVars
<1>2. /\ handlers' \in [1..MaxSends -> Handlers] /\ handlers'[m] = h
      /\ \A x \in 1..MaxSends : x # m => handlers'[x] = handlers[x]
  BY <1>1
<1>3. ASSUME NEW x \in 1..MaxSends
      PROVE  /\ handlers'[x].phase # "none" => x <= sent
             /\ handlers'[x].phase \in {"tick", "promote"} =>
                  /\ handlers'[x].event \in Kept(Len(log))'
                  /\ Run(handlers'[x].rest, handlers'[x].event)
                  /\ flight # Idle /\ flight.msg = x =>
                       Batch \subseteq Kept(Len(log))' \cup ToSet(handlers'[x].rest)
  <2>1. CASE x = m
    BY <1>2, <2>1
  <2>2. CASE x # m
    BY <1>1, <1>2, <2>2 DEF SeamInv, HandlersHold
  <2> QED BY <2>1, <2>2
<1>4. /\ Len(others) \in Nat /\ \A i \in 1..Len(others) : others[i] \in 1..MaxSends
  BY LenProperties, ElementOfSeq
<1>5. /\ ready' \in Seq(1..MaxSends)
      /\ \/ ready' = others
         \/ /\ h.phase = "tick" /\ Len(ready') = Len(others) + 1 /\ ready'[Len(others) + 1] = m
            /\ \A i \in 1..Len(others) : ready'[i] = others[i]
  <2>1. CASE ready' = others
    BY <2>1
  <2>2. CASE h.phase = "tick" /\ ready' = Append(others, m)
    <3>1. /\ Append(others, m) \in Seq(1..MaxSends)
          /\ Len(Append(others, m)) = Len(others) + 1 /\ Append(others, m)[Len(others) + 1] = m
          /\ \A i \in 1..Len(others) : Append(others, m)[i] = others[i]
      BY <1>1, AppendFacts
    <3> QED BY <2>2, <3>1
  <2> QED BY <2>1, <2>2
<1>6. \A i \in 1..Len(ready') : \/ i \in 1..Len(others) /\ ready'[i] = others[i]
                                \/ i = Len(others) + 1 /\ ready'[i] = m /\ h.phase = "tick"
  <2>1. CASE ready' = others
    BY <2>1
  <2>2. CASE /\ h.phase = "tick" /\ Len(ready') = Len(others) + 1 /\ ready'[Len(others) + 1] = m
             /\ \A i \in 1..Len(others) : ready'[i] = others[i]
    BY <1>4, <2>2
  <2> QED BY <1>5, <2>1, <2>2
<1>7. \A i \in 1..Len(ready') : handlers'[ready'[i]].phase = "tick"
  BY <1>2, <1>4, <1>6
<1>8. \A i, j \in 1..Len(ready') : ready'[i] = ready'[j] => i = j
  BY <1>6
<1>9. ASSUME NEW i \in 1..Len(toService')
      PROVE  handlers'[toService'[i].msg].phase = "none"
  <2>1. PICK j \in 1..Len(toService) : toService'[i] = toService[j]
    OBVIOUS
  <2>2. toService[j].msg \in 1..MaxSends /\ handlers[toService[j].msg].phase = "none"
    <3>1. toService[j].msg \in 1..sent /\ handlers[toService[j].msg].phase = "none"
      BY DEF SeamInv, WireHolds, HandlersHold
    <3>2. sent \in 0..MaxSends /\ MaxSends \in Nat
      BY Types DEF SeamInv
    <3> QED BY <3>1, <3>2
  <2> QED BY <1>2, <2>1, <2>2
<1>10. HandlersHold'
  BY <1>1, <1>3, <1>7, <1>8, <1>9 DEF HandlersHold, Run, Batch
<1> QED BY <1>2, <1>5, <1>10

LEMMA MinExists ==
    ASSUME NEW S, S \subseteq Nat, S # {}
    PROVE  \E i \in S : \A j \in S : i <= j
<1>1. PICK i \in S : \A j \in S : ~(<<j, i>> \in OpToRel(<, Nat))
  BY NatLessThanWellFounded, WFMin
<1>2. ASSUME NEW j \in S
      PROVE  i <= j
  <2>1. ~(<<j, i>>[1] < <<j, i>>[2])
    BY <1>1, <<j, i>> \in Nat \X Nat DEF OpToRel
  <2> QED BY <2>1
<1> QED BY <1>2

\* Either all that is left was applied before, or the first that was not is next.
LEMMA ResumeCases ==
    ASSUME NEW m, NEW evs \in Seq(Events), NEW done, NEW others, Resume(m, evs, done, others)
    PROVE  \/ /\ \A i \in 1..Len(evs) : evs[i] \in done
              /\ SaveEvents(m) /\ ready' = others
           \/ \E i \in 1..Len(evs) :
                /\ \A j \in 1..Len(evs) : j < i => evs[j] \in done
                /\ Apply(m, evs, i)
                /\ ready' = IF evs[i] = Completed THEN others ELSE Append(others, m)
<1> DEFINE fresh == {i \in DOMAIN evs : evs[i] \notin done}
           i == CHOOSE j \in fresh : \A k \in fresh : j <= k
<1>1. DOMAIN evs = 1..Len(evs) /\ Len(evs) \in Nat
  BY LenProperties
<1>2. CASE fresh = {}
  <2>1. SaveEvents(m) /\ ready' = others
    BY <1>2 DEF Resume
  <2> QED BY <1>1, <1>2, <2>1
<1>3. CASE fresh # {}
  <2>1. fresh \subseteq Nat
    BY <1>1
  <2>2. \E j \in fresh : \A k \in fresh : j <= k
    <3> HIDE DEF fresh
    <3> QED BY <1>3, <2>1, MinExists
  <2>3. i \in fresh /\ \A k \in fresh : i <= k
    BY <2>2
  <2>4. /\ Apply(m, evs, i)
        /\ ready' = IF evs[i] = Completed THEN others ELSE Append(others, m)
    BY <1>3 DEF Resume
  <2> HIDE DEF i
  <2>5. \A j \in 1..Len(evs) : j < i => evs[j] \in done
    BY <1>1, <2>1, <2>3
  <2> QED BY <1>1, <2>3, <2>4, <2>5
<1> QED BY <1>2, <1>3

\* The first event not applied yet is applied.
LEMMA ApplyStep ==
    ASSUME SeamInv, NEW m, NEW evs, NEW others, Resumable(m, evs, others), Taken(m),
           NEW i \in 1..Len(evs), \A j \in 1..Len(evs) : j < i => evs[j] \in Kept(Len(log)),
           Apply(m, evs, i), applied' \subseteq Kept(Len(log)),
           ready' = IF evs[i] = Completed THEN others ELSE Append(others, m),
           UNCHANGED <<workerVars, workerUp, toWorker, disk, storeFailed>>
    PROVE  SeamInv'
<1> DEFINE e == evs[i]
           rest == SubSeq(evs, i + 1, Len(evs))
           h == [phase |-> IF e = Completed THEN "promote" ELSE "tick", event |-> e, rest |-> rest]
<1>1. /\ evs \in Seq(Events) /\ Len(evs) \in Nat /\ e \in Events
      /\ \A y \in 1..Len(evs) : evs[y] \in Events
  BY LenProperties, ElementOfSeq DEF Resumable
<1>2. PICK b \in {0} \cup Kept(Len(log)) : Run(evs, b)
  BY DEF Resumable, Follows
<1>3. b \in Nat /\ next \in Nat /\ NEvents \in Nat /\ next <= NEvents
  BY <1>2, LogTypes, Types DEF Kept, Events, SeamInv
<1>4. e = b + i /\ e \in 1..next
  BY <1>1, <1>2, <1>3 DEF Run
<1>5. e = 1 \/ e - 1 \in Kept(Len(log))
  <2>1. CASE i = 1
    BY <1>2, <1>3, <1>4, <2>1
  <2>2. CASE i # 1
    <3>1. i - 1 \in 1..Len(evs) /\ i - 1 < i
      BY <1>1, <2>2
    <3>2. evs[i - 1] = e - 1
      BY <1>2, <1>3, <1>4, <3>1 DEF Run
    <3> QED BY <3>1, <3>2
  <2> QED BY <2>1, <2>2
<1>6. /\ rest \in Seq(Events) /\ Len(rest) = Len(evs) - i /\ Len(rest) \in Nat
      /\ \A y \in 1..Len(rest) : i + y \in 1..Len(evs) /\ rest[y] = evs[i + y]
  <2>1. \A y \in i + 1..Len(evs) : evs[y] \in Events
    BY <1>1
  <2>2. /\ rest \in Seq(Events)
        /\ Len(rest) = IF i + 1 <= Len(evs) THEN Len(evs) - (i + 1) + 1 ELSE 0
        /\ \A y \in 1..Len(evs) - (i + 1) + 1 : rest[y] = evs[(i + 1) + y - 1]
    BY <1>1, <2>1, SubSeqProperties
  <2> HIDE DEF rest
  <2> QED BY <1>1, <2>2
<1>7. Run(rest, e)
  <2> HIDE DEF rest, e
  <2>1. \A y \in 1..Len(rest) : rest[y] = e + y
    BY <1>1, <1>2, <1>3, <1>4, <1>6 DEF Run
  <2>2. e + Len(rest) <= next
    BY <1>1, <1>2, <1>3, <1>4, <1>6 DEF Run
  <2> QED BY <2>1, <2>2 DEF Run
<1>8. /\ log' = Append(log, e) /\ handlers' = [handlers EXCEPT ![m] = h]
      /\ UNCHANGED <<saves, sawTerminal, promise>> /\ turnDone' = (turnDone \/ e = Terminated)
      /\ status' \in {status, "completed", "failed"}
  BY DEF Apply
<1>9. LogGrows /\ m \in 1..sent /\ others \in Seq(1..MaxSends)
  BY <1>1, <1>8 DEF LogGrows, Resumable
<1>10. LogHolds' /\ e \in Kept(Len(log))'
  BY <1>4, <1>5, <1>8, AppliedHolds DEF SeamInv, workerVars
<1>11. h \in Handlers /\ h.event = e /\ h.rest = rest /\ h.phase \in {"tick", "promote"}
       /\ (h.phase = "tick" <=> e # Completed)
  <2> HIDE DEF rest, e
  <2> QED BY <1>1, <1>3, <1>6 DEF Handlers, Events
<1>12. flight # Idle /\ flight.msg = m => Batch \subseteq Kept(Len(log))' \cup ToSet(rest)
  <2>1. Kept(Len(log)) \subseteq Kept(Len(log))'
    BY <1>9, LogGrown DEF SeamInv
  <2>2. ToSet(evs) = {evs[y] : y \in 1..Len(evs)} /\ ToSet(rest) = {rest[y] : y \in 1..Len(rest)}
    BY <1>1, <1>6, LenProperties, ElementsOf
  <2>3. ASSUME NEW y \in 1..Len(evs)
        PROVE  evs[y] \in Kept(Len(log))' \cup ToSet(rest)
    <3>1. CASE y < i
      BY <2>1, <3>1
    <3>2. CASE y = i
      BY <1>10, <3>2
    <3>3. CASE y > i
      <4>1. y - i \in 1..Len(rest) /\ i + (y - i) = y
        BY <1>1, <1>6, <3>3
      <4>2. rest[y - i] = evs[y]
        BY <1>6, <4>1
      <4> HIDE DEF rest
      <4> QED BY <2>2, <4>1, <4>2
    <3> QED BY <1>1, <3>1, <3>2, <3>3
  <2> QED BY <2>1, <2>2, <2>3 DEF Resumable
<1> HIDE DEF h, rest
<1>13. ready' = others \/ (h.phase = "tick" /\ ready' = Append(others, m))
  BY <1>11
<1>14. /\ HandlersHold' /\ handlers' \in [1..MaxSends -> Handlers] /\ ready' \in Seq(1..MaxSends)
  <2>1. /\ \A x \in 1..Len(others) : others[x] # m /\ handlers[others[x]].phase = "tick"
        /\ \A x, y \in 1..Len(others) : others[x] = others[y] => x = y
    BY DEF Resumable
  <2>2. \A x \in 1..Len(toService') :
          /\ \E y \in 1..Len(toService) : toService'[x] = toService[y]
          /\ toService'[x].msg # m
    BY <1>9, WireStep DEF Taken
  <2>3. h.phase \in {"tick", "promote"} =>
          /\ h.event \in Kept(Len(log))' /\ Run(h.rest, h.event)
          /\ flight # Idle /\ flight.msg = m => Batch \subseteq Kept(Len(log))' \cup ToSet(h.rest)
    BY <1>7, <1>10, <1>11, <1>12
  <2> QED BY <1>8, <1>9, <1>11, <1>13, <2>1, <2>2, <2>3, HandlerStep
<1>15. WireHolds' /\ toService' \in Seq(Batches)
  BY <1>9, WireStep DEF Taken
<1>16. WorkerHolds' /\ AcksHold' /\ SavesHold'
  <2>1. sent' = sent /\ flight' = flight /\ sent \in Nat
    BY Types DEF workerVars, SeamInv
  <2> QED BY <1>8, <1>9, <2>1, SameWorkerHolds, SameAcksHold, SameSavesHold DEF SeamInv
<1>17. TurnTypes' /\ log' \in Seq(Events) /\ applied' \subseteq Events
  <2>1. Kept(Len(log)) \subseteq Events
    BY LogTypes DEF Kept, SeamInv
  <2>2. log' \in Seq(Events)
    BY <1>9, LogGrown DEF SeamInv
  <2>3. TurnTypes'
    BY <1>8, Types DEF TurnTypes, Turns, SeamInv
  <2> QED BY <2>1, <2>2, <2>3
<1>18. SeamTypeOK'
  <2>1. /\ chunk' \in 0..MaxChunk /\ toWorker' \in Seq(1..MaxSends) /\ saves' \in Seq(Saves)
        /\ disk' \in [upto : Nat, status : Turns]
    BY <1>8, Types DEF Taken, SeamInv
  <2>2. storeFailed' \in BOOLEAN
    BY DEF SeamInv, SeamTypeOK
  <2> QED BY <1>14, <1>15, <1>17, <2>1, <2>2, ServiceTypes DEF SeamInv
<1> QED BY <1>10, <1>14, <1>15, <1>16, <1>18 DEF SeamInv

\* A save is made, or joins the chain; the log stays.
LEMMA QuietStep ==
    ASSUME SeamInv, UNCHANGED <<workerVars, workerUp, log, disk, sent, flight>>,
           applied' \subseteq Kept(Len(log)), storeFailed' \in BOOLEAN, TurnTypes',
           NEW c, c = saves \/ (saves # <<>> /\ c = Tail(saves)),
           NEW s \in Saves, s.upto = Len(log), s.by <= sent,
           flight # Idle /\ s.by = flight.msg => Batch \subseteq Kept(Len(log)),
           saves' = c \/ saves' = Append(c, s),
           HandlersHold', handlers' \in [1..MaxSends -> Handlers], ready' \in Seq(1..MaxSends),
           toService' = toService \/ (toService # <<>> /\ toService' = Tail(toService)),
           chunk' \in 0..MaxChunk, chunk' <= Len(toService'), UNCHANGED toWorker
    PROVE  SeamInv'
<1>1. LogGrows /\ UNCHANGED <<next, sent, flight>>
  BY DEF LogGrows, workerVars
<1>2. LogHolds'
  <2>1. next \in Nat /\ applied' \subseteq Kept(Len(log)) /\ disk'.upto <= Len(log)
    BY LogTypes DEF SeamInv, LogHolds
  <2> QED BY <1>1, <2>1, SameLogHolds DEF SeamInv
<1>3. SavesHold' /\ saves' \in Seq(Saves)
  BY SavesStep DEF SeamInv
<1>4. WireHolds' /\ toService' \in Seq(Batches)
  BY <1>1, WireStep
<1>5. WorkerHolds' /\ AcksHold'
  BY <1>1, SameWorkerHolds, SameAcksHold DEF SeamInv
<1>6. SeamTypeOK'
  <2>1. log' \in Seq(Events) /\ applied' \subseteq Events
    BY LogTypes DEF Kept, SeamInv
  <2> QED BY <1>3, <1>4, <2>1, Types, ServiceTypes DEF SeamInv
<1> QED BY <1>2, <1>3, <1>4, <1>5, <1>6 DEF SeamInv

NoSave == [by |-> 0, upto |-> Len(log), status |-> "failed"]

LEMMA NoSaveFacts ==
    ASSUME SeamInv
    PROVE  /\ NoSave \in Saves /\ NoSave.upto = Len(log) /\ NoSave.by <= sent
           /\ ~(flight # Idle /\ NoSave.by = flight.msg)
<1>1. MaxSends \in Nat /\ Len(log) \in Nat /\ sent \in Nat
  BY Types, LogTypes DEF SeamInv
<1>2. flight # Idle => flight.msg # 0
  BY <1>1 DEF SeamInv, WorkerHolds
<1> QED BY <1>1, <1>2 DEF NoSave, Saves

\* Every event of the message was applied before: the task is saved.
LEMMA SaveEventsStep ==
    ASSUME SeamInv, NEW m, NEW evs, NEW others, Resumable(m, evs, others), Taken(m),
           \A i \in 1..Len(evs) : evs[i] \in Kept(Len(log)),
           SaveEvents(m), ready' = others, applied' \subseteq Kept(Len(log)),
           UNCHANGED <<workerVars, workerUp, toWorker, disk, storeFailed>>
    PROVE  SeamInv'
<1>1. /\ log' = log /\ LogGrows /\ m \in 1..sent /\ m \in 1..MaxSends
      /\ others \in Seq(1..MaxSends) /\ UNCHANGED <<sent, flight>>
      /\ storeFailed' \in BOOLEAN
  BY Types DEF SaveEvents, LogGrows, Resumable, workerVars, SeamInv, SeamTypeOK
<1>2. PICK p \in {"none", "save"} : handlers' = [handlers EXCEPT ![m] = [NoHandler EXCEPT !.phase = p]]
  BY DEF SaveEvents, NoHandler
<1> DEFINE h == [NoHandler EXCEPT !.phase = p]
<1>3. h \in Handlers /\ h.phase = p
  <2>1. h = [phase |-> p, event |-> 0, rest |-> <<>>]
    BY DEF NoHandler
  <2>2. 0 \in 0..NEvents /\ <<>> \in Seq(Events)
    BY Types, EmptySeq DEF SeamInv
  <2> HIDE DEF h
  <2> QED BY <2>1, <2>2 DEF Handlers
<1> HIDE DEF h
<1>4. /\ HandlersHold' /\ handlers' \in [1..MaxSends -> Handlers] /\ ready' \in Seq(1..MaxSends)
  <2>1. /\ \A x \in 1..Len(others) : others[x] # m /\ handlers[others[x]].phase = "tick"
        /\ \A x, y \in 1..Len(others) : others[x] = others[y] => x = y
    BY DEF Resumable
  <2>2. \A x \in 1..Len(toService') :
          /\ \E y \in 1..Len(toService) : toService'[x] = toService[y]
          /\ toService'[x].msg # m
    BY <1>1, WireStep DEF Taken
  <2>3. h.phase \notin {"tick", "promote"}
    BY <1>3
  <2>4. handlers' = [handlers EXCEPT ![m] = h]
    BY <1>2 DEF h
  <2> QED BY <1>1, <1>3, <2>1, <2>2, <2>3, <2>4, HandlerStep DEF workerVars
<1>5. /\ toService' = toService \/ (toService # <<>> /\ toService' = Tail(toService))
      /\ chunk' \in 0..MaxChunk /\ chunk' <= Len(toService')
  BY DEF Taken
<1>6. CASE storeFailed
  <2>1. FailTurn(saves, TRUE)
    BY <1>6 DEF SaveEvents
  <2>2. TurnTypes' /\ (saves' = saves \/ saves' = Append(saves, NoSave))
    BY <2>1, Types, FailTurnTypes DEF NoSave, SeamInv
  <2> QED BY <1>1, <1>4, <1>5, <2>2, NoSaveFacts, QuietStep
<1>7. CASE ~storeFailed
  <2> DEFINE s == [by |-> m, upto |-> Len(log), status |-> status]
  <2>1. saves' = Append(saves, s) /\ UNCHANGED turnVars
    BY <1>7 DEF SaveEvents
  <2>2. s \in Saves /\ s.upto = Len(log) /\ s.by <= sent /\ s.by = m
    BY <1>1, LogTypes, Types DEF Saves, TurnTypes, Turns, SeamInv
  <2>3. TurnTypes'
    BY <2>1, Types DEF TurnTypes, turnVars, SeamInv
  <2>4. flight # Idle /\ flight.msg = m => Batch \subseteq Kept(Len(log))
    <3>1. evs \in Seq(Events)
      BY DEF Resumable
    <3>2. ToSet(evs) = {evs[y] : y \in 1..Len(evs)}
      BY <3>1, LenProperties, ElementsOf
    <3> QED BY <3>2 DEF Resumable
  <2> HIDE DEF s
  <2> QED BY <1>1, <1>4, <1>5, <2>1, <2>2, <2>3, <2>4, QuietStep
<1> QED BY <1>6, <1>7

LEMMA ResumeStep ==
    ASSUME SeamInv, NEW m, NEW evs, NEW others, Resumable(m, evs, others), Taken(m),
           applied' \subseteq Kept(Len(log)), Resume(m, evs, applied', others),
           UNCHANGED <<workerVars, workerUp, toWorker, disk, storeFailed>>
    PROVE  SeamInv'
<1>1. evs \in Seq(Events)
  BY DEF Resumable
<1>2. CASE /\ \A i \in 1..Len(evs) : evs[i] \in applied'
           /\ SaveEvents(m) /\ ready' = others
  <2>1. \A i \in 1..Len(evs) : evs[i] \in Kept(Len(log))
    BY <1>2
  <2> QED BY <1>2, <2>1, SaveEventsStep
<1>3. CASE \E i \in 1..Len(evs) :
             /\ \A j \in 1..Len(evs) : j < i => evs[j] \in applied'
             /\ Apply(m, evs, i)
             /\ ready' = IF evs[i] = Completed THEN others ELSE Append(others, m)
  <2>1. PICK i \in 1..Len(evs) :
             /\ \A j \in 1..Len(evs) : j < i => evs[j] \in applied'
             /\ Apply(m, evs, i)
             /\ ready' = IF evs[i] = Completed THEN others ELSE Append(others, m)
    BY <1>3
  <2>2. \A j \in 1..Len(evs) : j < i => evs[j] \in Kept(Len(log))
    BY <2>1
  <2> QED BY <2>1, <2>2, ApplyStep
<1> QED BY <1>1, <1>2, <1>3, ResumeCases

LEMMA SameHandlersHold ==
    ASSUME SeamInv, UNCHANGED <<workerVars, log, handlers, ready>>,
           \A i \in 1..Len(toService') :
             \E j \in 1..Len(toService) : toService'[i] = toService[j]
    PROVE  HandlersHold'
<1>1. \A u : Kept(u)' = Kept(u)
  BY DEF Kept
<1>2. \A i \in 1..Len(toService') : handlers[toService'[i].msg].phase = "none"
  BY DEF SeamInv, HandlersHold
<1> QED BY <1>1, <1>2 DEF SeamInv, HandlersHold, Run, Batch, workerVars

LEMMA ReadChunkStep ==
    ASSUME SeamInv, NEW k \in 1..MaxChunk, ReadChunk(k)
    PROVE  SeamInv'
<1>1. /\ chunk' = k /\ k <= Len(toService)
      /\ UNCHANGED <<workerVars, workerUp, toService, toWorker, handlers, ready, log, applied,
                     saves, disk, storeFailed, turnVars, sent, flight>>
  BY DEF ReadChunk, wireVars, storeVars, workerVars
<1>2. HandlersHold'
  BY <1>1, SameHandlersHold
<1>3. chunk' \in 0..MaxChunk /\ chunk' <= Len(toService')
  BY <1>1, SeamAssumption
<1>4. TurnTypes' /\ storeFailed' \in BOOLEAN /\ applied' \subseteq Kept(Len(log))
  BY <1>1, Types DEF TurnTypes, turnVars, SeamInv, SeamTypeOK, LogHolds
<1>5. handlers' \in [1..MaxSends -> Handlers] /\ ready' \in Seq(1..MaxSends)
  BY <1>1, Types DEF SeamInv
<1>6. \E s \in Saves : /\ s.upto = Len(log) /\ s.by <= sent
                       /\ ~(flight # Idle /\ s.by = flight.msg)
  BY NoSaveFacts
<1> QED BY <1>1, <1>2, <1>3, <1>4, <1>5, <1>6, QuietStep

\* A frame is handled, or dropped when the turn is over.
LEMMA OnFrameStep ==
    ASSUME SeamInv, OnFrame
    PROVE  SeamInv'
<1> DEFINE m == Head(toService).msg
           evs == Head(toService).batch
<1>1. /\ chunk > 0 /\ chunk' = chunk - 1 /\ toService' = Tail(toService)
      /\ UNCHANGED <<workerVars, workerUp, toWorker, applied, disk, storeFailed, sent, flight>>
  BY DEF OnFrame, workerVars
<1>2. /\ toService \in Seq(Batches) /\ Len(toService) \in Nat /\ toService # <<>>
      /\ chunk \in 0..MaxChunk /\ MaxChunk \in Nat /\ chunk <= Len(toService)
  <2>1. chunk \in 0..MaxChunk /\ chunk <= Len(toService) /\ toService \in Seq(Batches)
    BY DEF SeamInv, SeamTypeOK, WireHolds
  <2>2. Len(toService) \in Nat /\ (toService = <<>> => Len(toService) = 0)
    BY <2>1, LenProperties
  <2> QED BY <1>1, <2>1, <2>2, SeamAssumption
<1>3. /\ 1 \in 1..Len(toService) /\ Head(toService) = toService[1] /\ toService[1] \in Batches
      /\ Len(Tail(toService)) = Len(toService) - 1
      /\ \A i \in 1..Len(toService) - 1 : i + 1 \in 1..Len(toService)
                                          /\ Tail(toService)[i] = toService[i + 1]
  BY <1>2, TailFacts
<1>4. chunk' \in 0..MaxChunk /\ chunk' <= Len(toService')
  BY <1>1, <1>2, <1>3
<1>5. \A i \in 1..Len(toService') :
        \E j \in 1..Len(toService) : j # 1 /\ toService'[i] = toService[j]
  BY <1>1, <1>2, <1>3
<1>6. applied' \subseteq Kept(Len(log))
  BY <1>1 DEF SeamInv, LogHolds
<1>7. CASE turnDone
  <2>1. UNCHANGED <<handlers, ready, log, saves, turnVars>>
    BY <1>7 DEF OnFrame
  <2>2. HandlersHold'
    BY <1>1, <1>5, <2>1, SameHandlersHold
  <2>3. TurnTypes' /\ storeFailed' \in BOOLEAN
    BY <1>1, <2>1, Types DEF TurnTypes, turnVars, SeamInv, SeamTypeOK
  <2>4. handlers' \in [1..MaxSends -> Handlers] /\ ready' \in Seq(1..MaxSends)
    BY <2>1, Types DEF SeamInv
  <2>5. \E s \in Saves : /\ s.upto = Len(log) /\ s.by <= sent
                         /\ ~(flight # Idle /\ s.by = flight.msg)
    BY NoSaveFacts
  <2> QED BY <1>1, <1>2, <1>4, <1>6, <2>1, <2>2, <2>3, <2>4, <2>5, QuietStep
<1>8. CASE ~turnDone
  <2>1. Resume(m, evs, applied', ready)
    BY <1>1, <1>8 DEF OnFrame
  <2>2. /\ m \in 1..sent /\ evs \in Seq(Events) /\ Follows(evs)
        /\ flight # Idle /\ flight.msg = m => evs = flight.batch
    BY <1>3 DEF SeamInv, WireHolds, Batches
  <2>3. Resumable(m, evs, ready)
    <3>1. \A i \in 1..Len(ready) : ready[i] # m /\ handlers[ready[i]].phase = "tick"
      <4>1. handlers[m].phase = "none"
        BY <1>3 DEF SeamInv, HandlersHold
      <4> QED BY <4>1 DEF SeamInv, HandlersHold
    <3>2. /\ ready \in Seq(1..MaxSends)
          /\ \A i, j \in 1..Len(ready) : ready[i] = ready[j] => i = j
      BY Types DEF SeamInv, HandlersHold
    <3> HIDE DEF m, evs
    <3> QED BY <2>2, <3>1, <3>2 DEF Resumable, Batch
  <2>4. Taken(m)
    <3>1. ASSUME NEW i \in 1..Len(toService')
          PROVE  toService'[i].msg # m
      <4>1. PICK j \in 1..Len(toService) : j # 1 /\ toService'[i] = toService[j]
        BY <1>5
      <4> QED BY <1>3, <4>1 DEF SeamInv, WireHolds
    <3> QED BY <1>1, <1>2, <1>4, <3>1 DEF Taken
  <2> HIDE DEF m, evs
  <2> QED BY <1>1, <1>6, <2>1, <2>3, <2>4, ResumeStep
<1> QED BY <1>7, <1>8

\* The event of a continuation is remembered, and the handler goes on.
LEMMA MicrotaskStep ==
    ASSUME SeamInv, Microtask
    PROVE  SeamInv'
<1> DEFINE m == Head(ready)
           evs == handlers[m].rest
           others == Tail(ready)
<1>1. /\ applied' = applied \cup {handlers[m].event} /\ Resume(m, evs, applied', others)
      /\ ready # <<>>
      /\ UNCHANGED <<workerVars, workerUp, toService, toWorker, chunk, disk, storeFailed, sent,
                     flight>>
  BY DEF Microtask, wireVars, workerVars
<1>2. /\ Len(ready) \in Nat \ {0} /\ m = ready[1] /\ m \in 1..MaxSends /\ 1 \in 1..Len(ready)
      /\ others \in Seq(1..MaxSends) /\ Len(others) = Len(ready) - 1
      /\ \A i \in 1..Len(ready) - 1 : i + 1 \in 1..Len(ready) /\ others[i] = ready[i + 1]
  BY <1>1, Types, TailFacts DEF SeamInv
<1>3. /\ handlers[m].phase = "tick" /\ m <= sent /\ handlers[m].event \in Kept(Len(log))
      /\ Run(evs, handlers[m].event)
      /\ flight # Idle /\ flight.msg = m => Batch \subseteq Kept(Len(log)) \cup ToSet(evs)
  BY <1>2 DEF SeamInv, HandlersHold
<1>4. evs \in Seq(Events)
  BY <1>2, Types DEF SeamInv, Handlers
<1> HIDE DEF m, evs, others
<1>5. \A i \in 1..Len(others) : \E j \in 1..Len(ready) : j # 1 /\ others[i] = ready[j]
  BY <1>2
<1>6. Resumable(m, evs, others)
  <2>1. ASSUME NEW i \in 1..Len(others)
        PROVE  others[i] # m /\ handlers[others[i]].phase = "tick"
    <3>1. PICK j \in 1..Len(ready) : j # 1 /\ others[i] = ready[j]
      BY <1>5
    <3>2. ready[j] # ready[1] /\ handlers[ready[j]].phase = "tick"
      BY <1>2, <3>1 DEF SeamInv, HandlersHold
    <3> QED BY <1>2, <3>1, <3>2
  <2>2. ASSUME NEW i \in 1..Len(others), NEW j \in 1..Len(others), others[i] = others[j]
        PROVE  i = j
    <3>1. i + 1 \in 1..Len(ready) /\ j + 1 \in 1..Len(ready) /\ ready[i + 1] = ready[j + 1]
      BY <1>2, <2>2
    <3>2. i + 1 = j + 1
      BY <3>1 DEF SeamInv, HandlersHold
    <3> QED BY <1>2, <3>2
  <2>3. m \in 1..sent /\ Follows(evs)
    <3>1. sent \in Nat
      BY Types DEF SeamInv
    <3> QED BY <1>2, <1>3, <3>1 DEF Follows
  <2> QED BY <1>2, <1>3, <1>4, <2>1, <2>2, <2>3 DEF Resumable
<1>7. Taken(m)
  <2>1. \A i \in 1..Len(toService) : toService[i].msg # m
    BY <1>3 DEF SeamInv, HandlersHold
  <2>2. chunk \in 0..MaxChunk /\ chunk <= Len(toService)
    BY DEF SeamInv, SeamTypeOK, WireHolds
  <2> QED BY <1>1, <2>1, <2>2 DEF Taken
<1>8. applied' \subseteq Kept(Len(log))
  BY <1>1, <1>3 DEF SeamInv, LogHolds
<1> QED BY <1>1, <1>6, <1>7, <1>8, ResumeStep

LEMMA NoHandlerFacts ==
    ASSUME SeamInv
    PROVE  NoHandler \in Handlers /\ NoHandler.phase = "none"
<1>1. 0 \in 0..NEvents /\ <<>> \in Seq(Events)
  BY Types, EmptySeq DEF SeamInv
<1> QED BY <1>1 DEF NoHandler, Handlers

\* In a callback of its own a handler is set to h, with no continuation queued.
LEMMA CallbackStep ==
    ASSUME SeamInv, Quiet, UNCHANGED <<workerVars, log, toService>>,
           NEW m \in 1..MaxSends, handlers[m].phase # "none" \/ m <= sent,
           NEW h \in Handlers, handlers' = [handlers EXCEPT ![m] = h],
           \/ h.phase = "none" /\ ready' = ready
           \/ /\ h.phase = "tick" /\ ready' = <<m>> /\ handlers[m].phase = "promote"
              /\ h.event = handlers[m].event /\ h.rest = handlers[m].rest
    PROVE  /\ HandlersHold' /\ handlers' \in [1..MaxSends -> Handlers]
           /\ ready' \in Seq(1..MaxSends)
<1>1. /\ LogGrows /\ UNCHANGED <<sent, flight>> /\ ready = <<>> /\ Len(<<>>) = 0
      /\ <<>> \in Seq(1..MaxSends)
  BY EmptySeq DEF LogGrows, workerVars, Quiet
<1>2. m \in 1..sent
  BY Types DEF SeamInv, HandlersHold
<1>3. h.phase \in {"tick", "promote"} =>
        /\ h.event \in Kept(Len(log))' /\ Run(h.rest, h.event)
        /\ flight # Idle /\ flight.msg = m => Batch \subseteq Kept(Len(log))' \cup ToSet(h.rest)
  <2>1. Kept(Len(log))' = Kept(Len(log))
    BY DEF Kept
  <2> QED BY <2>1 DEF SeamInv, HandlersHold
<1>4. ready' = <<>> \/ (h.phase = "tick" /\ ready' = Append(<<>>, m))
  BY <1>1
<1>5. \A i \in 1..Len(toService') :
        /\ \E j \in 1..Len(toService) : toService'[i] = toService[j]
        /\ toService'[i].msg = m => h.phase = "none"
  BY DEF SeamInv, HandlersHold
<1>6. \A i \in 1..Len(<<>>) : <<>>[i] # m /\ handlers[<<>>[i]].phase = "tick"
  BY <1>1
<1>7. \A i, j \in 1..Len(<<>>) : <<>>[i] = <<>>[j] => i = j
  BY <1>1
<1> QED BY <1>1, <1>2, <1>3, <1>4, <1>5, <1>6, <1>7, HandlerStep

\* A callback that saves nothing, or fails the turn: `c` is the chain it leaves.
LEMMA CallbackHolds ==
    ASSUME SeamInv, HandlersHold', handlers' \in [1..MaxSends -> Handlers],
           ready' \in Seq(1..MaxSends),
           UNCHANGED <<workerVars, workerUp, toService, toWorker, chunk, log, applied, disk>>,
           storeFailed' \in BOOLEAN, TurnTypes',
           NEW c, c = saves \/ (saves # <<>> /\ c = Tail(saves)),
           saves' = c \/ saves' = Append(c, NoSave)
    PROVE  SeamInv'
<1>1. /\ chunk' \in 0..MaxChunk /\ chunk' <= Len(toService') /\ applied' \subseteq Kept(Len(log))
      /\ UNCHANGED <<sent, flight>>
  BY DEF SeamInv, SeamTypeOK, WireHolds, LogHolds, workerVars
<1> QED BY <1>1, NoSaveFacts, QuietStep

LEMMA PromotedStep ==
    ASSUME SeamInv, NEW m \in 1..MaxSends, Promoted(m)
    PROVE  SeamInv'
<1> DEFINE h == [handlers[m] EXCEPT !.phase = "tick"]
<1>1. /\ Quiet /\ handlers[m].phase = "promote" /\ sawTerminal' = TRUE
      /\ handlers' = [handlers EXCEPT ![m].phase = "tick"] /\ ready' = <<m>>
      /\ UNCHANGED <<workerVars, workerUp, toService, toWorker, chunk, log, applied, saves, disk,
                     storeFailed, status, turnDone, promise>>
  BY DEF Promoted, wireVars, storeVars
<1>2. handlers \in [1..MaxSends -> Handlers] /\ handlers[m] \in Handlers
  BY Types DEF SeamInv
<1>3. /\ h \in Handlers /\ h.phase = "tick" /\ h.event = handlers[m].event
      /\ h.rest = handlers[m].rest
  BY <1>2 DEF Handlers
<1>4. handlers' = [handlers EXCEPT ![m] = h]
  BY <1>1, <1>2
<1> HIDE DEF h
<1>5. HandlersHold' /\ handlers' \in [1..MaxSends -> Handlers] /\ ready' \in Seq(1..MaxSends)
  BY <1>1, <1>3, <1>4, CallbackStep
<1>6. TurnTypes' /\ storeFailed' \in BOOLEAN
  BY <1>1, Types DEF TurnTypes, SeamInv, SeamTypeOK
<1> QED BY <1>1, <1>5, <1>6, CallbackHolds

LEMMA PromoteFailsStep ==
    ASSUME SeamInv, NEW m \in 1..MaxSends, PromoteFails(m)
    PROVE  SeamInv'
<1>1. /\ Quiet /\ handlers[m].phase = "promote" /\ handlers' = [handlers EXCEPT ![m] = NoHandler]
      /\ FailTurn(saves, storeFailed)
      /\ UNCHANGED <<workerVars, workerUp, toService, toWorker, chunk, ready, log, applied, disk,
                     storeFailed>>
  BY DEF PromoteFails, wireVars
<1>2. HandlersHold' /\ handlers' \in [1..MaxSends -> Handlers] /\ ready' \in Seq(1..MaxSends)
  BY <1>1, NoHandlerFacts, CallbackStep
<1>3. TurnTypes' /\ (saves' = saves \/ saves' = Append(saves, NoSave))
  BY <1>1, Types, FailTurnTypes DEF NoSave, SeamInv
<1>4. storeFailed' \in BOOLEAN
  BY <1>1 DEF SeamInv, SeamTypeOK
<1> QED BY <1>1, <1>2, <1>3, <1>4, CallbackHolds

\* The head of the chain, and who waits for it.
LEMMA HeadOfSaves ==
    ASSUME SeamInv, saves # <<>>
    PROVE  /\ Head(saves) = saves[1] /\ 1 \in 1..Len(saves) /\ saves[1] \in Saves
           /\ Head(saves).by # 0 => Head(saves).by \in 1..sent /\ Head(saves).by \in 1..MaxSends
<1>1. saves \in Seq(Saves) /\ sent \in 0..MaxSends /\ MaxSends \in Nat
  BY Types DEF SeamInv
<1>2. Head(saves) = saves[1] /\ 1 \in 1..Len(saves) /\ saves[1] \in Saves
  BY <1>1, TailFacts
<1>3. saves[1].by <= sent /\ saves[1].by \in 0..MaxSends
  BY <1>2 DEF SeamInv, SavesHold, Saves
<1> QED BY <1>1, <1>2, <1>3

\* The write fails: who waited for it fails the turn.
LEMMA SaveFailsStep ==
    ASSUME SeamInv, SaveFails
    PROVE  SeamInv'
<1> DEFINE m == Head(saves).by
<1>1. /\ Quiet /\ saves # <<>> /\ storeFailed' = TRUE
      /\ UNCHANGED <<workerVars, workerUp, toService, toWorker, chunk, ready, log, applied, disk>>
  BY DEF SaveFails, wireVars
<1>2. CASE m = 0
  <2>1. saves' = Tail(saves) /\ UNCHANGED <<handlers, turnVars>>
    BY <1>2 DEF SaveFails
  <2>2. HandlersHold'
    BY <1>1, <2>1, SameHandlersHold
  <2>3. TurnTypes' /\ handlers' \in [1..MaxSends -> Handlers] /\ ready' \in Seq(1..MaxSends)
    BY <1>1, <2>1, Types DEF TurnTypes, turnVars, SeamInv
  <2> QED BY <1>1, <2>1, <2>2, <2>3, CallbackHolds
<1>3. CASE m # 0
  <2>1. handlers' = [handlers EXCEPT ![m] = NoHandler] /\ FailTurn(Tail(saves), TRUE)
    BY <1>3 DEF SaveFails
  <2>2. m \in 1..sent /\ m \in 1..MaxSends
    BY <1>1, <1>3, HeadOfSaves
  <2> HIDE DEF m
  <2>3. HandlersHold' /\ handlers' \in [1..MaxSends -> Handlers] /\ ready' \in Seq(1..MaxSends)
    <3>1. m <= sent /\ UNCHANGED <<workerVars, log, toService>> /\ ready' = ready
      BY <1>1, <2>2
    <3> QED BY <1>1, <2>1, <2>2, <3>1, NoHandlerFacts, CallbackStep
  <2>4. TurnTypes' /\ (saves' = Tail(saves) \/ saves' = Append(Tail(saves), NoSave))
    BY <2>1, Types, FailTurnTypes DEF NoSave, SeamInv
  <2> QED BY <1>1, <2>3, <2>4, CallbackHolds
<1> QED BY <1>2, <1>3

LEMMA WorkerClosedStep ==
    ASSUME SeamInv, WorkerClosed
    PROVE  SeamInv'
<1>1. /\ FailTurn(saves, storeFailed)
      /\ UNCHANGED <<workerVars, workerUp, toService, toWorker, chunk, handlers, ready, log,
                     applied, disk, storeFailed>>
  BY DEF WorkerClosed, wireVars, handlerVars
<1>2. TurnTypes' /\ (saves' = saves \/ saves' = Append(saves, NoSave))
  BY <1>1, Types, FailTurnTypes DEF NoSave, SeamInv
<1>3. HandlersHold'
  BY <1>1, SameHandlersHold
<1>4. /\ handlers' \in [1..MaxSends -> Handlers] /\ ready' \in Seq(1..MaxSends)
      /\ storeFailed' \in BOOLEAN
  BY <1>1, Types DEF SeamInv, SeamTypeOK
<1> QED BY <1>1, <1>2, <1>3, <1>4, CallbackHolds

\* A snapshot reaches the disk: it holds what the last one held, and all of the
\* batch that is acknowledged for it.
LEMMA SaveDoneStep ==
    ASSUME SeamInv, SaveDone
    PROVE  SeamInv' /\ disk.upto <= disk'.upto
<1> DEFINE s == Head(saves)
<1>1. /\ Quiet /\ saves # <<>> /\ saves' = Tail(saves)
      /\ disk' = [upto |-> s.upto, status |-> s.status]
      /\ UNCHANGED <<workerVars, workerUp, toService, chunk, ready, log, applied, storeFailed,
                     status, sawTerminal, turnDone>>
  BY DEF SaveDone
<1>2. /\ s = saves[1] /\ 1 \in 1..Len(saves) /\ s \in Saves
      /\ s.by # 0 => s.by \in 1..sent /\ s.by \in 1..MaxSends
  BY <1>1, HeadOfSaves
<1>3. /\ s.upto \in 0..Len(log) /\ disk.upto <= s.upto
      /\ flight # Idle /\ s.by = flight.msg => Batch \subseteq Kept(s.upto)
  BY <1>2, LogTypes DEF SeamInv, SavesHold, Saves
<1>4. /\ \/ s.by = 0 /\ UNCHANGED <<toWorker, handlers, promise>>
         \/ /\ s.by # 0 /\ toWorker' = Append(toWorker, s.by)
            /\ handlers' = [handlers EXCEPT ![s.by] = NoHandler]
            /\ promise' \in {promise, "resolved", "rejected"}
  BY DEF SaveDone
<1> HIDE DEF s
<1>5. disk' \in [upto : Nat, status : Turns] /\ disk'.upto = s.upto
  BY <1>1, <1>2 DEF Saves, Turns
<1>6. LogGrows /\ UNCHANGED <<sent, flight>> /\ \A u : Kept(u)' = Kept(u)
  BY <1>1 DEF LogGrows, workerVars, Kept
<1>7. LogHolds'
  <2>1. applied' \subseteq Kept(Len(log)) /\ disk'.upto <= Len(log)
    BY <1>1, <1>3, <1>5 DEF SeamInv, LogHolds
  <2>2. next' \in Nat /\ next <= next' /\ log' = log
    BY <1>1, LogTypes DEF workerVars, SeamInv
  <2> QED BY <2>1, <2>2, SameLogHolds DEF SeamInv
<1>8. SavesHold' /\ saves' \in Seq(Saves)
  <2>1. /\ saves \in Seq(Saves) /\ Len(saves) \in Nat \ {0} /\ saves' \in Seq(Saves)
        /\ Len(saves') = Len(saves) - 1
        /\ \A i \in 1..Len(saves') : i + 1 \in 1..Len(saves) /\ saves'[i] = saves[i + 1]
    BY <1>1, Types, TailFacts DEF SeamInv
  <2>2. ASSUME NEW i \in 1..Len(saves')
        PROVE  /\ s.upto <= saves'[i].upto /\ saves'[i].upto <= Len(log) /\ saves'[i].by <= sent
               /\ flight # Idle /\ saves'[i].by = flight.msg => Batch \subseteq Kept(saves'[i].upto)
    <3>1. i + 1 \in 1..Len(saves) /\ saves'[i] = saves[i + 1] /\ 1 < i + 1
      BY <2>1
    <3> QED BY <1>2, <3>1 DEF SeamInv, SavesHold
  <2>3. ASSUME NEW i \in 1..Len(saves'), NEW j \in 1..Len(saves'), i < j
        PROVE  saves'[i].upto <= saves'[j].upto
    <3>1. /\ i + 1 \in 1..Len(saves) /\ saves'[i] = saves[i + 1] /\ i + 1 < j + 1
          /\ j + 1 \in 1..Len(saves) /\ saves'[j] = saves[j + 1]
      BY <2>1, <2>3
    <3> QED BY <3>1 DEF SeamInv, SavesHold
  <2> QED BY <1>1, <1>5, <1>6, <2>1, <2>2, <2>3 DEF SavesHold, Batch
<1>9. AcksHold' /\ toWorker' \in Seq(1..MaxSends)
  <2>1. Kept(disk.upto) \subseteq Kept(s.upto) /\ sent \in Nat
    <3>1. disk.upto \in 0..Len(log) /\ s.upto \in disk.upto..Len(log) /\ SeamTypeOK
      BY <1>3, LogTypes DEF SeamInv
    <3> QED BY <3>1, Types, KeptFacts
  <2>2. toWorker \in Seq(1..MaxSends) /\ Len(toWorker) \in Nat
    BY Types, LenProperties DEF SeamInv
  <2>3. /\ toWorker' \in Seq(1..MaxSends)
        /\ \A i \in 1..Len(toWorker') :
             \/ i \in 1..Len(toWorker) /\ toWorker'[i] = toWorker[i]
             \/ s.by # 0 /\ toWorker'[i] = s.by
    <3>1. CASE s.by = 0
      BY <1>4, <2>2, <3>1
    <3>2. CASE s.by # 0
      <4>1. /\ toWorker' \in Seq(1..MaxSends) /\ Len(toWorker') = Len(toWorker) + 1
            /\ toWorker'[Len(toWorker) + 1] = s.by
            /\ \A i \in 1..Len(toWorker) : toWorker'[i] = toWorker[i]
        <5>1. toWorker' = Append(toWorker, s.by) /\ s.by \in 1..MaxSends
          BY <1>2, <1>4, <3>2
        <5> QED BY <2>2, <5>1, AppendFacts
      <4> QED BY <2>2, <3>2, <4>1
    <3> QED BY <3>1, <3>2
  <2>4. ASSUME NEW i \in 1..Len(toWorker')
        PROVE  /\ toWorker'[i] <= sent
               /\ flight # Idle /\ toWorker'[i] = flight.msg => Batch \subseteq Kept(s.upto)
    <3>1. CASE i \in 1..Len(toWorker) /\ toWorker'[i] = toWorker[i]
      BY <2>1, <3>1 DEF SeamInv, AcksHold
    <3>2. CASE s.by # 0 /\ toWorker'[i] = s.by
      BY <1>2, <1>3, <2>1, <3>2
    <3> QED BY <2>3, <3>1, <3>2
  <2>5. \A e \in Events : settled[e] = "ok" => e \in Kept(s.upto)
    BY <2>1 DEF SeamInv, AcksHold
  <2> QED BY <1>1, <1>5, <1>6, <2>3, <2>4, <2>5 DEF AcksHold, Batch, workerVars
<1>10. HandlersHold' /\ handlers' \in [1..MaxSends -> Handlers] /\ ready' \in Seq(1..MaxSends)
  <2>1. CASE s.by = 0
    BY <1>1, <1>4, <2>1, Types, SameHandlersHold DEF SeamInv
  <2>2. CASE s.by # 0
    BY <1>1, <1>2, <1>4, <2>2, NoHandlerFacts, CallbackStep
  <2> QED BY <2>1, <2>2
<1>11. WireHolds' /\ toService' \in Seq(Batches) /\ chunk' \in 0..MaxChunk
  <2>1. chunk \in 0..MaxChunk /\ chunk' <= Len(toService')
    BY <1>1 DEF SeamInv, SeamTypeOK, WireHolds
  <2> QED BY <1>1, <1>6, <2>1, WireStep
<1>12. WorkerHolds'
  BY <1>1, SameWorkerHolds DEF SeamInv
<1>13. TurnTypes' /\ storeFailed' \in BOOLEAN
  BY <1>1, <1>4, Types DEF TurnTypes, SeamInv, SeamTypeOK
<1>14. SeamTypeOK'
  <2>1. log' \in Seq(Events) /\ applied' \subseteq Events
    BY <1>1, Types DEF SeamInv
  <2> QED BY <1>1, <1>5, <1>8, <1>9, <1>10, <1>11, <1>13, <2>1, ServiceTypes DEF SeamInv
<1> QED BY <1>3, <1>5, <1>7, <1>8, <1>9, <1>10, <1>11, <1>12, <1>14 DEF SeamInv

-----------------------------------------------------------------------------
(* The worker: what it emits, sends, sees acknowledged and sends again.      *)

LEMMA WorkerTypes ==
    ASSUME SeamTypeOK, next' \in 0..NEvents,
           settled' \in [Events -> {"none", "wait", "ok", "err"}], queue' \in Seq(Events),
           timer' \in BOOLEAN, flight' \in Batches, sent' \in 0..MaxSends,
           failures' \in 0..MaxFailures + 1, fatal' \in BOOLEAN, workerUp' \in BOOLEAN,
           toService' \in Seq(Batches), toWorker' \in Seq(1..MaxSends),
           UNCHANGED <<handlerVars, storeVars, turnVars>>
    PROVE  SeamTypeOK'
BY DEF SeamTypeOK, handlerVars, storeVars, turnVars

\* What the service holds when the worker moves.
LEMMA WorkerMoves ==
    ASSUME SeamInv, UNCHANGED <<handlerVars, storeVars>>, next' \in Nat, next <= next',
           sent' \in Nat, sent <= sent'
    PROVE  /\ LogHolds' /\ \A u : Kept(u)' = Kept(u)
           /\ \A s \in Seq(Events) : Follows(s) => Follows(s)'
           /\ \A s \in Seq(Events), b \in Nat : Run(s, b) => Run(s, b)'
<1>1. log' = log /\ disk' = disk /\ applied' = applied /\ LogGrows
  BY DEF handlerVars, storeVars, LogGrows
<1>2. LogHolds'
  BY <1>1, SameLogHolds DEF SeamInv, LogHolds
<1>3. \A u : Kept(u)' = Kept(u)
  BY <1>1 DEF Kept
<1>4. \A s \in Seq(Events) : Follows(s) => Follows(s)'
  BY <1>1, FollowsLater DEF SeamInv
<1>5. ASSUME NEW s \in Seq(Events), NEW b \in Nat, Run(s, b)
      PROVE  Run(s, b)'
  <2>1. Len(s) \in Nat /\ next \in Nat
    BY LenProperties, LogTypes DEF SeamInv
  <2> QED BY <1>5, <2>1 DEF Run
<1> QED BY <1>2, <1>3, <1>4, <1>5

\* A step that sends nothing, and after which nothing new is waited for.
LEMMA SilentStep ==
    ASSUME SeamInv, UNCHANGED <<handlerVars, storeVars, turnVars>>, next' \in 0..NEvents,
           next <= next', flight' = flight \/ flight' = Idle, UNCHANGED <<sent, toService>>,
           settled' \in [Events -> {"none", "wait", "ok", "err"}],
           \A e \in Events : settled'[e] = "ok" => e \in Kept(disk.upto),
           queue' \in Seq(Events), timer' \in BOOLEAN, failures' \in 0..MaxFailures + 1,
           fatal' \in BOOLEAN, workerUp' \in BOOLEAN,
           toWorker' = toWorker \/ (toWorker # <<>> /\ toWorker' = Tail(toWorker)),
           WorkerHolds'
    PROVE  SeamInv'
<1>1. next' \in Nat /\ sent \in Nat /\ next \in Nat /\ flight \in Batches /\ flight' \in Batches
  <2>1. Idle \in Batches
    <3>1. 0 \in 0..MaxSends /\ <<>> \in Seq(Events)
      BY Types, EmptySeq DEF SeamInv
    <3> QED BY <3>1 DEF Idle, Batches
  <2>2. flight \in Batches /\ sent \in Nat /\ next \in Nat /\ next' \in Nat
    BY Types, LogTypes DEF SeamInv
  <2> QED BY <2>1, <2>2
<1>2. /\ LogHolds' /\ \A u : Kept(u)' = Kept(u)
      /\ \A s \in Seq(Events) : Follows(s) => Follows(s)'
      /\ \A s \in Seq(Events), b \in Nat : Run(s, b) => Run(s, b)'
  BY <1>1, WorkerMoves
<1>3. flight' # Idle => flight' = flight
  OBVIOUS
<1>4. UNCHANGED <<chunk, handlers, ready, log, saves, disk>>
  BY DEF handlerVars, storeVars
<1>5. SavesHold'
  BY <1>2, <1>3, <1>4 DEF SeamInv, SavesHold, Batch
<1>6. /\ toWorker' \in Seq(1..MaxSends)
      /\ \A i \in 1..Len(toWorker') : \E j \in 1..Len(toWorker) : toWorker'[i] = toWorker[j]
  <2>1. toWorker \in Seq(1..MaxSends)
    BY Types DEF SeamInv
  <2>2. CASE toWorker' = toWorker
    BY <2>1, <2>2
  <2>3. CASE toWorker # <<>> /\ toWorker' = Tail(toWorker)
    <3>1. /\ toWorker' \in Seq(1..MaxSends) /\ Len(toWorker') = Len(toWorker) - 1
          /\ \A i \in 1..Len(toWorker) - 1 : i + 1 \in 1..Len(toWorker)
                                             /\ toWorker'[i] = toWorker[i + 1]
      BY <2>1, <2>3, TailFacts
    <3> QED BY <3>1
  <2> QED BY <2>2, <2>3
<1>7. AcksHold'
  BY <1>2, <1>3, <1>4, <1>6 DEF SeamInv, AcksHold, Batch
<1>8. WireHolds'
  <2>1. \A i \in 1..Len(toService) : toService[i].batch \in Seq(Events)
    <3>1. toService \in Seq(Batches)
      BY Types DEF SeamInv
    <3>2. \A i \in 1..Len(toService) : toService[i] \in Batches
      BY <3>1, ElementOfSeq
    <3> QED BY <3>2 DEF Batches
  <2>2. \A i \in 1..Len(toService) : \E b \in {0} \cup Kept(Len(log))' :
          b + Len(toService[i].batch) <= next'
          /\ \A y \in 1..Len(toService[i].batch) : toService[i].batch[y] = b + y
    BY <1>2, <2>1 DEF SeamInv, WireHolds, Follows, Run
  <2>3. \A i \in 1..Len(toService) :
          /\ toService[i].msg \in 1..sent
          /\ flight' # Idle /\ toService[i].msg = flight'.msg => toService[i].batch = flight'.batch
    BY <1>3 DEF SeamInv, WireHolds
  <2>4. /\ chunk' <= Len(toService)
        /\ \A i, j \in 1..Len(toService) : toService[i].msg = toService[j].msg => i = j
    BY <1>4 DEF SeamInv, WireHolds
  <2> QED BY <2>2, <2>3, <2>4 DEF WireHolds, Follows, Run
<1>9. HandlersHold'
  <2>1. handlers \in [1..MaxSends -> Handlers]
    BY Types DEF SeamInv
  <2>2. ASSUME NEW m \in 1..MaxSends, handlers[m].phase \in {"tick", "promote"}
        PROVE  handlers[m].event + Len(handlers[m].rest) <= next'
               /\ \A y \in 1..Len(handlers[m].rest) : handlers[m].rest[y] = handlers[m].event + y
    <3>1. handlers[m].event \in Nat /\ handlers[m].rest \in Seq(Events)
      <4>1. handlers[m] \in Handlers /\ NEvents \in Nat
        BY <2>1, Types DEF SeamInv
      <4> QED BY <4>1 DEF Handlers
    <3> QED BY <1>2, <2>2, <3>1 DEF SeamInv, HandlersHold, Run
  <2> QED BY <1>2, <1>3, <1>4, <2>2 DEF SeamInv, HandlersHold, Batch, Run
<1>10. SeamTypeOK'
  <2>1. sent' \in 0..MaxSends /\ toService' \in Seq(Batches)
    BY Types DEF SeamInv
  <2> QED BY <1>1, <1>6, <2>1, WorkerTypes DEF SeamInv
<1> QED BY <1>2, <1>5, <1>7, <1>8, <1>9, <1>10 DEF SeamInv

\* With q in the queue, k events acknowledged and a batch sent if one may be.
LEMMA QueueStep ==
    ASSUME SeamInv, ~fatal, NEW q \in Seq(Events), next' \in 0..NEvents, next <= next',
           settled' \in [Events -> {"none", "wait", "ok", "err"}],
           NEW k \in 0..next, \A e \in Events : settled[e] = "ok" <=> e <= k, Outstanding(k),
           \A e \in Events : settled'[e] = "ok" <=> settled[e] = "ok",
           k + Len(flight.batch) + Len(q) = next',
           \A i \in 1..Len(q) : q[i] = k + Len(flight.batch) + i,
           UNCHANGED <<failures, fatal, workerUp, toWorker, handlerVars, storeVars, turnVars>>,
           Flush(q) \/ (queue' = q /\ timer' = TRUE /\ UNCHANGED <<flight, sent, toService>>)
    PROVE  SeamInv'
<1>1. /\ next \in Nat /\ next' \in Nat /\ k \in Nat /\ NEvents \in Nat /\ sent \in 0..MaxSends
      /\ sent \in Nat /\ MaxSends \in Nat
      /\ flight \in Batches /\ flight.batch \in Seq(Events) /\ Len(flight.batch) \in Nat
      /\ Len(q) \in Nat /\ timer' \in BOOLEAN /\ failures \in Nat /\ MaxFailures \in Nat
      /\ failures <= MaxFailures
  <2>1. flight.batch \in Seq(Events) /\ flight \in Batches
    BY Types DEF SeamInv
  <2>2. Len(flight.batch) \in Nat /\ Len(q) \in Nat
    BY <2>1, LenProperties
  <2>3. timer' \in BOOLEAN
    BY DEF Flush
  <2>4. failures \in Nat /\ MaxFailures \in Nat
    BY ConstantFacts DEF SeamInv, SeamTypeOK
  <2> QED BY <2>1, <2>2, <2>3, <2>4, Types, LogTypes DEF SeamInv, Outstanding
<1>2. \A e \in Events : settled'[e] = "ok" => e \in Kept(disk.upto)
  BY DEF SeamInv, AcksHold
<1>3. CASE queue' = q /\ UNCHANGED <<flight, sent, toService>>
  <2>1. Outstanding(k)'
    <3>1. Run(flight.batch, k)'
      BY <1>1, <1>3 DEF Outstanding, Run
    <3>2. Run(queue, k + Len(flight.batch))'
      BY <1>1, <1>3 DEF Run
    <3> QED BY <1>1, <1>3, <3>1, <3>2 DEF Outstanding
  <2>2. WorkerHolds'
    <3>1. k \in 0..next'
      BY <1>1
    <3> QED BY <1>3, <2>1, <3>1 DEF SeamInv, WorkerHolds
  <2>3. /\ failures' \in 0..MaxFailures + 1 /\ fatal' \in BOOLEAN /\ workerUp' \in BOOLEAN
    BY DEF SeamInv, SeamTypeOK
  <2> QED BY <1>1, <1>2, <1>3, <2>2, <2>3, SilentStep
<1>4. CASE ~(queue' = q /\ UNCHANGED <<flight, sent, toService>>)
  <2> DEFINE n == IF Len(q) < MaxBatch THEN Len(q) ELSE MaxBatch
             batch == SubSeq(q, 1, n)
             rest == SubSeq(q, n + 1, Len(q))
             frame == [msg |-> sent + 1, batch |-> batch]
  <2>1. /\ flight = Idle /\ q # <<>> /\ queue' = rest /\ sent' = sent + 1 /\ flight' = frame
        /\ toService' = Append(toService, frame)
    BY <1>4 DEF Flush
  <2>2. flight.batch = <<>> /\ Len(flight.batch) = 0
    BY <2>1 DEF Idle
  <2>3. n \in 1..Len(q) /\ n \in Nat
    <3>1. MaxBatch \in Nat \ {0} /\ Len(q) # 0
      BY <2>1, ConstantFacts, EmptySeq
    <3> QED BY <1>1, <3>1
  <2>4. /\ batch \in Seq(Events) /\ Len(batch) = n /\ \A i \in 1..n : batch[i] = q[i]
        /\ rest \in Seq(Events) /\ Len(rest) = Len(q) - n
        /\ \A i \in 1..Len(rest) : n + i \in 1..Len(q) /\ rest[i] = q[n + i]
    <3> HIDE DEF n
    <3>1. \A i \in 1..Len(q) : q[i] \in Events
      BY ElementOfSeq
    <3>2. /\ batch \in Seq(Events) /\ Len(batch) = n /\ \A i \in 1..n : batch[i] = q[i]
      <4>1. /\ batch \in Seq(Events) /\ Len(batch) = IF 1 <= n THEN n - 1 + 1 ELSE 0
            /\ \A i \in 1..n - 1 + 1 : batch[i] = q[1 + i - 1]
        BY <1>1, <2>3, <3>1, SubSeqProperties
      <4> HIDE DEF batch
      <4> QED BY <2>3, <4>1
    <3>3. /\ rest \in Seq(Events) /\ Len(rest) = Len(q) - n
          /\ \A i \in 1..Len(rest) : n + i \in 1..Len(q) /\ rest[i] = q[n + i]
      <4>1. /\ rest \in Seq(Events)
            /\ Len(rest) = IF n + 1 <= Len(q) THEN Len(q) - (n + 1) + 1 ELSE 0
            /\ \A i \in 1..Len(q) - (n + 1) + 1 : rest[i] = q[(n + 1) + i - 1]
        <5>1. \A i \in n + 1..Len(q) : q[i] \in Events
          BY <1>1, <2>3, <3>1
        <5>2. n + 1 \in Int /\ Len(q) \in Int
          BY <1>1, <2>3
        <5> QED BY <5>1, <5>2, SubSeqProperties
      <4> HIDE DEF rest
      <4> QED BY <1>1, <2>3, <4>1
    <3> QED BY <3>2, <3>3
  <2> HIDE DEF n, batch, rest
  <2>5. /\ \A i \in 1..n : batch[i] = k + i
        /\ \A i \in 1..Len(rest) : rest[i] = k + n + i
        /\ k + Len(q) = next'
    <3>1. \A i \in 1..Len(q) : q[i] = k + i
      BY <1>1, <2>2
    <3>2. \A i \in 1..n : i \in 1..Len(q) /\ batch[i] = q[i]
      BY <1>1, <2>3, <2>4
    <3>3. \A i \in 1..Len(rest) : rest[i] = k + (n + i)
      BY <2>4, <3>1
    <3>4. k + Len(q) = next'
      BY <1>1, <2>2
    <3>5. \A i \in 1..n : batch[i] = k + i
      BY <3>1, <3>2
    <3>6. \A i \in 1..Len(rest) : rest[i] = k + n + i
      BY <1>1, <2>3, <3>3
    <3> QED BY <3>4, <3>5, <3>6
  <2>6. sent + 1 <= MaxSends /\ sent + 1 <= k * (MaxFailures + 1) + failures + 1
    <3>1. k < NEvents
      BY <1>1, <2>3, <2>5
    <3>2. sent <= k * (MaxFailures + 1) + failures
      <4>1. sent <= k * (MaxFailures + 1) + failures + 0 /\ k * (MaxFailures + 1) \in Nat
        BY <1>1, <2>1 DEF Outstanding
      <4> HIDE DEF Outstanding
      <4> QED BY <1>1, <4>1
    <3> QED BY <1>1, <3>1, <3>2, RoomToSend
  <2>7. /\ frame \in Batches /\ frame.msg = sent + 1 /\ frame.batch = batch /\ frame # Idle
        /\ sent' \in 0..MaxSends /\ sent' \in Nat /\ sent <= sent'
    <3>1. sent + 1 \in 0..MaxSends /\ sent + 1 # 0
      BY <1>1, <2>6
    <3>2. Idle.msg = 0
      BY DEF Idle
    <3> QED BY <1>1, <2>1, <2>4, <3>1, <3>2 DEF Batches
  <2> HIDE DEF frame
  <2>8. /\ LogHolds' /\ \A u : Kept(u)' = Kept(u)
        /\ \A s \in Seq(Events) : Follows(s) => Follows(s)'
        /\ \A s \in Seq(Events), b \in Nat : Run(s, b) => Run(s, b)'
    BY <1>1, <2>7, WorkerMoves
  <2>9. UNCHANGED <<chunk, handlers, ready, log, saves, disk>>
    BY DEF handlerVars, storeVars
  <2>10. WorkerHolds'
    <3>1. Outstanding(k)'
      <4>1. Run(flight.batch, k)' /\ Run(queue, k + Len(flight.batch))'
        <5>1. flight'.batch = batch /\ queue' = rest /\ Len(batch) = n
          BY <2>1, <2>4, <2>7
        <5>2. k + n <= next' /\ k + n + Len(rest) <= next'
          BY <1>1, <2>3, <2>4, <2>5
        <5> QED BY <2>5, <5>1, <5>2 DEF Run
      <4>2. k + n + Len(rest) = next'
        BY <1>1, <2>3, <2>4, <2>5
      <4> QED BY <1>1, <2>1, <2>4, <2>6, <2>7, <4>1, <4>2 DEF Outstanding
    <3>2. flight'.msg = sent' /\ sent' > 0 /\ flight'.batch # <<>>
      BY <1>1, <2>1, <2>3, <2>4, <2>7, EmptySeq
    <3>3. k \in 0..next'
      BY <1>1
    <3> QED BY <3>1, <3>2, <3>3 DEF WorkerHolds
  <2>11. SavesHold'
    <3>1. \A i \in 1..Len(saves) : saves[i].by <= sent' /\ saves[i].by # flight'.msg
      <4>1. \A i \in 1..Len(saves) : saves[i] \in Saves
        BY Types, ElementOfSeq DEF SeamInv
      <4>2. \A i \in 1..Len(saves) : saves[i].by \in 0..MaxSends /\ saves[i].by <= sent
        BY <4>1 DEF Saves, SeamInv, SavesHold
      <4> QED BY <1>1, <2>1, <2>7, <4>2
    <3> QED BY <2>8, <2>9, <3>1 DEF SeamInv, SavesHold
  <2>12. Follows(batch)'
    <3>1. k \in {0} \cup Kept(Len(log))
      <4>1. CASE k = 0
        BY <4>1
      <4>2. CASE k # 0
        <5>1. k \in Events
          BY <1>1, <4>2 DEF Events
        <5>2. k \in Kept(disk.upto)
          BY <5>1 DEF SeamInv, AcksHold
        <5>3. disk.upto \in 0..Len(log) /\ Len(log) \in disk.upto..Len(log)
          BY LogTypes DEF SeamInv, LogHolds
        <5> QED BY <5>2, <5>3, KeptFacts DEF SeamInv
      <4> QED BY <4>1, <4>2
    <3>2. Run(batch, k)'
      BY <1>1, <2>3, <2>4, <2>5 DEF Run
    <3>3. k \in {0} \cup Kept(Len(log))'
      <4>1. Kept(Len(log))' = Kept(Len(log))
        BY <2>9 DEF Kept
      <4> QED BY <3>1, <4>1
    <3> QED BY <3>2, <3>3 DEF Follows
  <2>13. /\ toService' \in Seq(Batches) /\ Len(toService') = Len(toService) + 1
         /\ Len(toService) \in Nat
         /\ \A i \in 1..Len(toService') :
              \/ i \in 1..Len(toService) /\ toService'[i] = toService[i]
              \/ i = Len(toService) + 1 /\ toService'[i] = frame
    <3>1. toService \in Seq(Batches)
      BY Types DEF SeamInv
    <3>2. /\ Append(toService, frame) \in Seq(Batches)
          /\ Len(Append(toService, frame)) = Len(toService) + 1 /\ Len(toService) \in Nat
          /\ \A i \in 1..Len(toService) : Append(toService, frame)[i] = toService[i]
          /\ Append(toService, frame)[Len(toService) + 1] = frame
      BY <2>7, <3>1, AppendFacts
    <3> QED BY <2>1, <3>2
  <2>14. \A i \in 1..Len(toService) : toService[i].msg \in 1..sent
                                     /\ toService[i].batch \in Seq(Events)
    <3>1. \A i \in 1..Len(toService) : toService[i] \in Batches
      BY Types, ElementOfSeq DEF SeamInv
    <3> QED BY <3>1 DEF Batches, SeamInv, WireHolds
  <2>15. WireHolds'
    <3>1. \A s \in Seq(Events) : Follows(s) \/ Follows(s)' =>
            \E b \in {0} \cup Kept(Len(log))' :
              b + Len(s) <= next' /\ \A y \in 1..Len(s) : s[y] = b + y
      <4>1. \A s \in Seq(Events) : Follows(s) => Follows(s)'
        BY <2>8
      <4> QED BY <4>1 DEF Follows, Run
    <3>2. ASSUME NEW i \in 1..Len(toService')
          PROVE  /\ toService'[i].msg \in 1..sent'
                 /\ toService'[i].msg = flight'.msg => toService'[i].batch = flight'.batch
                 /\ \E b \in {0} \cup Kept(Len(log))' :
                      b + Len(toService'[i].batch) <= next'
                      /\ \A y \in 1..Len(toService'[i].batch) : toService'[i].batch[y] = b + y
      <4>1. CASE i \in 1..Len(toService) /\ toService'[i] = toService[i]
        <5>1. /\ toService[i].msg \in 1..sent /\ toService[i].batch \in Seq(Events)
              /\ Follows(toService[i].batch)
          BY <2>14, <4>1 DEF SeamInv, WireHolds
        <5>2. \E b \in {0} \cup Kept(Len(log))' :
                b + Len(toService[i].batch) <= next'
                /\ \A y \in 1..Len(toService[i].batch) : toService[i].batch[y] = b + y
          BY <3>1, <5>1
        <5>3. toService[i].msg \in 1..sent' /\ toService[i].msg # flight'.msg
          BY <1>1, <2>1, <2>7, <5>1
        <5> QED BY <4>1, <5>2, <5>3
      <4>2. CASE toService'[i] = frame
        <5>1. \E b \in {0} \cup Kept(Len(log))' :
                b + Len(batch) <= next' /\ \A y \in 1..Len(batch) : batch[y] = b + y
          BY <2>4, <2>12, <3>1
        <5>2. frame.msg \in 1..sent' /\ flight' = frame
          BY <1>1, <2>1, <2>7
        <5> QED BY <2>7, <4>2, <5>1, <5>2
      <4> QED BY <2>13, <4>1, <4>2
    <3>3. ASSUME NEW i \in 1..Len(toService'), NEW j \in 1..Len(toService'),
                 toService'[i].msg = toService'[j].msg
          PROVE  i = j
      <4>1. CASE i \in 1..Len(toService) /\ j \in 1..Len(toService)
        <5>1. toService'[i] = toService[i] /\ toService'[j] = toService[j]
          BY <2>13, <4>1
        <5>2. toService[i].msg = toService[j].msg
          BY <3>3, <5>1
        <5> QED BY <4>1, <5>2 DEF SeamInv, WireHolds
      <4>2. CASE ~(i \in 1..Len(toService) /\ j \in 1..Len(toService))
        <5>1. \A x \in 1..Len(toService') :
                \/ x \in 1..Len(toService) /\ toService'[x].msg <= sent
                \/ x = Len(toService) + 1 /\ toService'[x].msg = sent + 1
          <6> TAKE x \in 1..Len(toService')
          <6>1. CASE x \in 1..Len(toService) /\ toService'[x] = toService[x]
            BY <1>1, <2>14, <6>1
          <6>2. CASE x = Len(toService) + 1 /\ toService'[x] = frame
            BY <2>7, <6>2
          <6> QED BY <2>13, <6>1, <6>2
        <5>2. ~(sent + 1 <= sent)
          BY <1>1
        <5> QED BY <3>3, <4>2, <5>1, <5>2
      <4> QED BY <4>1, <4>2
    <3>4. chunk' <= Len(toService')
      <4>1. chunk \in Nat /\ chunk <= Len(toService)
        BY SeamAssumption DEF SeamInv, SeamTypeOK, WireHolds
      <4> QED BY <2>9, <2>13, <4>1
    <3> QED BY <3>2, <3>3, <3>4 DEF WireHolds, Follows, Run
  <2>16. HandlersHold'
    <3>1. handlers \in [1..MaxSends -> Handlers] /\ sent + 1 \in 1..MaxSends
      BY <1>1, <2>6, Types DEF SeamInv
    <3>2. ASSUME NEW m \in 1..MaxSends
          PROVE  /\ handlers[m].phase # "none" => m <= sent' /\ m # flight'.msg
                 /\ handlers[m].phase \in {"tick", "promote"} =>
                      /\ handlers[m].event \in Kept(Len(log))
                      /\ handlers[m].event + Len(handlers[m].rest) <= next'
                      /\ \A y \in 1..Len(handlers[m].rest) :
                           handlers[m].rest[y] = handlers[m].event + y
      <4>1. handlers[m] \in Handlers /\ (handlers[m].phase # "none" => m <= sent)
        BY <3>1 DEF SeamInv, HandlersHold
      <4>2. handlers[m].event \in Nat /\ handlers[m].rest \in Seq(Events)
        BY <1>1, <4>1 DEF Handlers
      <4>3. handlers[m].phase \in {"tick", "promote"} =>
              /\ handlers[m].event \in Kept(Len(log))
              /\ handlers[m].event + Len(handlers[m].rest) <= next'
              /\ \A y \in 1..Len(handlers[m].rest) :
                   handlers[m].rest[y] = handlers[m].event + y
        <5>1. handlers[m].phase \in {"tick", "promote"} =>
                handlers[m].event \in Kept(Len(log)) /\ Run(handlers[m].rest, handlers[m].event)
          BY DEF SeamInv, HandlersHold
        <5> DEFINE s == handlers[m].rest
                   b == handlers[m].event
        <5>2. Run(s, b) => s \in Seq(Events) /\ b \in Nat
          BY <4>2
        <5> HIDE DEF s, b
        <5>3. Run(s, b) => b + Len(s) <= next' /\ \A y \in 1..Len(s) : s[y] = b + y
          <6>1. Run(s, b) => Len(s) \in Nat
            BY <5>2, LenProperties
          <6> QED BY <1>1, <5>2, <6>1 DEF Run
        <5> QED BY <5>1, <5>3 DEF s, b
      <4> QED BY <1>1, <2>1, <2>7, <4>1, <4>3
    <3>3. ASSUME NEW i \in 1..Len(toService')
          PROVE  handlers[toService'[i].msg].phase = "none"
      <4>1. CASE i \in 1..Len(toService) /\ toService'[i] = toService[i]
        BY <4>1 DEF SeamInv, HandlersHold
      <4>2. CASE toService'[i] = frame
        <5>1. ~(sent + 1 <= sent)
          BY <1>1
        <5> QED BY <2>7, <3>1, <4>2, <5>1 DEF SeamInv, HandlersHold
      <4> QED BY <2>13, <4>1, <4>2
    <3>4. /\ \A i \in 1..Len(ready) : handlers[ready[i]].phase = "tick"
          /\ \A i, j \in 1..Len(ready) : ready[i] = ready[j] => i = j
      BY DEF SeamInv, HandlersHold
    <3>5. Kept(Len(log))' = Kept(Len(log))
      BY <2>9 DEF Kept
    <3>6. \A m \in 1..MaxSends :
            /\ handlers'[m].phase # "none" => m <= sent'
            /\ handlers'[m].phase \in {"tick", "promote"} =>
                 /\ handlers'[m].event \in Kept(Len(log))' /\ flight'.msg # m
                 /\ handlers'[m].event + Len(handlers'[m].rest) <= next'
                 /\ \A y \in 1..Len(handlers'[m].rest) :
                      handlers'[m].rest[y] = handlers'[m].event + y
      BY <2>9, <3>2, <3>5
    <3> QED BY <2>9, <3>3, <3>4, <3>6 DEF HandlersHold, Run
  <2>17. AcksHold'
    <3>1. \A i \in 1..Len(toWorker) : toWorker[i] <= sent' /\ toWorker[i] # flight'.msg
      <4>1. \A i \in 1..Len(toWorker) : toWorker[i] \in 1..MaxSends /\ toWorker[i] <= sent
        BY Types, ElementOfSeq DEF SeamInv, AcksHold
      <4> QED BY <1>1, <2>1, <2>7, <4>1
    <3> QED BY <1>2, <2>8, <2>9, <3>1 DEF AcksHold
  <2>18. SeamTypeOK'
    <3>1. failures' \in 0..MaxFailures + 1 /\ fatal' \in BOOLEAN /\ workerUp' \in BOOLEAN
          /\ toWorker' \in Seq(1..MaxSends)
      BY DEF SeamInv, SeamTypeOK
    <3> QED BY <1>1, <2>1, <2>4, <2>7, <2>13, <3>1, WorkerTypes DEF SeamInv
  <2> QED BY <2>8, <2>10, <2>11, <2>15, <2>16, <2>17, <2>18 DEF SeamInv
<1> QED BY <1>3, <1>4

LEMMA AppendEventStep ==
    ASSUME SeamInv, AppendEvent
    PROVE  SeamInv' /\ \A e \in Events : settled'[e] = "ok" <=> settled[e] = "ok"
<1> DEFINE q == Append(queue, next + 1)
<1>1. /\ ~fatal /\ next < NEvents /\ next' = next + 1
      /\ settled' = [settled EXCEPT ![next + 1] = "wait"]
      /\ Flush(q) \/ (queue' = q /\ timer' = TRUE /\ UNCHANGED <<flight, sent, toService>>)
      /\ UNCHANGED <<failures, fatal, workerUp, toWorker, handlerVars, storeVars, turnVars>>
  BY DEF AppendEvent
<1>2. /\ next \in Nat /\ NEvents \in Nat /\ next + 1 \in Events
      /\ queue \in Seq(Events) /\ flight.batch \in Seq(Events)
      /\ settled \in [Events -> {"none", "wait", "ok", "err"}]
  BY <1>1, Types, LogTypes DEF Events, SeamInv
<1>3. PICK k \in 0..next : (\A e \in Events : settled[e] = "ok" <=> e <= k) /\ Outstanding(k)
  BY <1>1 DEF SeamInv, WorkerHolds
<1>4. /\ settled' \in [Events -> {"none", "wait", "ok", "err"}]
      /\ \A e \in Events : settled'[e] = "ok" <=> settled[e] = "ok"
  <2>1. /\ settled' \in [Events -> {"none", "wait", "ok", "err"}] /\ settled'[next + 1] = "wait"
        /\ \A e \in Events : e # next + 1 => settled'[e] = settled[e]
    BY <1>1, <1>2
  <2>2. settled[next + 1] # "ok"
    <3>1. ~(next + 1 <= k)
      BY <1>2
    <3> QED BY <1>2, <1>3, <3>1
  <2> QED BY <2>1, <2>2
<1>5. /\ q \in Seq(Events) /\ Len(q) = Len(queue) + 1 /\ Len(queue) \in Nat
      /\ q[Len(queue) + 1] = next + 1 /\ \A i \in 1..Len(queue) : q[i] = queue[i]
  BY <1>2, AppendFacts
<1> HIDE DEF q
<1>6. /\ Len(flight.batch) \in Nat /\ k \in Nat /\ k + Len(flight.batch) + Len(queue) = next
      /\ \A i \in 1..Len(queue) : queue[i] = k + Len(flight.batch) + i
  BY <1>2, <1>3, LenProperties DEF Outstanding, Run
<1> DEFINE f == Len(flight.batch)
           l == Len(queue)
<1>7. k + Len(flight.batch) + Len(q) = next'
  <2>1. f \in Nat /\ l \in Nat /\ k \in Nat /\ k + f + l = next
    BY <1>5, <1>6
  <2>2. Len(q) = l + 1 /\ next' = next + 1
    BY <1>1, <1>5
  <2> HIDE DEF f, l
  <2>3. k + f + Len(q) = next'
    BY <2>1, <2>2
  <2> QED BY <2>3 DEF f
<1>8. \A i \in 1..Len(q) : q[i] = k + Len(flight.batch) + i
  <2>1. \A i \in 1..Len(q) : i \in 1..Len(queue) \/ i = Len(queue) + 1
    BY <1>5
  <2>2. next + 1 = k + Len(flight.batch) + (Len(queue) + 1)
    <3>1. f \in Nat /\ l \in Nat /\ k \in Nat /\ k + f + l = next
      BY <1>5, <1>6
    <3> HIDE DEF f, l
    <3>2. next + 1 = k + f + (l + 1)
      BY <3>1
    <3> QED BY <3>2 DEF f, l
  <2> QED BY <1>5, <1>6, <2>1, <2>2
<1>9. next' \in 0..NEvents /\ next <= next'
  BY <1>1, <1>2
<1>10. SeamInv'
  BY <1>1, <1>3, <1>4, <1>5, <1>7, <1>8, <1>9, QueueStep
<1> QED BY <1>4, <1>10

LEMMA FlushTimerStep ==
    ASSUME SeamInv, FlushTimer
    PROVE  SeamInv'
<1>1. /\ ~fatal /\ Flush(queue) /\ UNCHANGED <<next, settled>>
      /\ UNCHANGED <<failures, fatal, workerUp, toWorker, handlerVars, storeVars, turnVars>>
  BY DEF FlushTimer
<1>2. /\ next \in Nat /\ next' \in 0..NEvents /\ next <= next' /\ queue \in Seq(Events)
      /\ settled' \in [Events -> {"none", "wait", "ok", "err"}]
  BY <1>1, Types, LogTypes DEF SeamInv
<1>3. PICK k \in 0..next : (\A e \in Events : settled[e] = "ok" <=> e <= k) /\ Outstanding(k)
  BY <1>1 DEF SeamInv, WorkerHolds
<1>4. /\ k + Len(flight.batch) + Len(queue) = next'
      /\ \A i \in 1..Len(queue) : queue[i] = k + Len(flight.batch) + i
  BY <1>1, <1>3 DEF Outstanding, Run
<1>5. \A e \in Events : settled'[e] = "ok" <=> settled[e] = "ok"
  BY <1>1
<1> QED BY <1>1, <1>2, <1>3, <1>4, <1>5, QueueStep

\* settled with a batch settled.
LEMMA SettleFacts ==
    ASSUME SeamInv, NEW b \in Seq(Events), NEW how \in {"ok", "err"}
    PROVE  /\ Settle(b, how) \in [Events -> {"none", "wait", "ok", "err"}]
           /\ \A e \in Events : Settle(b, how)[e] = IF e \in ToSet(b) THEN how ELSE settled[e]
           /\ ToSet(b) = {b[i] : i \in 1..Len(b)} /\ Len(b) \in Nat
<1>1. settled \in [Events -> {"none", "wait", "ok", "err"}]
  BY Types DEF SeamInv
<1> QED BY <1>1, LenProperties, ElementsOf DEF Settle

\* The reply that is waited for acknowledges the batch; any other is dropped.
LEMMA ReceiveReplyStep ==
    ASSUME SeamInv, ReceiveReply
    PROVE  SeamInv'
<1>1. /\ ~fatal /\ toWorker # <<>> /\ toWorker' = Tail(toWorker)
      /\ UNCHANGED <<next, queue, sent, fatal, workerUp, toService, handlerVars, storeVars,
                     turnVars>>
  BY DEF ReceiveReply
<1>2. /\ next \in Nat /\ next' \in 0..NEvents /\ next <= next' /\ queue' \in Seq(Events)
      /\ flight \in Batches /\ flight.batch \in Seq(Events) /\ Len(flight.batch) \in Nat
      /\ NEvents \in Nat
  BY <1>1, Types, LogTypes, LenProperties DEF SeamInv
<1>3. /\ fatal' \in BOOLEAN /\ workerUp' \in BOOLEAN /\ timer \in BOOLEAN
      /\ failures \in 0..MaxFailures + 1 /\ MaxFailures \in Nat
  BY <1>1, ConstantFacts DEF SeamInv, SeamTypeOK
<1>4. toWorker \in Seq(1..MaxSends) /\ Head(toWorker) = toWorker[1] /\ 1 \in 1..Len(toWorker)
      /\ toWorker[1] \in 1..MaxSends
  BY <1>1, Types, TailFacts DEF SeamInv
<1>5. PICK k \in 0..next : (\A e \in Events : settled[e] = "ok" <=> e <= k) /\ Outstanding(k)
  BY <1>1 DEF SeamInv, WorkerHolds
<1>6. CASE UNCHANGED <<settled, failures, flight, timer>>
  <2>1. UNCHANGED workerVars
    BY <1>1, <1>6 DEF workerVars
  <2>2. WorkerHolds'
    BY <2>1, SameWorkerHolds DEF SeamInv
  <2>3. \A e \in Events : settled'[e] = "ok" => e \in Kept(disk.upto)
    BY <1>6 DEF SeamInv, AcksHold
  <2>4. settled' \in [Events -> {"none", "wait", "ok", "err"}]
    BY <1>6, Types DEF SeamInv
  <2> QED BY <1>1, <1>2, <1>3, <1>6, <2>2, <2>3, <2>4, SilentStep
<1>7. CASE /\ Head(toWorker) = flight.msg /\ settled' = Settle(flight.batch, "ok")
           /\ failures' = 0 /\ flight' = Idle /\ timer' = (timer \/ queue # <<>>)
  <2> DEFINE b == flight.batch
  <2>0. PICK j \in Nat : j = k + Len(flight.batch)
    <3>1. k + Len(flight.batch) \in Nat
      BY <1>2
    <3> QED BY <3>1
  <2>1. flight # Idle /\ Batch \subseteq Kept(disk.upto)
    <3>1. flight.msg # 0
      BY <1>4, <1>7
    <3>2. flight # Idle
      BY <3>1 DEF Idle
    <3> QED BY <1>4, <1>7, <3>2 DEF SeamInv, AcksHold
  <2>2. /\ settled' \in [Events -> {"none", "wait", "ok", "err"}]
        /\ \A e \in Events : settled'[e] = IF e \in ToSet(b) THEN "ok" ELSE settled[e]
        /\ ToSet(b) = {b[i] : i \in 1..Len(b)}
    BY <1>2, <1>7, SettleFacts
  <2>3. \A e \in Events : settled'[e] = "ok" => e \in Kept(disk.upto)
    BY <2>1, <2>2 DEF SeamInv, AcksHold, Batch
  <2>4. j \in 0..next /\ k \in Nat /\ k < j /\ Len(b) # 0
    <3>1. k + Len(flight.batch) <= next
      BY <1>5 DEF Outstanding, Run
    <3>2. Len(b) # 0
      BY <1>2, <2>1, EmptySeq DEF SeamInv, WorkerHolds
    <3> QED BY <1>2, <2>0, <3>1, <3>2
  <2>5. ASSUME NEW e \in Events
        PROVE  settled'[e] = "ok" <=> e <= j
    <3>1. e \in Nat
      BY DEF Events
    <3>2. \A i \in 1..Len(b) : b[i] = k + i
      BY <1>5 DEF Outstanding, Run
    <3>3. CASE e <= k
      BY <1>5, <2>2, <2>4, <3>1, <3>3
    <3>4. CASE k < e /\ e <= j
      <4>1. e - k \in 1..Len(b) /\ k + (e - k) = e
        BY <1>2, <2>0, <2>4, <3>1, <3>4
      <4>2. b[e - k] = e
        BY <3>2, <4>1
      <4> QED BY <2>2, <3>4, <4>1, <4>2
    <3>5. CASE j < e
      <4>1. e \notin ToSet(b)
        BY <1>2, <2>0, <2>2, <2>4, <3>1, <3>2, <3>5
      <4>2. settled[e] # "ok"
        BY <1>5, <2>0, <2>4, <3>1, <3>5
      <4> QED BY <2>2, <2>4, <3>1, <3>5, <4>1, <4>2
    <3> QED BY <2>4, <3>1, <3>3, <3>4, <3>5
  <2>6. sent <= j * (MaxFailures + 1) + 0 + 0
    <3> DEFINE c == MaxFailures + 1
               x == k * c
               y == j * c
    <3>1. c \in Nat /\ x \in Nat /\ y \in Nat /\ x + c <= y
      <4>1. c \in Nat /\ j \in Nat /\ k \in Nat /\ k < j
        BY <1>2, <1>3, <2>4
      <4> HIDE DEF c
      <4>2. k * c \in Nat /\ j * c \in Nat /\ k * c + c <= j * c
        BY <4>1, Products
      <4> QED BY <4>1, <4>2
    <3>2. sent <= x + failures + 1 /\ failures + 1 <= c
      BY <1>3, <1>5, <2>1 DEF Outstanding
    <3>3. sent \in Nat
      BY Types DEF SeamInv
    <3> HIDE DEF c, x, y
    <3>4. sent <= y + 0 + 0
      BY <1>3, <3>1, <3>2, <3>3
    <3> QED BY <3>4 DEF y, c
  <2>7. Outstanding(j)'
    <3>1. flight'.batch = <<>> /\ Len(<<>>) = 0
      BY <1>7 DEF Idle
    <3>2. /\ j + 0 + Len(queue) = next
          /\ \A i \in 1..Len(queue) : queue[i] = j + i
          /\ j + Len(queue) <= next
      <4>1. j = k + Len(flight.batch)
        BY <2>0
      <4>2. /\ k + Len(flight.batch) + Len(queue) = next
            /\ \A i \in 1..Len(queue) : queue[i] = k + Len(flight.batch) + i
        BY <1>5 DEF Outstanding, Run
      <4>3. Len(queue) \in Nat /\ j \in Nat
        BY <1>1, <1>2, <2>4, LenProperties
      <4> QED BY <1>2, <4>1, <4>2, <4>3
    <3>3. Run(flight.batch, j)' /\ Run(queue, j + Len(flight.batch))'
      <4>1. j + 0 = j /\ j + 0 <= next
        BY <1>2, <2>4
      <4>2. queue' = queue /\ next' = next
        BY <1>1
      <4>3. j + Len(flight'.batch) = j
        BY <3>1, <4>1
      <4>4. /\ j + Len(flight'.batch) <= next'
            /\ \A i \in 1..Len(flight'.batch) : flight'.batch[i] = j + i
        BY <3>1, <4>1, <4>2
      <4>5. /\ j + Len(queue') <= next'
            /\ \A i \in 1..Len(queue') : queue'[i] = j + i
        BY <3>2, <4>2
      <4>6. Run(flight.batch, j)'
        BY <4>4 DEF Run
      <4>7. Run(queue, j)'
        BY <4>5 DEF Run
      <4> QED BY <4>3, <4>6, <4>7 DEF Run
    <3>4. failures' <= MaxFailures
      BY <1>3, <1>7
    <3>5. j + Len(flight'.batch) + Len(queue') = next'
      <4>1. j + 0 = j /\ queue' = queue /\ next' = next
        BY <1>1, <1>2, <2>4
      <4> QED BY <3>1, <3>2, <4>1
    <3>6. sent' <= j * (MaxFailures + 1) + failures' + (IF flight' = Idle THEN 0 ELSE 1)
      BY <1>1, <1>7, <2>6
    <3> QED BY <3>3, <3>4, <3>5, <3>6 DEF Outstanding
  <2>8. WorkerHolds'
    <3>1. j \in 0..next' /\ flight' = Idle
      BY <1>1, <1>7, <2>4
    <3>2. \A e \in Events : settled'[e] = "ok" <=> e <= j
      BY <2>5
    <3> QED BY <2>7, <3>1, <3>2 DEF WorkerHolds
  <2>9. failures' \in 0..MaxFailures + 1 /\ timer' \in BOOLEAN
    BY <1>3, <1>7
  <2> QED BY <1>1, <1>2, <1>3, <1>7, <2>2, <2>3, <2>8, <2>9, SilentStep
<1> QED BY <1>6, <1>7 DEF ReceiveReply


\* The batch that timed out goes before what was queued since, or the worker
\* gives up and settles both as failed.
LEMMA AckTimeoutStep ==
    ASSUME SeamInv, AckTimeout
    PROVE  SeamInv' /\ \A e \in Events : settled'[e] = "ok" <=> settled[e] = "ok"
<1> DEFINE b == flight.batch
           q == b \o queue
<1>1. /\ ~fatal /\ flight # Idle /\ flight' = Idle /\ failures' = failures + 1
      /\ UNCHANGED <<next, sent, workerUp, wireVars, handlerVars, storeVars, turnVars>>
  BY DEF AckTimeout
<1>2. /\ UNCHANGED <<sent, toService, chunk, handlers, ready, log, applied, saves, disk,
                     storeFailed, turnVars>>
      /\ toWorker' = toWorker
  BY <1>1 DEF wireVars, handlerVars, storeVars
<1>3. /\ next \in Nat /\ next' \in 0..NEvents /\ next <= next' /\ next' = next
      /\ queue \in Seq(Events) /\ b \in Seq(Events) /\ NEvents \in Nat
      /\ Len(b) \in Nat /\ Len(queue) \in Nat
  <2>1. queue \in Seq(Events) /\ b \in Seq(Events)
    BY Types DEF SeamInv
  <2> QED BY <1>1, <2>1, Types, LogTypes, LenProperties DEF SeamInv
<1>4. /\ workerUp' \in BOOLEAN /\ timer \in BOOLEAN /\ failures \in Nat /\ MaxFailures \in Nat
  BY <1>1, ConstantFacts DEF SeamInv, SeamTypeOK
<1>5. PICK k \in 0..next : (\A e \in Events : settled[e] = "ok" <=> e <= k) /\ Outstanding(k)
  BY <1>1 DEF SeamInv, WorkerHolds
<1>6. /\ k \in Nat /\ k + Len(b) + Len(queue) = next /\ failures <= MaxFailures
      /\ \A i \in 1..Len(b) : b[i] = k + i
      /\ \A i \in 1..Len(queue) : queue[i] = k + Len(b) + i
      /\ sent <= k * (MaxFailures + 1) + failures + 1
  BY <1>1, <1>3, <1>5 DEF Outstanding, Run
<1>7. /\ q \in Seq(Events) /\ Len(q) = Len(b) + Len(queue) /\ k + Len(q) = next
      /\ \A i \in 1..Len(q) : q[i] = k + i
  <2>1. /\ q \in Seq(Events) /\ Len(q) = Len(b) + Len(queue)
        /\ \A i \in 1..Len(b) + Len(queue) :
             q[i] = IF i <= Len(b) THEN b[i] ELSE queue[i - Len(b)]
    BY <1>3, ConcatProperties
  <2> DEFINE f == Len(b)
             l == Len(queue)
  <2>2. /\ f \in Nat /\ l \in Nat /\ k \in Nat /\ k + f + l = next
        /\ \A i \in 1..f : b[i] = k + i
        /\ \A i \in 1..l : queue[i] = k + f + i
        /\ \A i \in 1..f + l : q[i] = IF i <= f THEN b[i] ELSE queue[i - f]
        /\ Len(q) = f + l
    BY <1>3, <1>6, <2>1
  <2> HIDE DEF f, l, q, b
  <2>3. k + Len(q) = next
    BY <2>2
  <2>4. \A i \in 1..f + l : q[i] = k + i
    <3> TAKE i \in 1..f + l
    <3>1. CASE i <= f
      BY <2>2, <3>1
    <3>2. CASE ~(i <= f)
      <4>1. i - f \in 1..l /\ k + f + (i - f) = k + i
        BY <2>2, <3>2
      <4> QED BY <2>2, <3>2, <4>1
    <3> QED BY <3>1, <3>2
  <2>5. \A i \in 1..Len(q) : q[i] = k + i
    BY <2>2, <2>4
  <2>6. Len(q) = Len(b) + Len(queue)
    BY <2>1 DEF q, b
  <2> QED BY <2>1, <2>3, <2>5, <2>6 DEF q, b
<1> HIDE DEF q
<1>8. CASE failures + 1 > MaxFailures
  <2>1. /\ settled' = Settle(q, "err") /\ queue' = <<>> /\ timer' = FALSE /\ fatal' = TRUE
    BY <1>8 DEF AckTimeout, q
  <2>2. /\ settled' \in [Events -> {"none", "wait", "ok", "err"}]
        /\ \A e \in Events : settled'[e] = IF e \in ToSet(q) THEN "err" ELSE settled[e]
        /\ ToSet(q) = {q[i] : i \in 1..Len(q)}
    BY <1>7, <2>1, SettleFacts
  <2>3. ASSUME NEW e \in Events
        PROVE  settled'[e] = "ok" <=> settled[e] = "ok"
    <3>1. CASE e \in ToSet(q)
      <4>1. ~(e <= k)
        BY <1>3, <1>6, <1>7, <2>2, <3>1
      <4> QED BY <1>5, <2>2, <3>1, <4>1
    <3>2. CASE e \notin ToSet(q)
      BY <2>2, <3>2
    <3> QED BY <3>1, <3>2
  <2>4. WorkerHolds'
    <3>1. \A e \in Events : settled'[e] = "ok" <=> e <= k
      BY <1>5, <2>3
    <3>2. k \in 0..next'
      BY <1>3
    <3> QED BY <1>1, <2>1, <3>1, <3>2 DEF WorkerHolds
  <2>5. \A e \in Events : settled'[e] = "ok" => e \in Kept(disk.upto)
    BY <2>3 DEF SeamInv, AcksHold
  <2>6. queue' \in Seq(Events)
    BY <2>1, EmptySeq
  <2>7. failures' \in 0..MaxFailures + 1
    BY <1>1, <1>4, <1>6
  <2>8. timer' \in BOOLEAN /\ fatal' \in BOOLEAN
    BY <2>1
  <2>9. SeamInv'
    BY <1>1, <1>2, <1>3, <1>4, <2>2, <2>4, <2>5, <2>6, <2>7, <2>8, SilentStep
  <2> QED BY <2>3, <2>9
<1>9. CASE ~(failures + 1 > MaxFailures)
  <2>1. /\ queue' = q /\ timer' = TRUE /\ UNCHANGED <<settled, fatal>>
    BY <1>9 DEF AckTimeout, q
  <2>2. settled' \in [Events -> {"none", "wait", "ok", "err"}]
    BY <2>1, Types DEF SeamInv
  <2>3. \A e \in Events : settled'[e] = "ok" => e \in Kept(disk.upto)
    BY <2>1 DEF SeamInv, AcksHold
  <2>4. Outstanding(k)'
    <3>1. flight'.batch = <<>> /\ Len(<<>>) = 0
      BY <1>1 DEF Idle
    <3>2. k + Len(flight'.batch) = k /\ k <= next'
      BY <1>3, <1>6, <3>1
    <3>3. /\ k + Len(flight'.batch) <= next'
          /\ \A i \in 1..Len(flight'.batch) : flight'.batch[i] = k + i
      BY <3>1, <3>2
    <3>4. k + Len(queue') = next'
      BY <1>3, <1>7, <2>1
    <3>5. Len(queue') \in Nat
      BY <1>7, <2>1, LenProperties
    <3>6. /\ k + Len(queue') <= next'
          /\ \A i \in 1..Len(queue') : queue'[i] = k + i
      BY <1>3, <1>7, <2>1, <3>4
    <3>7. Run(flight.batch, k)'
      BY <3>3 DEF Run
    <3>8. Run(queue, k + Len(flight.batch))'
      BY <3>2, <3>6 DEF Run
    <3>9. k + Len(flight'.batch) + Len(queue') = next'
      BY <3>2, <3>4
    <3>10. failures' <= MaxFailures
      BY <1>1, <1>4, <1>9
    <3>11. sent' <= k * (MaxFailures + 1) + failures' + (IF flight' = Idle THEN 0 ELSE 1)
      <4> DEFINE x == k * (MaxFailures + 1)
      <4>1. x \in Nat /\ sent <= x + failures + 1 /\ sent \in Nat
        <5>1. sent \in Nat /\ MaxFailures + 1 \in Nat
          BY ConstantFacts, Types DEF SeamInv
        <5> QED BY <1>6, <5>1
      <4> HIDE DEF x
      <4>2. sent' <= x + failures' + 0
        BY <1>1, <1>4, <4>1
      <4> QED BY <1>1, <4>2 DEF x
    <3> QED BY <3>7, <3>8, <3>9, <3>10, <3>11 DEF Outstanding
  <2>5. WorkerHolds'
    <3>1. \A e \in Events : settled'[e] = "ok" <=> e <= k
      BY <1>5, <2>1
    <3>2. k \in 0..next'
      BY <1>3
    <3> QED BY <1>1, <2>4, <3>1, <3>2 DEF WorkerHolds
  <2>6. queue' \in Seq(Events)
    BY <1>7, <2>1
  <2>7. failures' \in 0..MaxFailures + 1
    BY <1>1, <1>4, <1>6
  <2>8. timer' \in BOOLEAN /\ fatal' \in BOOLEAN
    BY <2>1 DEF SeamInv, SeamTypeOK
  <2>9. SeamInv'
    BY <1>1, <1>2, <1>3, <1>4, <2>2, <2>3, <2>5, <2>6, <2>7, <2>8, SilentStep
  <2> QED BY <2>1, <2>9
<1> QED BY <1>8, <1>9

\* The worker process goes: nothing else changes.
LEMMA WorkerGoesStep ==
    ASSUME SeamInv, WorkerExits \/ WorkerKilled
    PROVE  SeamInv'
<1>1. /\ workerUp' = FALSE
      /\ UNCHANGED <<workerVars, wireVars, handlerVars, storeVars, turnVars>>
  BY DEF WorkerExits, WorkerKilled
<1>2. /\ WorkerHolds' /\ next' \in 0..NEvents /\ next <= next' /\ queue' \in Seq(Events)
      /\ settled' \in [Events -> {"none", "wait", "ok", "err"}]
      /\ \A e \in Events : settled'[e] = "ok" => e \in Kept(disk.upto)
  <2>1. UNCHANGED workerVars /\ UNCHANGED <<next, queue, settled>>
    BY <1>1 DEF workerVars
  <2>2. next \in 0..NEvents /\ next \in Nat
    BY Types, LogTypes DEF SeamInv
  <2> QED BY <2>1, <2>2, Types, SameWorkerHolds DEF SeamInv, AcksHold
<1>3. /\ failures' \in 0..MaxFailures + 1 /\ fatal' \in BOOLEAN /\ workerUp' \in BOOLEAN
      /\ timer' \in BOOLEAN
  BY <1>1 DEF workerVars, SeamInv, SeamTypeOK
<1>4. /\ UNCHANGED <<flight, sent, toService, chunk, handlers, ready, log, applied, saves, disk,
                     storeFailed, turnVars>>
      /\ toWorker' = toWorker
  BY <1>1 DEF workerVars, wireVars, handlerVars, storeVars
<1> QED BY <1>1, <1>2, <1>3, <1>4, SilentStep

-----------------------------------------------------------------------------
(* The theorems.                                                             *)

LEMMA SeamInvInit ==
    ASSUME SeamInit
    PROVE  SeamInv
<1>1. /\ next = 0 /\ settled = [e \in Events |-> "none"] /\ queue = <<>> /\ timer = FALSE
      /\ flight = Idle /\ sent = 0 /\ failures = 0 /\ fatal = FALSE /\ workerUp = TRUE
      /\ toService = <<>> /\ toWorker = <<>> /\ chunk = 0 /\ ready = <<>>
      /\ handlers = [m \in 1..MaxSends |-> NoHandler] /\ log = <<>> /\ applied = {}
      /\ saves = <<>> /\ disk = [upto |-> 0, status |-> "running"] /\ storeFailed = FALSE
      /\ status = "running" /\ sawTerminal = FALSE /\ turnDone = FALSE /\ promise = "open"
  BY DEF SeamInit
<1>2. NEvents \in Nat /\ MaxSends \in Nat /\ MaxFailures \in Nat /\ MaxChunk \in Nat
  BY ConstantFacts, SeamAssumption
<1>3. /\ \A S : <<>> \in Seq(S)
      /\ Len(<<>>) = 0 /\ Len(log) = 0
  BY <1>1, EmptySeq
<1>4. NoHandler \in Handlers /\ NoHandler.phase = "none"
  BY <1>2, <1>3 DEF NoHandler, Handlers
<1>5. Idle \in Batches /\ Idle.batch = <<>>
  BY <1>2, <1>3 DEF Idle, Batches
<1>6. SeamTypeOK
  <2>1. /\ next \in 0..NEvents /\ sent \in 0..MaxSends /\ failures \in 0..MaxFailures + 1
        /\ chunk \in 0..MaxChunk
    BY <1>1, <1>2
  <2>2. /\ settled \in [Events -> {"none", "wait", "ok", "err"}]
        /\ handlers \in [1..MaxSends -> Handlers]
        /\ disk \in [upto : Nat, status : Turns]
    BY <1>1, <1>4 DEF Turns
  <2>3. /\ timer \in BOOLEAN /\ fatal \in BOOLEAN /\ workerUp \in BOOLEAN
        /\ storeFailed \in BOOLEAN /\ sawTerminal \in BOOLEAN /\ turnDone \in BOOLEAN
    BY <1>1
  <2>4. /\ flight \in Batches /\ applied \subseteq Events
        /\ queue \in Seq(Events) /\ log \in Seq(Events) /\ toService \in Seq(Batches)
        /\ toWorker \in Seq(1..MaxSends) /\ ready \in Seq(1..MaxSends) /\ saves \in Seq(Saves)
    BY <1>1, <1>3, <1>5
  <2>5. status \in Turns /\ promise \in {"open", "resolved", "rejected"}
    BY <1>1 DEF Turns
  <2> QED BY <2>1, <2>2, <2>3, <2>4, <2>5 DEF SeamTypeOK, Handlers, Saves, Turns
<1>7. \A u : Kept(u) \subseteq {log[i] : i \in 1..u}
  BY DEF Kept
<1>8. WorkerHolds
  <2>1. Outstanding(0)
    <3>1. Run(<<>>, 0)
      BY <1>1, <1>3 DEF Run
    <3>2. 0 * (MaxFailures + 1) = 0 /\ 0 + 0 + 0 = 0 /\ 0 + 0 = 0
      BY <1>2
    <3> QED BY <1>1, <1>2, <1>3, <1>5, <3>1, <3>2 DEF Outstanding
  <2>2. \A e \in Events : settled[e] = "ok" <=> e <= 0
    BY <1>1, <1>2 DEF Events
  <2>3. 0 \in 0..next
    BY <1>1
  <2> QED BY <1>1, <2>1, <2>2, <2>3 DEF WorkerHolds
<1>9. LogHolds
  <2>1. \A u \in 0..Len(log) : u = 0
    BY <1>3
  <2>2. Kept(0) = 1..0
    BY DEF Kept
  <2>3. disk.upto <= Len(log) /\ 0 \in 0..next /\ applied = {}
    BY <1>1, <1>3
  <2> QED BY <2>1, <2>2, <2>3 DEF LogHolds
<1>10. SavesHold
  BY <1>1, <1>3 DEF SavesHold
<1>11. WireHolds
  BY <1>1, <1>3 DEF WireHolds
<1>12. HandlersHold
  BY <1>1, <1>3, <1>4 DEF HandlersHold
<1>13. AcksHold
  BY <1>1, <1>3 DEF AcksHold
<1> QED BY <1>6, <1>8, <1>9, <1>10, <1>11, <1>12, <1>13 DEF SeamInv

LEMMA SeamInvStep ==
    ASSUME SeamInv, [Next]_vars
    PROVE  SeamInv'
<1>1. CASE UNCHANGED vars
  <2>1. /\ UNCHANGED workerVars
        /\ UNCHANGED <<workerUp, toService, toWorker, chunk, handlers, ready, log, applied, saves,
                       disk, storeFailed, status, sawTerminal, turnDone, promise>>
        /\ UNCHANGED <<next, settled, queue, timer, flight, sent, failures, fatal>>
    BY <1>1 DEF vars, workerVars, wireVars, handlerVars, storeVars, turnVars
  <2>2. SeamTypeOK'
    BY <2>1 DEF SeamInv, SeamTypeOK
  <2>3. WorkerHolds'
    BY <2>1, SameWorkerHolds DEF SeamInv
  <2>4. LogHolds' /\ SavesHold' /\ AcksHold'
    BY <2>1 DEF SeamInv, LogHolds, SavesHold, AcksHold, Kept, Batch
  <2>5. WireHolds' /\ HandlersHold'
    BY <2>1 DEF SeamInv, WireHolds, HandlersHold, Follows, Kept, Batch, Run
  <2> QED BY <2>2, <2>3, <2>4, <2>5 DEF SeamInv
<1>2. CASE WorkerNext
  BY <1>2, AppendEventStep, FlushTimerStep, ReceiveReplyStep, AckTimeoutStep, WorkerGoesStep
     DEF WorkerNext
<1>3. CASE ServiceNext
  BY <1>3, ReadChunkStep, OnFrameStep, MicrotaskStep, PromotedStep, PromoteFailsStep,
     SaveDoneStep, SaveFailsStep, WorkerClosedStep DEF ServiceNext
<1> QED BY <1>1, <1>2, <1>3 DEF Next, Over

\* The invariant holds of every behaviour of the seam: what the worker has sent
\* and awaits, what is on the wire and in the handlers, and what the service has
\* applied, saved and acknowledged agree about the order of the events, and a turn
\* never sends more than MaxSends messages (seam.mjs flush, supervisor.mjs).
THEOREM SeamIsCorrect == Spec => []SeamInv
BY SeamInvInit, SeamInvStep, PTL DEF Spec

\* The task sees the events of a turn in the order the runtime emitted them and
\* without a gap: applyEvent is never called with an event whose predecessor it
\* has not been called with, whatever batches time out, are requeued by flush()
\* in front of newer events, or arrive late or twice.
THEOREM EventsApplyInOrder == Spec => []AppliedInOrder
<1>1. SeamInv => AppliedInOrder
  <2> SUFFICES ASSUME SeamInv, NEW i \in DOMAIN log, log[i] # 1
               PROVE  \E j \in 1..i - 1 : log[j] = log[i] - 1
    BY DEF AppliedInOrder
  <2>1. /\ Len(log) \in Nat /\ i \in 1..Len(log)
    BY LogTypes, LenProperties DEF SeamInv
  <2>2. PICK n \in 0..next : Kept(i) = 1..n
    BY <2>1 DEF SeamInv, LogHolds
  <2>3. log[i] \in 1..n /\ n \in Nat
    <3>1. log[i] \in Kept(i)
      BY <2>1 DEF Kept
    <3> QED BY <2>2, <3>1, LogTypes DEF SeamInv
  <2>4. log[i] - 1 \in Kept(i)
    BY <2>2, <2>3
  <2>5. PICK j \in 1..i : log[j] = log[i] - 1
    BY <2>4 DEF Kept
  <2>6. j # i
    BY <2>3, <2>5
  <2> QED BY <2>1, <2>5, <2>6
<1> QED BY <1>1, SeamIsCorrect, PTL

\* An event whose promise the seam resolved is in the snapshot on disk, however
\* the turn goes on: the reply that resolves it is sent by the save that holds it.
THEOREM AckedEventsAreDurable == Spec => []AckedIsDurable
<1>1. SeamInv => AckedIsDurable
  BY DurableIsKept DEF SeamInv, LogHolds, AcksHold, AckedIsDurable
<1> QED BY <1>1, SeamIsCorrect, PTL

-----------------------------------------------------------------------------
(* The seam implements the journal.                                          *)

Acks   == {e \in Events : settled[e] = "ok"}
Stored == Cardinality(Durable)
Acked  == Cardinality(Acks)

\* What is on disk is a prefix of what was emitted, and what is acknowledged a
\* prefix of what is on disk.
PrefixesHold ==
  /\ next \in Nat /\ Stored \in 0..next /\ Acked \in 0..Stored
  /\ Durable = Kept(disk.upto) /\ Durable = 1..Stored /\ Acks = 1..Acked

LEMMA PrefixSize ==
    ASSUME NEW n \in Nat
    PROVE  Cardinality(1..n) = n
<1>1. Cardinality(1..n) = IF 1 > n THEN 0 ELSE n - 1 + 1
  BY FS_Interval
<1> QED BY <1>1

LEMMA PrefixOrder ==
    ASSUME NEW m \in Nat, NEW n \in Nat, 1..m \subseteq 1..n
    PROVE  m <= n
<1>1. m = 0 \/ m \in 1..m
  OBVIOUS
<1> QED BY <1>1

LEMMA SeamPrefixes == SeamInv => PrefixesHold
<1> SUFFICES ASSUME SeamInv
             PROVE  PrefixesHold
  OBVIOUS
<1>1. next \in Nat /\ NEvents \in Nat /\ next <= NEvents
  BY Types, LogTypes DEF SeamInv
<1>2. PICK d \in 0..next : Durable = 1..d
  <2>1. disk.upto \in 0..Len(log)
    BY LogTypes DEF SeamInv, LogHolds
  <2> QED BY <2>1, DurableIsKept DEF SeamInv, LogHolds
<1>3. PICK k \in 0..next : \A e \in Events : settled[e] = "ok" <=> e <= k
  BY DEF SeamInv, WorkerHolds
<1>4. Acks = 1..k
  BY <1>1, <1>3 DEF Acks, Events
<1>5. Acks \subseteq Durable
  BY DurableIsKept DEF SeamInv, LogHolds, AcksHold, Acks
<1>6. k <= d
  BY <1>1, <1>2, <1>4, <1>5, PrefixOrder
<1>7. Stored = d /\ Acked = k
  BY <1>1, <1>2, <1>4, PrefixSize DEF Stored, Acked
<1>8. Durable = Kept(disk.upto)
  BY DurableIsKept DEF SeamInv, LogHolds
<1> QED BY <1>1, <1>2, <1>4, <1>6, <1>7, <1>8 DEF PrefixesHold

\* A handler that goes on appends at most one event to the log.
LEMMA LogOnlyGrows ==
    ASSUME SeamInv, [Next]_vars
    PROVE  LogGrows
<1>1. ASSUME NEW m, NEW evs \in Seq(Events), NEW done, NEW others, Resume(m, evs, done, others)
      PROVE  LogGrows
  <2>1. CASE SaveEvents(m)
    BY <2>1 DEF SaveEvents, LogGrows
  <2>2. CASE \E i \in 1..Len(evs) : Apply(m, evs, i)
    BY <2>2, ElementOfSeq DEF Apply, LogGrows
  <2> QED BY <1>1, <2>1, <2>2, ResumeCases
<1>2. CASE OnFrame
  <2>1. CASE turnDone
    BY <1>2, <2>1 DEF OnFrame, LogGrows
  <2>2. CASE ~turnDone
    <3>1. Head(toService).batch \in Seq(Events)
      <4>1. toService \in Seq(Batches) /\ chunk \in Nat /\ chunk > 0 /\ chunk <= Len(toService)
        BY <1>2, SeamAssumption, Types DEF SeamInv, SeamTypeOK, WireHolds, OnFrame
      <4>2. toService # <<>>
        BY <4>1, EmptySeq
      <4>3. Head(toService) \in Batches
        BY <4>1, <4>2, TailFacts
      <4> QED BY <4>3 DEF Batches
    <3> QED BY <1>1, <1>2, <2>2, <3>1 DEF OnFrame
  <2> QED BY <2>1, <2>2
<1>3. CASE Microtask
  <2>1. handlers[Head(ready)].rest \in Seq(Events)
    <3>1. ready \in Seq(1..MaxSends) /\ ready # <<>> /\ handlers \in [1..MaxSends -> Handlers]
      BY <1>3, Types DEF SeamInv, Microtask
    <3>2. Head(ready) \in 1..MaxSends
      BY <3>1, TailFacts
    <3> QED BY <3>1, <3>2 DEF Handlers
  <2> QED BY <1>1, <1>3, <2>1 DEF Microtask
<1>4. CASE log' = log
  BY <1>4 DEF LogGrows
<1>5. OnFrame \/ Microtask \/ log' = log
  BY DEF Next, WorkerNext, ServiceNext, Over, vars, handlerVars, AppendEvent, FlushTimer,
     ReceiveReply, AckTimeout, WorkerExits, WorkerKilled, ReadChunk, Promoted, PromoteFails,
     SaveDone, SaveFails, WorkerClosed
<1> QED BY <1>2, <1>3, <1>4, <1>5

\* What is on disk when the disk is not written.
LEMMA DurableStays ==
    ASSUME SeamInv, SeamInv', LogGrows, disk' = disk
    PROVE  Durable' = Durable
<1>1. disk.upto \in 0..Len(log) /\ Durable = Kept(disk.upto)
  BY LogTypes, DurableIsKept DEF SeamInv, LogHolds
<1>2. /\ log \in Seq(Events) /\ log' \in Seq(Events) /\ disk.upto <= Len(log')
      /\ disk.upto \in Nat /\ Len(log) \in Nat /\ Len(log') \in Nat
      /\ \A i \in 1..disk.upto : log'[i] = log[i] /\ log[i] \in Events
  BY <1>1, LogTypes, LogGrown, AppendFacts DEF SeamInv, LogGrows
<1>3. SubSeq(log', 1, disk.upto) = SubSeq(log, 1, disk.upto)
  <2> DEFINE s == SubSeq(log, 1, disk.upto)
             t == SubSeq(log', 1, disk.upto)
  <2>1. /\ s \in Seq(Events) /\ Len(s) = disk.upto /\ \A i \in 1..disk.upto : s[i] = log[i]
    BY <1>2, SubSeqProperties
  <2>2. /\ t \in Seq(Events) /\ Len(t) = disk.upto /\ \A i \in 1..disk.upto : t[i] = log'[i]
    BY <1>2, SubSeqProperties
  <2> HIDE DEF s, t
  <2>3. s = t
    BY <1>2, <2>1, <2>2, SeqEqual
  <2> QED BY <2>3 DEF s, t
<1> QED BY <1>3 DEF Durable

LEMMA JournalStep ==
    ASSUME SeamInv, SeamInv', PrefixesHold, PrefixesHold', [Next]_vars
    PROVE  \/ next < NEvents /\ next' = next + 1 /\ UNCHANGED <<Stored, Acked>>
           \/ Stored' \in Stored + 1..next /\ UNCHANGED <<next, Acked>>
           \/ Acked' \in Acked + 1..Stored /\ UNCHANGED <<next, Stored>>
           \/ UNCHANGED <<next, Stored, Acked>>
<1>1. ASSUME disk' = disk
      PROVE  Stored' = Stored
  <2>1. Durable' = Durable
    BY <1>1, LogOnlyGrows, DurableStays
  <2> QED BY <2>1 DEF Stored
<1>2. ASSUME \A e \in Events : settled'[e] = "ok" <=> settled[e] = "ok"
      PROVE  Acked' = Acked
  <2>1. Acks' = Acks
    BY <1>2 DEF Acks
  <2> QED BY <2>1 DEF Acked
<1>3. CASE AppendEvent
  <2>1. next < NEvents /\ next' = next + 1 /\ disk' = disk
    BY <1>3 DEF AppendEvent, storeVars
  <2> QED BY <1>1, <1>2, <1>3, <2>1, AppendEventStep
<1>4. CASE ReceiveReply
  <2>1. next' = next /\ disk' = disk
    BY <1>4 DEF ReceiveReply, storeVars
  <2>2. Acks \subseteq Acks'
    BY <1>4, Types DEF ReceiveReply, Acks, Settle, SeamInv
  <2>3. Acked <= Acked' /\ Acked' <= Stored'
    BY <2>2, PrefixOrder DEF PrefixesHold
  <2>4. Acked \in Nat /\ Acked' \in Nat /\ Stored \in Nat
    BY DEF PrefixesHold
  <2> QED BY <1>1, <2>1, <2>3, <2>4
<1>5. CASE SaveDone
  <2>1. /\ UNCHANGED <<next, settled, log>> /\ disk.upto <= disk'.upto
    BY <1>5, SaveDoneStep DEF SaveDone, workerVars
  <2>2. Durable \subseteq Durable'
    <3>1. /\ disk.upto \in 0..Len(log) /\ disk'.upto \in Nat /\ disk'.upto <= Len(log)
          /\ Len(log) \in Nat
      BY <2>1, LogTypes DEF SeamInv, LogHolds, SeamTypeOK
    <3>2. Durable = Kept(disk.upto)
      BY DurableIsKept DEF SeamInv, LogHolds
    <3>3. Durable' = Kept(disk.upto)'
      BY DEF PrefixesHold
    <3> QED BY <2>1, <3>1, <3>2, <3>3 DEF Kept
  <2>3. Stored <= Stored' /\ Stored' <= next' /\ Acked' = Acked
    BY <1>2, <2>1, <2>2, PrefixOrder DEF PrefixesHold
  <2>4. Stored \in Nat /\ Stored' \in Nat /\ next \in Nat
    BY DEF PrefixesHold
  <2> QED BY <2>1, <2>3, <2>4
<1>6. CASE AckTimeout
  <2>1. next' = next /\ disk' = disk
    BY <1>6 DEF AckTimeout, storeVars
  <2> QED BY <1>1, <1>2, <1>6, <2>1, AckTimeoutStep
<1>7. CASE UNCHANGED <<next, settled, disk>>
  BY <1>1, <1>2, <1>7
<1>8. \/ AppendEvent \/ ReceiveReply \/ SaveDone \/ AckTimeout
      \/ UNCHANGED <<next, settled, disk>>
  BY DEF Next, WorkerNext, ServiceNext, Over, vars, workerVars, storeVars, FlushTimer,
     WorkerExits, WorkerKilled, ReadChunk, OnFrame, Microtask, Promoted, PromoteFails,
     SaveFails, WorkerClosed
<1> QED BY <1>3, <1>4, <1>5, <1>6, <1>7, <1>8

\* The seam implements the journal it stands for: with the events on disk for
\* `stored` and the resolved promises for `acked`, every step of the worker and
\* of the service emits one event, puts further ones on disk, acknowledges some
\* that are there, or changes none of the three.
THEOREM SeamImplementsJournal == Spec => ImplementsJournal
<1>1. SeamInit => Journal!Init
  <2> SUFFICES ASSUME SeamInit
               PROVE  Journal!Init
    OBVIOUS
  <2>1. SeamInv /\ next = 0
    BY SeamInvInit DEF SeamInit
  <2>2. Stored = 0 /\ Acked = 0
    BY <2>1, SeamPrefixes DEF PrefixesHold
  <2> QED BY <2>1, <2>2 DEF Journal!Init, Stored, Acked, Acks
<1>2. SeamInv /\ SeamInv' /\ PrefixesHold /\ PrefixesHold' /\ [Next]_vars
        => [Journal!Next]_(Journal!journalVars)
  <2> SUFFICES ASSUME SeamInv, SeamInv', PrefixesHold, PrefixesHold', [Next]_vars
               PROVE  [Journal!Next]_(Journal!journalVars)
    OBVIOUS
  <2>1. CASE next < NEvents /\ next' = next + 1 /\ UNCHANGED <<Stored, Acked>>
    BY <2>1 DEF Journal!Next, Journal!Emit, Stored, Acked, Acks
  <2>2. CASE Stored' \in Stored + 1..next /\ UNCHANGED <<next, Acked>>
    BY <2>2 DEF Journal!Next, Journal!Store, Stored, Acked, Acks
  <2>3. CASE Acked' \in Acked + 1..Stored /\ UNCHANGED <<next, Stored>>
    BY <2>3 DEF Journal!Next, Journal!Acknowledge, Stored, Acked, Acks
  <2>4. CASE UNCHANGED <<next, Stored, Acked>>
    BY <2>4 DEF Journal!journalVars, Stored, Acked, Acks
  <2> QED BY <2>1, <2>2, <2>3, <2>4, JournalStep
<1> QED BY <1>1, <1>2, SeamIsCorrect, SeamPrefixes, PTL
         DEF Spec, ImplementsJournal, Journal!JournalSpec
=============================================================================
