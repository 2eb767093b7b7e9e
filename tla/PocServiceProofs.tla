-------------------------- MODULE PocServiceProofs --------------------------
(***************************************************************************)
(* Theorems about the local service, for every set of keys and             *)
(* conversations and every bound on turns, edits and crashes, whichever    *)
(* writes of the store fail: what was answered is on file and stays, one   *)
(* turn is under way at a time and is sent to a worker once, and a turn    *)
(* resumes no session of another profile.                                  *)
(***************************************************************************)
EXTENDS PocService, SequenceTheorems, FiniteSetTheorems, WellFoundedInduction, TLAPS

USE PocAssumption

-----------------------------------------------------------------------------
(* States of the store, and the order in which they may follow one another. *)

Flows    == {"boot", "admission", "stop", "turn", "worker", "none", "shutdown"}
Statuses == Settled \cup Running \cup {"queued"}
Tasks    == [key : Keys, conv : Convs, promoted : BOOLEAN, status : Statuses]
Conversations == [exists : BOOLEAN, ready : BOOLEAN, archived : BOOLEAN,
                  revision : 0..MaxRevision, session : 0..MaxRevision + 1]
SaveRecords   == [by : Flows, text : Stored, refused : BOOLEAN]

\* A turn that the store knows and that has left the queue.
Past(m, t) == t \in DOMAIN m.tasks /\ m.tasks[t].status # "queued"

\* A state the store may hold: one turn for a key, a conversation for every
\* turn, no work in an archived one, and sessions begun under the profile their
\* conversation has seen.
Good(m) ==
  /\ m \in Stored /\ Len(m.tasks) <= MaxTasks
  /\ \A s, t \in DOMAIN m.tasks : m.tasks[s].key = m.tasks[t].key => s = t
  /\ \A t \in DOMAIN m.tasks :
        /\ m.conv[m.tasks[t].conv].exists
        /\ m.tasks[t].status \in Running \cup {"queued"} => ~m.conv[m.tasks[t].conv].archived
  /\ \A c \in Convs : m.conv[c].session # None => m.conv[c].session = m.conv[c].revision + 1

\* State b may come after a: no turn is forgotten or renamed, none is queued
\* again, and one of the withdrawn (W) stays cancelled.
Before(W, a, b) ==
  /\ Len(a.tasks) <= Len(b.tasks)
  /\ \A t \in DOMAIN a.tasks :
        /\ b.tasks[t].key = a.tasks[t].key
        /\ a.tasks[t].status # "queued" => b.tasks[t].status # "queued"
        /\ t \in W /\ a.tasks[t].status = "cancelled" => b.tasks[t].status = "cancelled"

\* The file (d), the saves asked for (q) and the memory (m), in this order.
Chain(W, d, q, m) ==
  /\ Good(d) /\ Good(m) /\ Before(W, d, m)
  /\ q \in Seq(SaveRecords)
  /\ \A i \in DOMAIN q : /\ Good(q[i].text)
                         /\ Before(W, d, q[i].text) /\ Before(W, q[i].text, m)
  /\ \A i, j \in DOMAIN q : i < j => Before(W, q[i].text, q[j].text)

\* At most one save of the chain is awaited by this flow, of a text of T.
Only(q, by, T) ==
  \A i \in DOMAIN q : q[i].by = by =>
     q[i].text \in T /\ \A j \in DOMAIN q : q[j].by = by => j = i

-----------------------------------------------------------------------------
(* The inductive invariant.                                                 *)

\* The turns whose stop is, or will be, answered {stopped: true}.
Withdrawn == stopped \cup (IF stop.at = "queued" THEN {stop.task} ELSE {})

\* What the flow that waits for its save has put into the text.
AdmissionTexts ==
  IF admission.at = "idle" THEN {}
  ELSE {m \in Stored : admission.at = "task" => admission.task \in DOMAIN m.tasks}
StopTexts ==
  IF stop.at = "idle" THEN {}
  ELSE {m \in Stored : /\ Past(m, stop.task)
                       /\ stop.at = "queued" => m.tasks[stop.task].status = "cancelled"}
TurnTexts ==
  IF turn.at \notin {"start", "end"} THEN {}
  ELSE {m \in Stored : turn.at = "start" => Past(m, turn.task)}

\* What was answered, and what a worker was told, is in the file (d).
OnFile(d) ==
  /\ \A k \in Keys : \A t \in acked[k] : t \in DOMAIN d.tasks /\ d.tasks[t].key = k
  /\ \A t \in requested : Past(d, t)
  /\ \A t \in stopped : t \in DOMAIN d.tasks /\ d.tasks[t].status = "cancelled"
  /\ \A t \in TaskIds : starts[t] # 0 => starts[t] = 1 /\ Past(d, t)

Launching == {"start", "binding", "hello"}
Busy      == Launching \cup {"running", "reap", "wedged"}

Turns    == [at : Busy \cup {"idle", "end"}, task : Nat, resumed : Nat,
             done : BOOLEAN, terminal : BOOLEAN]
Children == [state : {"none", "up", "exited", "killed"}, exitSeen : BOOLEAN, cancel : BOOLEAN,
             says : {"nothing", "binding", "bound", "promoting", "outcome", "reported",
                     "terminated"}]

PocTypes ==
  /\ service \in {"down", "booting", "up", "stopping", "leaving"}
  /\ storeFailed \in BOOLEAN /\ pendingCancel \in BOOLEAN
  /\ admission \in [at : {"idle", "task", "other"}, task : Nat]
  /\ stop \in [at : {"idle", "queued", "active"}, task : Nat]
  /\ turn \in Turns
  /\ child \in Children
  /\ acked \in [Keys -> SUBSET TaskIds] /\ starts \in [TaskIds -> Nat]
  /\ requested \subseteq TaskIds /\ stopped \subseteq TaskIds

ChainHolds == Chain(Withdrawn, disk, saves, mem)

WaitsHold ==
  /\ Only(saves, "admission", AdmissionTexts)
  /\ Only(saves, "stop", StopTexts)
  /\ Only(saves, "turn", TurnTexts)

AnswersHold ==
  /\ OnFile(disk)
  /\ \A t \in Withdrawn : /\ t \in DOMAIN mem.tasks /\ mem.tasks[t].status = "cancelled"
                          /\ starts[t] = 0 /\ turn.task # t

\* The active turn: it alone is under way, under the profile of the store, and
\* it is on file before its worker is looked for.
TurnHolds ==
  /\ turn.at = "idle" => turn.task = None
  /\ turn.at # "idle" => Past(mem, turn.task)
  /\ turn.at \in Busy \ {"start"} => Past(disk, turn.task)
  /\ turn.at \in Launching => starts[turn.task] = 0 /\ mem.conv[ConvOf(mem, turn.task)].ready
  /\ turn.at \in Busy => mem.conv[ConvOf(mem, turn.task)].revision = mem.revision
  /\ service # "down" => \A t \in DOMAIN mem.tasks :
        mem.tasks[t].status \in Running => turn.task = t /\ turn.at \in Busy
  /\ service \in {"down", "booting"} =>
        turn.at = "idle" /\ admission.at = "idle" /\ stop.at = "idle"

\* The session that is resumed, and the stop that is to reach the worker.
RunHolds ==
  /\ turn.resumed # None => /\ turn.resumed = mem.revision + 1
                            /\ turn.at \in {"hello", "running", "reap", "wedged"}
  /\ turn.at \in Launching /\ turn.task \in requested => pendingCancel
  /\ turn.at = "running" /\ turn.task \in requested => child.cancel

PocInv == PocTypes /\ ChainHolds /\ WaitsHold /\ AnswersHold /\ TurnHolds /\ RunHolds

-----------------------------------------------------------------------------
(* Numbers and sequences.                                                   *)

LEMMA MinExists ==
  ASSUME NEW S, S \subseteq Nat, S # {}
  PROVE  \E i \in S : \A j \in S : i <= j
<1>1. PICK i \in S : \A j \in S : ~(<<j, i>> \in OpToRel(<, Nat))
  BY NatLessThanWellFounded, WFMin
<1>2. ASSUME NEW j \in S
      PROVE  i <= j
  <2>1. ~(<<j, i>>[1] < <<j, i>>[2])
    BY <1>1, <<j, i>> \in Nat \X Nat DEF OpToRel
  <2> QED
    BY <2>1
<1> QED
  BY <1>2

\* The chain without its i-th save.
LEMMA WithoutFacts ==
  ASSUME NEW S, NEW q \in Seq(S), NEW i \in DOMAIN q
  PROVE  /\ Without(q, i) \in Seq(S)
         /\ Len(Without(q, i)) = Len(q) - 1
         /\ \A k \in DOMAIN Without(q, i) :
               /\ k \in DOMAIN q /\ k + 1 \in DOMAIN q
               /\ Without(q, i)[k] = IF k < i THEN q[k] ELSE q[k + 1]
<1> DEFINE a == SubSeq(q, 1, i - 1)
           b == SubSeq(q, i + 1, Len(q))
<1>1. i \in 1..Len(q) /\ Len(q) \in Nat /\ DOMAIN q = 1..Len(q)
  BY LenProperties
<1>2. \A j \in 1..Len(q) : q[j] \in S
  BY ElementOfSeq
<1>3. /\ a \in Seq(S) /\ Len(a) = i - 1
      /\ \A k \in 1..i - 1 : a[k] = q[k]
  <2>1. \A j \in 1..i - 1 : q[j] \in S
    BY <1>1, <1>2
  <2>2. /\ a \in Seq(S)
        /\ Len(a) = IF 1 <= i - 1 THEN i - 1 - 1 + 1 ELSE 0
        /\ \A k \in 1..i - 1 - 1 + 1 : a[k] = q[1 + k - 1]
    BY <1>1, <2>1, SubSeqProperties
  <2> QED
    BY <1>1, <2>2
<1>4. /\ b \in Seq(S) /\ Len(b) = Len(q) - i
      /\ \A k \in 1..Len(q) - i : b[k] = q[i + k]
  <2>1. \A j \in i + 1..Len(q) : q[j] \in S
    BY <1>1, <1>2
  <2>2. /\ b \in Seq(S)
        /\ Len(b) = IF i + 1 <= Len(q) THEN Len(q) - (i + 1) + 1 ELSE 0
        /\ \A k \in 1..Len(q) - (i + 1) + 1 : b[k] = q[i + 1 + k - 1]
    BY <1>1, <2>1, SubSeqProperties
  <2> QED
    BY <1>1, <2>2
<1> HIDE DEF a, b
<1>5. /\ a \o b \in Seq(S)
      /\ Len(a \o b) = Len(q) - 1
      /\ \A k \in 1..Len(q) - 1 :
            (a \o b)[k] = IF k <= i - 1 THEN a[k] ELSE b[k - (i - 1)]
  <2>1. /\ a \o b \in Seq(S)
        /\ Len(a \o b) = Len(a) + Len(b)
        /\ \A k \in 1..Len(a) + Len(b) :
              (a \o b)[k] = IF k <= Len(a) THEN a[k] ELSE b[k - Len(a)]
    BY <1>3, <1>4, ConcatProperties
  <2> QED
    BY <1>1, <1>3, <1>4, <2>1
<1>6. Without(q, i) = a \o b
  BY DEF Without, a, b
<1>7. DOMAIN Without(q, i) = 1..Len(q) - 1
  BY <1>5, <1>6, LenProperties
<1>8. ASSUME NEW k \in 1..Len(q) - 1
      PROVE  (a \o b)[k] = IF k < i THEN q[k] ELSE q[k + 1]
  <2>1. CASE k < i
    BY <1>1, <1>3, <1>5, <2>1
  <2>2. CASE ~(k < i)
    <3>1. k - (i - 1) \in 1..Len(q) - i /\ i + (k - (i - 1)) = k + 1
      BY <1>1, <2>2
    <3>2. b[k - (i - 1)] = q[i + (k - (i - 1))]
      BY <1>4, <3>1
    <3> QED
      BY <1>1, <1>5, <2>2, <3>1, <3>2
  <2> QED
    BY <2>1, <2>2
<1>9. \A k \in 1..Len(q) - 1 : k \in DOMAIN q /\ k + 1 \in DOMAIN q
  BY <1>1
<1> HIDE DEF a, b
<1> QED
  BY <1>5, <1>6, <1>7, <1>8, <1>9

-----------------------------------------------------------------------------
(* States of the store.                                                     *)

LEMMA StoredFacts ==
  ASSUME NEW m \in Stored
  PROVE  /\ m.tasks \in Seq(Tasks) /\ Len(m.tasks) \in Nat
         /\ DOMAIN m.tasks = 1..Len(m.tasks)
         /\ \A t \in DOMAIN m.tasks :
               /\ m.tasks[t] \in Tasks /\ m.tasks[t].key \in Keys /\ m.tasks[t].conv \in Convs
               /\ m.tasks[t].status \in Statuses /\ m.tasks[t].promoted \in BOOLEAN
         /\ m.conv \in [Convs -> Conversations]
         /\ \A c \in Convs : /\ m.conv[c].revision \in 0..MaxRevision
                             /\ m.conv[c].session \in 0..MaxRevision + 1
         /\ m.revision \in 0..MaxRevision
<1>1. m.tasks \in Seq(Tasks)
  BY DEF Stored, Tasks, Statuses
<1>2. m.conv \in [Convs -> Conversations] /\ m.revision \in 0..MaxRevision
  BY DEF Stored, Conversations
<1>3. /\ DOMAIN m.tasks = 1..Len(m.tasks) /\ Len(m.tasks) \in Nat
      /\ \A t \in 1..Len(m.tasks) : m.tasks[t] \in Tasks
  BY <1>1, LenProperties, ElementOfSeq
<1>4. \A r \in Tasks : /\ r.key \in Keys /\ r.conv \in Convs /\ r.status \in Statuses
                       /\ r.promoted \in BOOLEAN
  BY DEF Tasks
<1>5. \A v \in Conversations : v.revision \in 0..MaxRevision /\ v.session \in 0..MaxRevision + 1
  BY DEF Conversations
<1> QED
  BY <1>1, <1>2, <1>3, <1>4, <1>5

LEMMA BeforeSelf ==
  ASSUME NEW W, NEW a \in Stored
  PROVE  Before(W, a, a)
BY StoredFacts DEF Before

LEMMA BeforeTrans ==
  ASSUME NEW W, NEW a \in Stored, NEW b \in Stored, NEW c \in Stored,
         Before(W, a, b), Before(W, b, c)
  PROVE  Before(W, a, c)
<1>1. /\ Len(a.tasks) \in Nat /\ Len(b.tasks) \in Nat /\ Len(c.tasks) \in Nat
      /\ DOMAIN a.tasks = 1..Len(a.tasks) /\ DOMAIN b.tasks = 1..Len(b.tasks)
  BY StoredFacts
<1>2. Len(a.tasks) <= Len(b.tasks) /\ Len(b.tasks) <= Len(c.tasks)
  BY DEF Before
<1>3. DOMAIN a.tasks \subseteq DOMAIN b.tasks /\ Len(a.tasks) <= Len(c.tasks)
  BY <1>1, <1>2
<1> QED
  BY <1>3 DEF Before

LEMMA BeforeFewer ==
  ASSUME NEW W, NEW U, U \subseteq W, NEW a, NEW b, Before(W, a, b)
  PROVE  Before(U, a, b)
BY DEF Before

\* What the tasks of one state have become in a later one.
LEMMA BeforeFacts ==
  ASSUME NEW W, NEW a \in Stored, NEW b \in Stored, Before(W, a, b)
  PROVE  /\ \A t \in DOMAIN a.tasks : t \in DOMAIN b.tasks /\ b.tasks[t].key = a.tasks[t].key
         /\ \A t : Past(a, t) => Past(b, t)
         /\ \A t \in W : t \in DOMAIN a.tasks /\ a.tasks[t].status = "cancelled"
                           => b.tasks[t].status = "cancelled"
<1>1. /\ Len(a.tasks) \in Nat /\ Len(b.tasks) \in Nat
      /\ DOMAIN a.tasks = 1..Len(a.tasks) /\ DOMAIN b.tasks = 1..Len(b.tasks)
  BY StoredFacts
<1>2. DOMAIN a.tasks \subseteq DOMAIN b.tasks
  BY <1>1 DEF Before
<1> QED
  BY <1>2 DEF Before, Past

\* A further turn is withdrawn while it is still queued in memory.
LEMMA BeforeMore ==
  ASSUME NEW W, NEW a \in Stored, NEW b, NEW m \in Stored, NEW t,
         Before(W, a, b), Before(W, a, m), m.tasks[t].status = "queued"
  PROVE  Before(W \cup {t}, a, b)
BY DEF Before

-----------------------------------------------------------------------------
(* The chain of saves.                                                      *)

LEMMA ChainFacts ==
  ASSUME NEW W, NEW d, NEW q, NEW m, Chain(W, d, q, m)
  PROVE  /\ d \in Stored /\ m \in Stored /\ q \in Seq(SaveRecords)
         /\ DOMAIN q = 1..Len(q) /\ Len(q) \in Nat
         /\ \A i \in DOMAIN q : q[i] \in SaveRecords /\ q[i].text \in Stored
<1>1. d \in Stored /\ m \in Stored /\ q \in Seq(SaveRecords)
  BY DEF Chain, Good
<1>2. /\ DOMAIN q = 1..Len(q) /\ Len(q) \in Nat
      /\ \A i \in DOMAIN q : q[i] \in SaveRecords
  BY <1>1, LenProperties, ElementOfSeq
<1>3. \A r \in SaveRecords : r.text \in Stored
  BY DEF SaveRecords
<1> QED
  BY <1>1, <1>2, <1>3

\* Memory moves and the new state is asked to be saved.
LEMMA ChainSaved ==
  ASSUME NEW W, NEW d, NEW q, NEW m, NEW n, NEW r \in SaveRecords,
         Chain(W, d, q, m), Good(n), Before(W, m, n), r.text = n
  PROVE  Chain(W, d, Append(q, r), n)
<1> DEFINE p == Append(q, r)
<1>1. /\ d \in Stored /\ m \in Stored /\ n \in Stored /\ q \in Seq(SaveRecords)
      /\ DOMAIN q = 1..Len(q) /\ Len(q) \in Nat
      /\ \A i \in DOMAIN q : q[i].text \in Stored
  BY ChainFacts DEF Good
<1>2. /\ p \in Seq(SaveRecords) /\ DOMAIN p = 1..Len(q) + 1
      /\ \A i \in DOMAIN q : p[i] = q[i]
      /\ p[Len(q) + 1] = r
  BY <1>1, AppendProperties, LenProperties
<1> HIDE DEF p
<1>3. Before(W, d, n) /\ Before(W, n, n)
  <2>1. Before(W, d, m)
    BY DEF Chain
  <2> QED
    BY <1>1, <2>1, BeforeTrans, BeforeSelf
<1>4. ASSUME NEW i \in DOMAIN q
      PROVE  Good(q[i].text) /\ Before(W, d, q[i].text) /\ Before(W, q[i].text, n)
  <2>1. Good(q[i].text) /\ Before(W, d, q[i].text) /\ Before(W, q[i].text, m)
    BY DEF Chain
  <2>2. Before(W, q[i].text, n)
    BY <1>1, <2>1, BeforeTrans
  <2> QED
    BY <2>1, <2>2
<1>5. ASSUME NEW i \in DOMAIN p
      PROVE  Good(p[i].text) /\ Before(W, d, p[i].text) /\ Before(W, p[i].text, n)
  <2>1. CASE i \in DOMAIN q
    BY <1>2, <1>4, <2>1
  <2>2. CASE i = Len(q) + 1
    BY <1>2, <1>3, <2>2
  <2> QED
    BY <1>1, <1>2, <2>1, <2>2
<1>6. ASSUME NEW i \in DOMAIN p, NEW j \in DOMAIN p, i < j
      PROVE  Before(W, p[i].text, p[j].text)
  <2>1. i \in DOMAIN q
    BY <1>1, <1>2, <1>6
  <2>2. CASE j \in DOMAIN q
    BY <1>2, <1>6, <2>1, <2>2 DEF Chain
  <2>3. CASE j = Len(q) + 1
    BY <1>2, <1>4, <2>1, <2>3
  <2> QED
    BY <1>1, <1>2, <2>2, <2>3
<1> QED
  BY <1>2, <1>3, <1>5, <1>6 DEF Chain, p

\* Memory moves and nothing is saved.
LEMMA ChainMoves ==
  ASSUME NEW W, NEW d, NEW q, NEW m, NEW n,
         Chain(W, d, q, m), Good(n), Before(W, m, n)
  PROVE  Chain(W, d, q, n)
<1>1. /\ d \in Stored /\ m \in Stored /\ n \in Stored
      /\ \A i \in DOMAIN q : q[i].text \in Stored
  BY ChainFacts DEF Good
<1>2. Before(W, d, n)
  BY <1>1, BeforeTrans DEF Chain
<1>3. ASSUME NEW i \in DOMAIN q
      PROVE  Before(W, q[i].text, n)
  <2>1. Before(W, q[i].text, m)
    BY DEF Chain
  <2> QED
    BY <1>1, <2>1, BeforeTrans
<1> QED
  BY <1>2, <1>3 DEF Chain

\* A save is answered: the first one may have reached the file.
LEMMA ChainAnswered ==
  ASSUME NEW W, NEW d, NEW q, NEW m, NEW i \in DOMAIN q, NEW e,
         Chain(W, d, q, m), e = d \/ (i = 1 /\ e = q[1].text)
  PROVE  Chain(W, e, Without(q, i), m) /\ Before(W, d, e)
<1> DEFINE p == Without(q, i)
<1>1. /\ d \in Stored /\ m \in Stored /\ q \in Seq(SaveRecords)
      /\ DOMAIN q = 1..Len(q) /\ Len(q) \in Nat
      /\ \A k \in DOMAIN q : q[k].text \in Stored
  BY ChainFacts
<1>2. /\ p \in Seq(SaveRecords) /\ Len(p) = Len(q) - 1
      /\ \A k \in DOMAIN p : /\ k \in DOMAIN q /\ k + 1 \in DOMAIN q
                             /\ p[k] = IF k < i THEN q[k] ELSE q[k + 1]
  BY <1>1, WithoutFacts
<1> DEFINE at(k) == IF k < i THEN k ELSE k + 1
<1>3. \A k \in DOMAIN p : at(k) \in DOMAIN q /\ p[k] = q[at(k)] /\ (i = 1 => at(k) > 1)
  BY <1>1, <1>2
<1>4. \A k, l \in DOMAIN p : k < l => at(k) < at(l)
  BY <1>1, <1>2
<1> HIDE DEF p, at
<1>5. Good(e) /\ Before(W, e, m) /\ Before(W, d, e)
  <2>1. CASE e = d
    BY <1>1, <2>1, BeforeSelf DEF Chain
  <2>2. CASE i = 1 /\ e = q[1].text
    BY <2>2 DEF Chain
  <2> QED
    BY <2>1, <2>2
<1>6. ASSUME NEW k \in DOMAIN p
      PROVE  Good(p[k].text) /\ Before(W, e, p[k].text) /\ Before(W, p[k].text, m)
  <2>1. at(k) \in DOMAIN q /\ p[k] = q[at(k)] /\ (i = 1 => at(k) > 1)
    BY <1>3
  <2>2. Good(q[at(k)].text) /\ Before(W, d, q[at(k)].text) /\ Before(W, q[at(k)].text, m)
    BY <2>1 DEF Chain
  <2>3. Before(W, e, q[at(k)].text)
    <3>1. CASE e = d
      BY <2>2, <3>1
    <3>2. CASE i = 1 /\ e = q[1].text
      <4>1. 1 \in DOMAIN q /\ 1 < at(k)
        BY <1>1, <2>1, <3>2
      <4> QED
        BY <2>1, <3>2, <4>1 DEF Chain
    <3> QED
      BY <3>1, <3>2
  <2> QED
    BY <2>1, <2>2, <2>3
<1>7. ASSUME NEW k \in DOMAIN p, NEW l \in DOMAIN p, k < l
      PROVE  Before(W, p[k].text, p[l].text)
  <2>1. /\ at(k) \in DOMAIN q /\ at(l) \in DOMAIN q /\ at(k) < at(l)
        /\ p[k] = q[at(k)] /\ p[l] = q[at(l)]
    BY <1>3, <1>4, <1>7
  <2> QED
    BY <2>1 DEF Chain
<1>8. Chain(W, e, p, m)
  BY <1>2, <1>5, <1>6, <1>7 DEF Chain
<1> QED
  BY <1>5, <1>8 DEF p

\* A chain that has lost its saves, with the memory or with the file alone.
LEMMA ChainEmptied ==
  ASSUME NEW W, NEW d, NEW m, Good(d), Good(m), Before(W, d, m)
  PROVE  Chain(W, d, <<>>, m)
<1>1. <<>> \in Seq(SaveRecords) /\ DOMAIN <<>> = {}
  BY EmptySeq, LenProperties
<1> QED
  BY <1>1 DEF Chain

LEMMA ChainShrinks ==
  ASSUME NEW W, NEW U, U \subseteq W, NEW d, NEW q, NEW m, Chain(W, d, q, m)
  PROVE  Chain(U, d, q, m)
BY BeforeFewer DEF Chain

\* A turn that is still queued in memory may be withdrawn.
LEMMA ChainGrows ==
  ASSUME NEW W, NEW d, NEW q, NEW m, NEW t, Chain(W, d, q, m),
         m.tasks[t].status = "queued"
  PROVE  Chain(W \cup {t}, d, q, m)
<1>1. d \in Stored /\ m \in Stored /\ \A i \in DOMAIN q : q[i].text \in Stored
  BY ChainFacts
<1>2. Before(W, d, m) /\ \A i \in DOMAIN q : Before(W, q[i].text, m)
  BY DEF Chain
<1>3. Before(W \cup {t}, d, m)
  BY <1>1, <1>2, BeforeMore
<1>4. ASSUME NEW i \in DOMAIN q
      PROVE  Before(W \cup {t}, d, q[i].text) /\ Before(W \cup {t}, q[i].text, m)
  <2>1. Before(W, d, q[i].text)
    BY DEF Chain
  <2> QED
    BY <1>1, <1>2, <2>1, BeforeMore
<1>5. ASSUME NEW i \in DOMAIN q, NEW j \in DOMAIN q, i < j
      PROVE  Before(W \cup {t}, q[i].text, q[j].text)
  <2>1. Before(W, q[i].text, q[j].text)
    BY <1>5 DEF Chain
  <2> QED
    BY <1>1, <1>2, <2>1, BeforeMore
<1> QED
  BY <1>3, <1>4, <1>5 DEF Chain

-----------------------------------------------------------------------------
(* Who waits for a save of the chain.                                       *)

LEMMA OnlyOther ==
  ASSUME NEW q \in Seq(SaveRecords), NEW r \in SaveRecords, NEW by, NEW T,
         Only(q, by, T), r.by # by
  PROVE  Only(Append(q, r), by, T)
<1>1. /\ DOMAIN q = 1..Len(q) /\ Len(q) \in Nat
      /\ DOMAIN Append(q, r) = 1..Len(q) + 1
      /\ \A i \in 1..Len(q) : Append(q, r)[i] = q[i]
      /\ Append(q, r)[Len(q) + 1] = r
  BY AppendProperties, LenProperties
<1>2. \A i \in DOMAIN Append(q, r) :
         Append(q, r)[i].by = by => i \in DOMAIN q /\ Append(q, r)[i] = q[i]
  BY <1>1
<1> QED
  BY <1>2 DEF Only

LEMMA OnlyNew ==
  ASSUME NEW q \in Seq(SaveRecords), NEW r \in SaveRecords, NEW T,
         Only(q, r.by, {}), r.text \in T
  PROVE  Only(Append(q, r), r.by, T)
<1>1. /\ DOMAIN q = 1..Len(q) /\ Len(q) \in Nat
      /\ DOMAIN Append(q, r) = 1..Len(q) + 1
      /\ \A i \in 1..Len(q) : Append(q, r)[i] = q[i]
      /\ Append(q, r)[Len(q) + 1] = r
  BY AppendProperties, LenProperties
<1>2. \A i \in DOMAIN q : q[i].by # r.by
  BY DEF Only
<1>3. \A i \in DOMAIN Append(q, r) :
         Append(q, r)[i].by = r.by => i = Len(q) + 1 /\ Append(q, r)[i] = r
  BY <1>1, <1>2
<1> QED
  BY <1>3 DEF Only

LEMMA OnlyMore ==
  ASSUME NEW q, NEW by, NEW T, NEW U, Only(q, by, T), T \subseteq U
  PROVE  Only(q, by, U)
BY DEF Only

LEMMA OnlyNone ==
  ASSUME NEW by, NEW T
  PROVE  Only(<<>>, by, T)
BY DEF Only

\* The save that is answered leaves the chain: the others keep their place,
\* and its own flow awaits none.
LEMMA OnlyAnswered ==
  ASSUME NEW q \in Seq(SaveRecords), NEW i \in DOMAIN q, NEW by, NEW T, Only(q, by, T)
  PROVE  /\ Only(Without(q, i), by, T)
         /\ q[i].by = by => q[i].text \in T /\ Only(Without(q, i), by, {})
<1> DEFINE p == Without(q, i)
           at(k) == IF k < i THEN k ELSE k + 1
<1>1. DOMAIN q = 1..Len(q) /\ Len(q) \in Nat /\ i \in Nat
  BY LenProperties
<1>2. /\ p \in Seq(SaveRecords) /\ Len(p) = Len(q) - 1
      /\ \A k \in DOMAIN p : /\ k \in DOMAIN q /\ k + 1 \in DOMAIN q
                             /\ p[k] = IF k < i THEN q[k] ELSE q[k + 1]
  BY WithoutFacts
<1>3. \A k \in DOMAIN p : k \in Nat /\ at(k) \in DOMAIN q /\ at(k) # i /\ p[k] = q[at(k)]
  BY <1>1, <1>2
<1>4. \A k, l \in DOMAIN p : at(k) = at(l) => k = l
  BY <1>1, <1>2
<1> HIDE DEF p, at
<1>5. Only(p, by, T)
  <2> SUFFICES ASSUME NEW k \in DOMAIN p, p[k].by = by
               PROVE  p[k].text \in T /\ \A l \in DOMAIN p : p[l].by = by => l = k
    BY DEF Only
  <2>1. q[at(k)].text \in T /\ \A j \in DOMAIN q : q[j].by = by => j = at(k)
    BY <1>3 DEF Only
  <2> QED
    BY <1>3, <1>4, <2>1
<1>6. ASSUME q[i].by = by
      PROVE  q[i].text \in T /\ Only(p, by, {})
  <2>1. q[i].text \in T /\ \A j \in DOMAIN q : q[j].by = by => j = i
    BY <1>6 DEF Only
  <2>2. \A k \in DOMAIN p : p[k].by # by
    BY <1>3, <2>1
  <2> QED
    BY <2>1, <2>2 DEF Only
<1> QED
  BY <1>5, <1>6 DEF p

-----------------------------------------------------------------------------
(* The steps of a turn in the store.                                        *)

LEMMA SetStatusFacts ==
  ASSUME NEW m \in Stored, NEW t \in DOMAIN m.tasks, NEW s \in Statuses
  PROVE  /\ SetStatus(m, t, s) \in Stored
         /\ DOMAIN SetStatus(m, t, s).tasks = DOMAIN m.tasks
         /\ Len(SetStatus(m, t, s).tasks) = Len(m.tasks)
         /\ \A x \in DOMAIN m.tasks :
               /\ SetStatus(m, t, s).tasks[x].key = m.tasks[x].key
               /\ SetStatus(m, t, s).tasks[x].conv = m.tasks[x].conv
               /\ SetStatus(m, t, s).tasks[x].status = IF x = t THEN s ELSE m.tasks[x].status
         /\ SetStatus(m, t, s).conv = m.conv
         /\ SetStatus(m, t, s).revision = m.revision
<1> DEFINE r == [m.tasks[t] EXCEPT !.status = s]
           q == [m.tasks EXCEPT ![t] = r]
<1>1. /\ m.tasks \in Seq(Tasks) /\ Len(m.tasks) \in Nat /\ DOMAIN m.tasks = 1..Len(m.tasks)
      /\ \A x \in DOMAIN m.tasks : m.tasks[x] \in Tasks
  BY StoredFacts
<1>2. r \in Tasks /\ r.key = m.tasks[t].key /\ r.conv = m.tasks[t].conv /\ r.status = s
  BY <1>1 DEF Tasks
<1>3. m.tasks[t] = [m.tasks[t] EXCEPT !.status = m.tasks[t].status]
  BY <1>1 DEF Tasks
<1>4. SetStatus(m, t, s) = [m EXCEPT !.tasks = q]
  BY DEF SetStatus
<1> HIDE DEF r
<1>5. /\ q \in Seq(Tasks) /\ Len(q) = Len(m.tasks) /\ DOMAIN q = DOMAIN m.tasks
      /\ \A x \in DOMAIN m.tasks : q[x] = IF x = t THEN r ELSE m.tasks[x]
  BY <1>1, <1>2, ExceptSeq, LenProperties
<1> HIDE DEF q
<1>6. /\ SetStatus(m, t, s) \in Stored
      /\ SetStatus(m, t, s).tasks = q /\ SetStatus(m, t, s).conv = m.conv
      /\ SetStatus(m, t, s).revision = m.revision
  BY <1>4, <1>5 DEF Stored, Tasks, Statuses
<1> QED
  BY <1>2, <1>5, <1>6

LEMMA LoseFacts ==
  ASSUME NEW m \in Stored, NEW t \in DOMAIN m.tasks, NEW s \in Statuses
  PROVE  /\ Lose(m, t, s) \in Stored
         /\ DOMAIN Lose(m, t, s).tasks = DOMAIN m.tasks
         /\ Len(Lose(m, t, s).tasks) = Len(m.tasks)
         /\ \A x \in DOMAIN m.tasks :
               /\ Lose(m, t, s).tasks[x].key = m.tasks[x].key
               /\ Lose(m, t, s).tasks[x].conv = m.tasks[x].conv
               /\ Lose(m, t, s).tasks[x].status = IF x = t THEN s ELSE m.tasks[x].status
         /\ \A c \in Convs :
               /\ Lose(m, t, s).conv[c].exists = m.conv[c].exists
               /\ Lose(m, t, s).conv[c].archived = m.conv[c].archived
               /\ Lose(m, t, s).conv[c].revision = m.conv[c].revision
               /\ Lose(m, t, s).conv[c].session = m.conv[c].session
         /\ Lose(m, t, s).revision = m.revision
<1> DEFINE n == SetStatus(m, t, s)
           k == ConvOf(m, t)
           v == [m.conv[k] EXCEPT !.ready = FALSE]
           f == [m.conv EXCEPT ![k] = v]
<1>1. /\ n \in Stored /\ n.conv = m.conv /\ n.revision = m.revision
      /\ DOMAIN n.tasks = DOMAIN m.tasks /\ Len(n.tasks) = Len(m.tasks)
      /\ \A x \in DOMAIN m.tasks :
            /\ n.tasks[x].key = m.tasks[x].key /\ n.tasks[x].conv = m.tasks[x].conv
            /\ n.tasks[x].status = IF x = t THEN s ELSE m.tasks[x].status
  BY SetStatusFacts
<1>2. k \in Convs /\ m.conv \in [Convs -> Conversations]
  BY StoredFacts DEF ConvOf
<1>3. /\ v \in Conversations
      /\ v.exists = m.conv[k].exists /\ v.archived = m.conv[k].archived
      /\ v.revision = m.conv[k].revision /\ v.session = m.conv[k].session
  BY <1>2 DEF Conversations
<1>4. Lose(m, t, s) = [n EXCEPT !.conv = f]
  BY <1>1 DEF Lose
<1> HIDE DEF n, v, k
<1>5. /\ f \in [Convs -> Conversations]
      /\ \A c \in Convs : f[c] = IF c = k THEN v ELSE m.conv[c]
  BY <1>2, <1>3
<1> HIDE DEF f
<1>6. /\ Lose(m, t, s) \in Stored
      /\ Lose(m, t, s).tasks = n.tasks /\ Lose(m, t, s).conv = f
      /\ Lose(m, t, s).revision = n.revision
  BY <1>1, <1>4, <1>5 DEF Stored, Conversations
<1> QED
  BY <1>1, <1>3, <1>5, <1>6

\* Only the turns of T move, and out of the queue or further; conversations
\* stay, but for their sessions.
Moves(m, n, T) ==
  /\ n \in Stored /\ DOMAIN n.tasks = DOMAIN m.tasks /\ Len(n.tasks) = Len(m.tasks)
  /\ \A x \in DOMAIN m.tasks :
        /\ n.tasks[x].key = m.tasks[x].key /\ n.tasks[x].conv = m.tasks[x].conv
        /\ x \notin T => n.tasks[x].status = m.tasks[x].status
        /\ x \in T => n.tasks[x].status # "queued"
        /\ n.tasks[x].status \in Running => m.tasks[x].status \in Running \cup {"queued"}
  /\ \A c \in Convs :
        /\ n.conv[c].exists = m.conv[c].exists /\ n.conv[c].archived = m.conv[c].archived
        /\ n.conv[c].session # None => n.conv[c].session = n.conv[c].revision + 1

LEMMA MovesGood ==
  ASSUME NEW W, NEW m, NEW n, NEW T, Good(m), Moves(m, n, T),
         \A t \in T \cap W : t \in DOMAIN m.tasks /\ m.tasks[t].status = "cancelled"
                                => n.tasks[t].status = "cancelled"
  PROVE  Good(n) /\ Before(W, m, n)
<1>1. m \in Stored /\ n \in Stored /\ Len(n.tasks) = Len(m.tasks) /\ Len(m.tasks) \in Nat
      /\ DOMAIN n.tasks = DOMAIN m.tasks
  BY StoredFacts DEF Good, Moves
<1>2. \A x \in DOMAIN m.tasks :
         /\ n.tasks[x].key = m.tasks[x].key /\ n.tasks[x].conv = m.tasks[x].conv
         /\ n.tasks[x].conv \in Convs /\ n.tasks[x].status \in Statuses
  BY <1>1, StoredFacts DEF Moves
<1>3. Before(W, m, n)
  BY <1>1 DEF Before, Moves
<1>4. \A s, t \in DOMAIN n.tasks : n.tasks[s].key = n.tasks[t].key => s = t
  BY <1>1, <1>2 DEF Good
<1>5. ASSUME NEW t \in DOMAIN n.tasks
      PROVE  /\ n.conv[n.tasks[t].conv].exists
             /\ n.tasks[t].status \in Running \cup {"queued"}
                  => ~n.conv[n.tasks[t].conv].archived
  <2>1. n.conv[n.tasks[t].conv].exists = m.conv[m.tasks[t].conv].exists
        /\ n.conv[n.tasks[t].conv].archived = m.conv[m.tasks[t].conv].archived
    BY <1>1, <1>2 DEF Moves
  <2>2. n.tasks[t].status \in Running \cup {"queued"}
          => m.tasks[t].status \in Running \cup {"queued"}
    BY <1>1 DEF Moves
  <2> QED
    BY <1>1, <2>1, <2>2 DEF Good
<1>6. \A c \in Convs : n.conv[c].session # None => n.conv[c].session = n.conv[c].revision + 1
  BY DEF Moves
<1>7. Len(n.tasks) <= MaxTasks
  BY <1>1 DEF Good
<1> QED
  BY <1>1, <1>3, <1>4, <1>5, <1>6, <1>7 DEF Good

LEMMA SetStatusGood ==
  ASSUME NEW W, NEW m, Good(m), NEW t \in DOMAIN m.tasks, NEW s \in Statuses, s # "queued",
         s \in Running => m.tasks[t].status \in Running \cup {"queued"},
         t \notin W \/ s = "cancelled"
  PROVE  Good(SetStatus(m, t, s)) /\ Before(W, m, SetStatus(m, t, s))
<1> DEFINE n == SetStatus(m, t, s)
<1>1. m \in Stored
  BY DEF Good
<1>2. /\ n \in Stored /\ DOMAIN n.tasks = DOMAIN m.tasks /\ Len(n.tasks) = Len(m.tasks)
      /\ \A x \in DOMAIN m.tasks :
            /\ n.tasks[x].key = m.tasks[x].key /\ n.tasks[x].conv = m.tasks[x].conv
            /\ n.tasks[x].status = IF x = t THEN s ELSE m.tasks[x].status
      /\ n.conv = m.conv
  BY <1>1, SetStatusFacts
<1> HIDE DEF n
<1>3. Moves(m, n, {t})
  BY <1>1, <1>2, StoredFacts DEF Moves, Good
<1>4. Good(n) /\ Before(W, m, n)
  BY <1>2, <1>3, MovesGood
<1> QED
  BY <1>4 DEF n

LEMMA LoseGood ==
  ASSUME NEW W, NEW m, Good(m), NEW t \in DOMAIN m.tasks, NEW s \in {"failed", "cancelled"},
         t \notin W
  PROVE  Good(Lose(m, t, s)) /\ Before(W, m, Lose(m, t, s))
<1> DEFINE n == Lose(m, t, s)
<1>1. m \in Stored /\ s \in Statuses /\ s # "queued" /\ s \notin Running
  BY DEF Good, Statuses, Settled, Running
<1>2. /\ n \in Stored /\ DOMAIN n.tasks = DOMAIN m.tasks /\ Len(n.tasks) = Len(m.tasks)
      /\ \A x \in DOMAIN m.tasks :
            /\ n.tasks[x].key = m.tasks[x].key /\ n.tasks[x].conv = m.tasks[x].conv
            /\ n.tasks[x].status = IF x = t THEN s ELSE m.tasks[x].status
      /\ \A c \in Convs :
            /\ n.conv[c].exists = m.conv[c].exists /\ n.conv[c].archived = m.conv[c].archived
            /\ n.conv[c].revision = m.conv[c].revision
            /\ n.conv[c].session = m.conv[c].session
  BY <1>1, LoseFacts
<1> HIDE DEF n
<1>3. Moves(m, n, {t})
  BY <1>1, <1>2, StoredFacts DEF Moves, Good
<1>4. Good(n) /\ Before(W, m, n)
  BY <1>2, <1>3, MovesGood
<1> QED
  BY <1>4 DEF n

\* The turn that pump launches: its conversation is brought under the current
\* profile, and a session of another one is dropped.
Launched(m, t) ==
  [SetStatus(m, t, "running") EXCEPT
     !.conv[ConvOf(m, t)].revision = m.revision,
     !.conv[ConvOf(m, t)].session =
        IF m.conv[ConvOf(m, t)].revision = m.revision THEN @ ELSE None]

LEMMA LaunchedFacts ==
  ASSUME NEW W, NEW m, Good(m), NEW t \in Queued(m), t \notin W
  PROVE  /\ Good(Launched(m, t)) /\ Before(W, m, Launched(m, t))
         /\ DOMAIN Launched(m, t).tasks = DOMAIN m.tasks
         /\ \A x \in DOMAIN m.tasks :
               /\ Launched(m, t).tasks[x].conv = m.tasks[x].conv
               /\ Launched(m, t).tasks[x].status = IF x = t THEN "running" ELSE m.tasks[x].status
         /\ Launched(m, t).revision = m.revision
         /\ Launched(m, t).conv[ConvOf(m, t)].revision = m.revision
         /\ Launched(m, t).conv[ConvOf(m, t)].ready = m.conv[ConvOf(m, t)].ready
<1> DEFINE n == SetStatus(m, t, "running")
           k == ConvOf(m, t)
           s == IF m.conv[k].revision = m.revision THEN m.conv[k].session ELSE None
           v == [[m.conv[k] EXCEPT !.revision = m.revision] EXCEPT !.session = s]
           f == [m.conv EXCEPT ![k] = v]
           l == Launched(m, t)
<1>1. m \in Stored /\ t \in DOMAIN m.tasks /\ m.tasks[t].status = "queued"
      /\ "running" \in Statuses
  BY DEF Good, Queued, Statuses, Running
<1>2. /\ n \in Stored /\ n.conv = m.conv /\ n.revision = m.revision
      /\ DOMAIN n.tasks = DOMAIN m.tasks /\ Len(n.tasks) = Len(m.tasks)
      /\ \A x \in DOMAIN m.tasks :
            /\ n.tasks[x].key = m.tasks[x].key /\ n.tasks[x].conv = m.tasks[x].conv
            /\ n.tasks[x].status = IF x = t THEN "running" ELSE m.tasks[x].status
  BY <1>1, SetStatusFacts
<1>3. /\ k \in Convs /\ m.conv \in [Convs -> Conversations] /\ m.revision \in 0..MaxRevision
      /\ m.conv[k].session \in 0..MaxRevision + 1
  BY <1>1, StoredFacts DEF ConvOf
<1>4. s \in 0..MaxRevision + 1 /\ (s # None => s = m.revision + 1)
  BY <1>3 DEF None, Good
<1> HIDE DEF s
<1>5. /\ v \in Conversations
      /\ v.exists = m.conv[k].exists /\ v.archived = m.conv[k].archived
      /\ v.ready = m.conv[k].ready /\ v.revision = m.revision /\ v.session = s
  BY <1>3, <1>4 DEF Conversations
<1>6. l = [n EXCEPT !.conv = f]
  <2>1. m.conv[k] \in Conversations
    BY <1>3
  <2>2. [m.conv[k] EXCEPT !.revision = m.revision].session = m.conv[k].session
    BY <2>1 DEF Conversations
  <2> QED
    BY <1>2, <1>3, <2>2 DEF Launched, s
<1> HIDE DEF n, v, k, l
<1>7. /\ f \in [Convs -> Conversations]
      /\ \A c \in Convs : f[c] = IF c = k THEN v ELSE m.conv[c]
  BY <1>3, <1>5
<1> HIDE DEF f
<1>8. l \in Stored /\ l.tasks = n.tasks /\ l.conv = f /\ l.revision = n.revision
  BY <1>2, <1>6, <1>7 DEF Stored, Conversations
<1>9. Moves(m, l, {t})
  <2>1. \A x \in DOMAIN m.tasks :
           /\ l.tasks[x].key = m.tasks[x].key /\ l.tasks[x].conv = m.tasks[x].conv
           /\ x # t => l.tasks[x].status = m.tasks[x].status
           /\ x = t => l.tasks[x].status # "queued"
           /\ l.tasks[x].status \in Running => m.tasks[x].status \in Running \cup {"queued"}
    BY <1>1, <1>2, <1>8
  <2>2. ASSUME NEW c \in Convs
        PROVE  /\ l.conv[c].exists = m.conv[c].exists /\ l.conv[c].archived = m.conv[c].archived
               /\ l.conv[c].session # None => l.conv[c].session = l.conv[c].revision + 1
    <3>1. CASE c = k
      BY <1>4, <1>5, <1>7, <1>8, <3>1
    <3>2. CASE c # k
      BY <1>7, <1>8, <3>2 DEF Good
    <3> QED
      BY <3>1, <3>2
  <2> QED
    BY <1>2, <1>8, <2>1, <2>2 DEF Moves
<1>10. Good(l) /\ Before(W, m, l)
  BY <1>9, MovesGood
<1>11. l.conv[k].revision = m.revision /\ l.conv[k].ready = m.conv[k].ready
  BY <1>3, <1>5, <1>7, <1>8
<1> QED
  BY <1>2, <1>8, <1>10, <1>11 DEF l, k

\* openStore settles what was under way and leaves the rest.
LEMMA RecoverFacts ==
  ASSUME NEW W, NEW m, Good(m)
  PROVE  /\ Good(Recover(m)) /\ Before(W, m, Recover(m))
         /\ DOMAIN Recover(m).tasks = DOMAIN m.tasks
         /\ \A t \in DOMAIN m.tasks :
               /\ m.tasks[t].status \notin Running
                    => Recover(m).tasks[t].status = m.tasks[t].status
               /\ Recover(m).tasks[t].status \notin Running
<1> DEFINE T == {t \in DOMAIN m.tasks : m.tasks[t].status \in Running}
           task(t) == IF t \in T THEN [m.tasks[t] EXCEPT !.status = "interrupted"] ELSE m.tasks[t]
           q == [t \in DOMAIN m.tasks |-> task(t)]
           talk(c) == IF \E t \in T : m.tasks[t].conv = c
                      THEN [m.conv[c] EXCEPT !.ready = FALSE] ELSE m.conv[c]
           f == [c \in Convs |-> talk(c)]
           n == Recover(m)
<1>1. m \in Stored
  BY DEF Good
<1>2. /\ m.tasks \in Seq(Tasks) /\ Len(m.tasks) \in Nat /\ DOMAIN m.tasks = 1..Len(m.tasks)
      /\ \A t \in DOMAIN m.tasks : m.tasks[t] \in Tasks
      /\ m.conv \in [Convs -> Conversations]
  BY <1>1, StoredFacts
<1>3. ASSUME NEW t \in DOMAIN m.tasks
      PROVE  /\ task(t) \in Tasks
             /\ task(t).key = m.tasks[t].key /\ task(t).conv = m.tasks[t].conv
             /\ task(t).status = IF t \in T THEN "interrupted" ELSE m.tasks[t].status
  <2>1. "interrupted" \in Statuses
    BY DEF Statuses, Settled
  <2> QED
    BY <1>2, <2>1 DEF Tasks
<1>4. ASSUME NEW c \in Convs
      PROVE  /\ talk(c) \in Conversations
             /\ talk(c).exists = m.conv[c].exists /\ talk(c).archived = m.conv[c].archived
             /\ talk(c).revision = m.conv[c].revision /\ talk(c).session = m.conv[c].session
  BY <1>2 DEF Conversations
<1>5. n = [[m EXCEPT !.tasks = q] EXCEPT !.conv = f]
  BY DEF Recover
<1> HIDE DEF task, talk, n
<1>6. /\ q \in Seq(Tasks) /\ Len(q) = Len(m.tasks) /\ DOMAIN q = DOMAIN m.tasks
      /\ \A t \in DOMAIN m.tasks : q[t] = task(t)
  <2>1. q \in [1..Len(m.tasks) -> Tasks]
    BY <1>2, <1>3
  <2>2. q \in Seq(Tasks)
    BY <1>2, <2>1, SeqDef
  <2> QED
    BY <1>2, <2>1, <2>2, LenProperties
<1>7. f \in [Convs -> Conversations] /\ \A c \in Convs : f[c] = talk(c)
  BY <1>4
<1> HIDE DEF q, f
<1>8. n \in Stored /\ n.tasks = q /\ n.conv = f
  BY <1>1, <1>5, <1>6, <1>7 DEF Stored, Tasks, Conversations, Statuses
<1>9. \A t \in DOMAIN m.tasks :
         n.tasks[t].status = IF t \in T THEN "interrupted" ELSE m.tasks[t].status
  BY <1>3, <1>6, <1>8
<1>10. Moves(m, n, T)
  <2>1. \A t \in DOMAIN m.tasks :
           n.tasks[t].key = m.tasks[t].key /\ n.tasks[t].conv = m.tasks[t].conv
    BY <1>3, <1>6, <1>8
  <2>2. \A c \in Convs :
           /\ n.conv[c].exists = m.conv[c].exists /\ n.conv[c].archived = m.conv[c].archived
           /\ n.conv[c].session # None => n.conv[c].session = n.conv[c].revision + 1
    BY <1>4, <1>7, <1>8 DEF Good
  <2>3. "interrupted" # "queued" /\ "interrupted" \notin Running
    BY DEF Running
  <2> QED
    BY <1>6, <1>8, <1>9, <2>1, <2>2, <2>3 DEF Moves
<1>11. Good(n) /\ Before(W, m, n)
  <2>1. \A t \in T : m.tasks[t].status # "cancelled"
    BY DEF Running
  <2> QED
    BY <1>10, <2>1, MovesGood
<1>12. "interrupted" \notin Running
  BY DEF Running
<1> QED
  BY <1>6, <1>8, <1>9, <1>11, <1>12 DEF n

-----------------------------------------------------------------------------
(* What an answered save changes.                                           *)

LEMMA OnFileLater ==
  ASSUME NEW W, NEW d \in Stored, NEW e \in Stored, Before(W, d, e), stopped \subseteq W, OnFile(d)
  PROVE  OnFile(e)
<1>1. /\ \A t \in DOMAIN d.tasks : t \in DOMAIN e.tasks /\ e.tasks[t].key = d.tasks[t].key
      /\ \A t : Past(d, t) => Past(e, t)
      /\ \A t \in W : t \in DOMAIN d.tasks /\ d.tasks[t].status = "cancelled"
                        => e.tasks[t].status = "cancelled"
  BY BeforeFacts
<1> QED
  BY <1>1 DEF OnFile

LEMMA AnswerStep ==
  ASSUME PocInv, NEW by \in Flows, NEW ok \in BOOLEAN, Answered(by, ok)
  PROVE  /\ Chain(Withdrawn, disk', Rest(by), mem) /\ Before(Withdrawn, disk, disk')
         /\ Rest(by) \in Seq(SaveRecords)
         /\ Only(Rest(by), "admission", IF by = "admission" THEN {} ELSE AdmissionTexts)
         /\ Only(Rest(by), "stop", IF by = "stop" THEN {} ELSE StopTexts)
         /\ Only(Rest(by), "turn", IF by = "turn" THEN {} ELSE TurnTexts)
         /\ OnFile(disk') /\ storeFailed' \in BOOLEAN
         /\ by = "admission" => AdmissionTexts # {} /\ (ok => disk' \in AdmissionTexts)
         /\ by = "stop" => StopTexts # {} /\ (ok => disk' \in StopTexts)
         /\ by = "turn" => TurnTexts # {} /\ (ok => disk' \in TurnTexts)
<1> DEFINE i == Answering(by)
<1>1. /\ saves \in Seq(SaveRecords) /\ disk \in Stored
      /\ DOMAIN saves = 1..Len(saves) /\ Len(saves) \in Nat
  BY ChainFacts DEF PocInv, ChainHolds
<1>2. i \in Due(by)
  <2>1. Due(by) \subseteq Nat /\ Due(by) # {}
    BY <1>1 DEF Due, Answered
  <2> QED
    BY <2>1, MinExists DEF Answering
<1>3. i \in DOMAIN saves /\ saves[i].by = by /\ (i = 1 \/ saves[i].refused)
  BY <1>2 DEF Due
<1>4. Rest(by) = Without(saves, i)
  BY DEF Rest
<1>5. /\ ok => ~saves[i].refused /\ disk' = saves[i].text
      /\ ~ok => disk' = disk
      /\ storeFailed' = (storeFailed \/ ~ok)
  BY DEF Answered
<1> HIDE DEF i
<1>6. disk' = disk \/ (i = 1 /\ disk' = saves[1].text)
  BY <1>3, <1>5
<1>7. Chain(Withdrawn, disk', Rest(by), mem) /\ Before(Withdrawn, disk, disk')
  BY <1>3, <1>4, <1>6, ChainAnswered DEF PocInv, ChainHolds
<1>8. disk' \in Stored /\ Rest(by) \in Seq(SaveRecords)
  BY <1>7, ChainFacts
<1>9. OnFile(disk')
  <2>1. stopped \subseteq Withdrawn
    BY DEF Withdrawn
  <2> QED
    BY <1>1, <1>7, <1>8, <2>1, OnFileLater DEF PocInv, AnswersHold
<1>10. storeFailed' \in BOOLEAN
  BY <1>5 DEF PocInv, PocTypes
<1>11. ASSUME NEW f, NEW T, Only(saves, f, T)
       PROVE  /\ Only(Rest(by), f, IF by = f THEN {} ELSE T)
              /\ by = f => T # {} /\ (ok => disk' \in T)
  <2>1. /\ Only(Without(saves, i), f, T)
        /\ saves[i].by = f => saves[i].text \in T /\ Only(Without(saves, i), f, {})
    BY <1>1, <1>3, <1>11, OnlyAnswered
  <2> QED
    BY <1>3, <1>4, <1>5, <2>1
<1> QED
  BY <1>7, <1>8, <1>9, <1>10, <1>11 DEF PocInv, WaitsHold

\* A save of the state n is put at the end of the chain q by the flow w.
LEMMA SaveStep ==
  ASSUME NEW W, NEW d, NEW q, NEW m, NEW n, NEW w \in Flows,
         Chain(W, d, q, m), Good(n), Before(W, m, n), storeFailed' \in BOOLEAN
  PROVE  /\ Chain(W, d, Save(q, w, n), n)
         /\ \A f, T : f # w /\ Only(q, f, T) => Only(Save(q, w, n), f, T)
         /\ \A T : Only(q, w, {}) /\ n \in T => Only(Save(q, w, n), w, T)
<1> DEFINE r == [by |-> w, text |-> n, refused |-> storeFailed']
<1>1. r \in SaveRecords /\ r.by = w /\ r.text = n
  BY DEF Good, SaveRecords
<1>2. Save(q, w, n) = Append(q, r)
  BY DEF Save
<1> HIDE DEF r
<1>3. q \in Seq(SaveRecords)
  BY DEF Chain
<1> QED
  BY <1>1, <1>2, <1>3, ChainSaved, OnlyOther, OnlyNew

-----------------------------------------------------------------------------
(* The turn under way.                                                      *)

\* What the active turn tells of the store.
LEMMA ActiveFacts ==
  ASSUME PocInv
  PROVE  /\ Good(mem) /\ mem \in Stored /\ disk \in Stored
         /\ turn.at # "idle" => /\ turn.task \in DOMAIN mem.tasks /\ turn.task \notin Withdrawn
                                /\ mem.tasks[turn.task].status # "queued"
                                /\ ConvOf(mem, turn.task) \in Convs
                                /\ turn.task \in TaskIds /\ service \notin {"down", "booting"}
<1>1. Good(mem) /\ mem \in Stored /\ disk \in Stored
  BY DEF PocInv, ChainHolds, Chain, Good
<1>2. ASSUME turn.at # "idle"
      PROVE  /\ turn.task \in DOMAIN mem.tasks /\ mem.tasks[turn.task].status # "queued"
             /\ turn.task \notin Withdrawn /\ service \notin {"down", "booting"}
  BY <1>2 DEF PocInv, TurnHolds, AnswersHold, Past
<1>3. \A t \in DOMAIN mem.tasks : mem.tasks[t].conv \in Convs /\ t \in 1..MaxTasks
  BY <1>1, StoredFacts DEF Good
<1> QED
  BY <1>1, <1>2, <1>3 DEF ConvOf, TaskIds

\* Nothing is under way when no turn is active, or the active one has ended.
LEMMA NothingRuns ==
  ASSUME PocInv, turn.at \in {"idle", "end"}, service # "down"
  PROVE  \A t \in DOMAIN mem.tasks : mem.tasks[t].status \notin Running
<1>1. turn.at \notin Busy
  BY DEF Busy, Launching
<1> QED
  BY <1>1 DEF PocInv, TurnHolds

\* pump() finds the first turn of the queue, or leaves all as it is.
LEMMA PumpStep ==
  ASSUME PocInv, turn.at \in {"idle", "end"}, service # "down", storeFailed' \in BOOLEAN,
         NEW d, NEW q, Chain(Withdrawn, d, q, mem), Only(q, "turn", {}), OnFile(d), Pump(mem, q)
  PROVE  /\ Chain(Withdrawn, d, saves', mem') /\ mem'.revision = mem.revision
         /\ \A f, T : f # "turn" /\ Only(q, f, T) => Only(saves', f, T)
         /\ turn' = NoTurn => Only(saves', "turn", {})
         /\ turn' # NoTurn =>
               \E t \in DOMAIN mem'.tasks :
                  /\ turn' = [NoTurn EXCEPT !.at = turn'.at, !.task = t]
                  /\ turn'.at \in {"start", "end"} /\ turn'.task = t
                  /\ t \notin Withdrawn /\ t \notin requested
                  /\ Only(saves', "turn", {m \in Stored : Past(m, t)})
                  /\ Past(mem', t)
                  /\ turn'.at = "start" => /\ starts[t] = 0
                                           /\ mem'.conv[ConvOf(mem', t)].ready
                                           /\ mem'.conv[ConvOf(mem', t)].revision = mem'.revision
         /\ \A t \in DOMAIN mem.tasks :
               /\ t \in DOMAIN mem'.tasks
               /\ mem'.tasks[t].status \in Running => turn' # NoTurn /\ turn'.task = t
                                                      /\ turn'.at = "start"
               /\ mem.tasks[t].status # "queued" => mem'.tasks[t].status = mem.tasks[t].status
         /\ DOMAIN mem'.tasks = DOMAIN mem.tasks
<1>1. Good(mem) /\ mem \in Stored /\ d \in Stored
  BY ActiveFacts, ChainFacts
<1>2. \A t \in DOMAIN mem.tasks : mem.tasks[t].status \notin Running
  BY NothingRuns
<1>3. CASE mem' = mem /\ saves' = q /\ turn' = NoTurn
  BY <1>2, <1>3
<1>4. CASE ~(mem' = mem /\ saves' = q /\ turn' = NoTurn)
  <2> DEFINE t == CHOOSE x \in Queued(mem) : \A y \in Queued(mem) : x <= y
             k == ConvOf(mem, t)
  <2>1. Queued(mem) # {}
    BY <1>4 DEF Pump
  <2>2. t \in Queued(mem)
    <3>1. Queued(mem) \subseteq Nat
      BY <1>1, StoredFacts DEF Queued
    <3> QED
      BY <2>1, <3>1, MinExists
  <2>3. /\ mem' = IF ~mem.conv[k].ready THEN SetStatus(mem, t, "failed") ELSE Launched(mem, t)
        /\ saves' = Save(q, "turn", mem')
        /\ turn' = [NoTurn EXCEPT !.at = IF mem.conv[k].ready THEN "start" ELSE "end",
                                  !.task = t]
    BY <1>4 DEF Pump, Launched
  <2> HIDE DEF t
  <2>4. t \in DOMAIN mem.tasks /\ mem.tasks[t].status = "queued"
    BY <2>2 DEF Queued
  <2>5. t \notin Withdrawn
    BY <2>4 DEF PocInv, AnswersHold
  <2>6. starts[t] = 0 /\ t \notin requested
    <3>1. t \in TaskIds
      BY <1>1, <2>4, StoredFacts DEF Good, TaskIds
    <3>2. Past(d, t) => Past(mem, t)
      BY <1>1, BeforeFacts DEF Chain
    <3> QED
      BY <2>4, <3>1, <3>2 DEF OnFile, Past
  <2>7. turn'.task = t /\ turn'.at = (IF mem.conv[k].ready THEN "start" ELSE "end")
        /\ turn' = [NoTurn EXCEPT !.at = turn'.at, !.task = t]
    BY <2>3 DEF NoTurn
  <2>8. turn' # NoTurn
    BY <2>7 DEF NoTurn
  <2>9. /\ Good(mem') /\ Before(Withdrawn, mem, mem') /\ mem'.revision = mem.revision
        /\ DOMAIN mem'.tasks = DOMAIN mem.tasks
        /\ \A x \in DOMAIN mem.tasks :
              mem'.tasks[x].status = IF x # t THEN mem.tasks[x].status
                                     ELSE IF mem.conv[k].ready THEN "running" ELSE "failed"
        /\ mem.conv[k].ready => /\ mem'.conv[ConvOf(mem', t)].ready
                                /\ mem'.conv[ConvOf(mem', t)].revision = mem'.revision
    <3>1. CASE ~mem.conv[k].ready
      <4>1. "failed" \in Statuses /\ "failed" # "queued" /\ "failed" \notin Running
        BY DEF Statuses, Settled, Running
      <4>2. mem' = SetStatus(mem, t, "failed")
        BY <2>3, <3>1
      <4>3. Good(mem') /\ Before(Withdrawn, mem, mem')
        BY <1>1, <2>4, <2>5, <4>1, <4>2, SetStatusGood
      <4>4. /\ mem'.revision = mem.revision /\ DOMAIN mem'.tasks = DOMAIN mem.tasks
            /\ \A x \in DOMAIN mem.tasks :
                  mem'.tasks[x].status = IF x = t THEN "failed" ELSE mem.tasks[x].status
        BY <1>1, <2>4, <4>1, <4>2, SetStatusFacts
      <4> QED
        BY <3>1, <4>3, <4>4
    <3>2. CASE mem.conv[k].ready
      <4> DEFINE l == Launched(mem, t)
      <4>1. mem' = l
        BY <2>3, <3>2
      <4>2. /\ Good(l) /\ Before(Withdrawn, mem, l) /\ l.revision = mem.revision
            /\ DOMAIN l.tasks = DOMAIN mem.tasks
            /\ \A x \in DOMAIN mem.tasks :
                  /\ l.tasks[x].conv = mem.tasks[x].conv
                  /\ l.tasks[x].status = IF x = t THEN "running" ELSE mem.tasks[x].status
            /\ l.conv[k].revision = mem.revision /\ l.conv[k].ready = mem.conv[k].ready
        BY <1>1, <2>2, <2>5, LaunchedFacts
      <4> HIDE DEF l
      <4>3. ConvOf(mem', t) = k
        BY <2>4, <4>1, <4>2 DEF ConvOf
      <4> QED
        BY <3>2, <4>1, <4>2, <4>3
    <3> QED
      BY <3>1, <3>2
  <2> HIDE DEF k
  <2>10. /\ Chain(Withdrawn, d, saves', mem')
         /\ \A f, T : f # "turn" /\ Only(q, f, T) => Only(saves', f, T)
         /\ \A T : mem' \in T => Only(saves', "turn", T)
    <3>1. "turn" \in Flows
      BY DEF Flows
    <3> QED
      BY <2>3, <2>9, <3>1, SaveStep
  <2>11. Past(mem', t) /\ mem' \in Stored
    BY <2>4, <2>9 DEF Past, Good
  <2>12. Only(saves', "turn", {m \in Stored : Past(m, t)})
    BY <2>10, <2>11
  <2>13. \A x \in DOMAIN mem.tasks :
            /\ mem'.tasks[x].status \in Running => x = t /\ mem.conv[k].ready
            /\ mem.tasks[x].status # "queued" => mem'.tasks[x].status = mem.tasks[x].status
    <3>1. "failed" \notin Running
      BY DEF Running
    <3> QED
      BY <1>2, <2>4, <2>9, <3>1
  <2> QED
    BY <2>4, <2>5, <2>6, <2>7, <2>8, <2>9, <2>10, <2>11, <2>12, <2>13
<1> QED
  BY <1>3, <1>4

-----------------------------------------------------------------------------
(* Steps that several actions share.                                        *)

LEMMA SameWithdrawn ==
  ASSUME UNCHANGED <<stop, stopped>>
  PROVE  Withdrawn' = Withdrawn /\ StopTexts' = StopTexts
BY DEF Withdrawn, StopTexts

\* What pump leaves behind, once the file, the chain and the requests are known.
LEMMA PumpHolds ==
  ASSUME PocInv, turn.at \in {"idle", "end"}, service # "down",
         service' \notin {"down", "booting"}, storeFailed' \in BOOLEAN,
         NEW q, Chain(Withdrawn, disk', q, mem), OnFile(disk'), OnFile(disk)',
         Only(q, "turn", {}), Only(q, "admission", AdmissionTexts'), Only(q, "stop", StopTexts),
         Pump(mem, q), UNCHANGED <<stop, stopped, requested, starts, pendingCancel>>
  PROVE  /\ ChainHolds' /\ WaitsHold' /\ AnswersHold' /\ TurnHolds' /\ RunHolds'
         /\ turn' \in Turns
<1> USE DEF None
<1>1. /\ Chain(Withdrawn, disk', saves', mem') /\ mem'.revision = mem.revision
      /\ \A f, T : f # "turn" /\ Only(q, f, T) => Only(saves', f, T)
      /\ turn' = NoTurn => Only(saves', "turn", {})
      /\ turn' # NoTurn =>
            \E t \in DOMAIN mem'.tasks :
               /\ turn' = [NoTurn EXCEPT !.at = turn'.at, !.task = t]
               /\ turn'.at \in {"start", "end"} /\ turn'.task = t
               /\ t \notin Withdrawn /\ t \notin requested
               /\ Only(saves', "turn", {m \in Stored : Past(m, t)})
               /\ Past(mem', t)
               /\ turn'.at = "start" => /\ starts[t] = 0
                                        /\ mem'.conv[ConvOf(mem', t)].ready
                                        /\ mem'.conv[ConvOf(mem', t)].revision = mem'.revision
      /\ \A t \in DOMAIN mem.tasks :
            /\ t \in DOMAIN mem'.tasks
            /\ mem'.tasks[t].status \in Running => turn' # NoTurn /\ turn'.task = t
                                                   /\ turn'.at = "start"
            /\ mem.tasks[t].status # "queued" => mem'.tasks[t].status = mem.tasks[t].status
      /\ DOMAIN mem'.tasks = DOMAIN mem.tasks
  BY PumpStep
<1>2. Withdrawn' = Withdrawn /\ StopTexts' = StopTexts
  BY SameWithdrawn
<1>3. ChainHolds'
  BY <1>1, <1>2 DEF ChainHolds
<1>4. Only(saves', "admission", AdmissionTexts') /\ Only(saves', "stop", StopTexts')
  BY <1>1, <1>2
<1>5. \A t \in Withdrawn : t \in DOMAIN mem'.tasks /\ mem'.tasks[t].status = "cancelled"
  BY <1>1 DEF PocInv, AnswersHold
<1>6. \A t \in Withdrawn : t # 0 /\ starts[t] = 0
  <2>1. mem' \in Stored
    BY <1>1, ChainFacts
  <2>2. DOMAIN mem'.tasks = 1..Len(mem'.tasks)
    BY <2>1, StoredFacts
  <2> QED
    BY <1>5, <2>2 DEF PocInv, AnswersHold
<1>7. CASE turn' = NoTurn
  <2>1. turn'.at = "idle" /\ turn'.task = 0 /\ turn'.resumed = 0
    BY <1>7 DEF NoTurn
  <2>2. TurnTexts' = {}
    BY <2>1 DEF TurnTexts
  <2>3. WaitsHold'
    BY <1>1, <1>4, <1>7, <2>2 DEF WaitsHold
  <2>4. AnswersHold'
    BY <1>2, <1>5, <1>6, <2>1 DEF AnswersHold
  <2>5. TurnHolds'
    BY <1>1, <1>7, <2>1 DEF TurnHolds, Busy, Launching
  <2>6. RunHolds'
    BY <2>1 DEF RunHolds, Launching
  <2>7. turn' \in Turns
    BY <1>7 DEF NoTurn, Turns
  <2> QED
    BY <1>3, <2>3, <2>4, <2>5, <2>6, <2>7
<1>8. CASE turn' # NoTurn
  <2>1. PICK t \in DOMAIN mem'.tasks :
               /\ turn' = [NoTurn EXCEPT !.at = turn'.at, !.task = t]
               /\ turn'.at \in {"start", "end"} /\ turn'.task = t
               /\ t \notin Withdrawn /\ t \notin requested
               /\ Only(saves', "turn", {m \in Stored : Past(m, t)})
               /\ Past(mem', t)
               /\ turn'.at = "start" => /\ starts[t] = 0
                                        /\ mem'.conv[ConvOf(mem', t)].ready
                                        /\ mem'.conv[ConvOf(mem', t)].revision = mem'.revision
    BY <1>1, <1>8
  <2>2. turn'.resumed = 0
    BY <2>1 DEF NoTurn
  <2>3. {m \in Stored : Past(m, t)} \subseteq TurnTexts'
    BY <2>1 DEF TurnTexts
  <2>4. WaitsHold'
    BY <1>4, <2>1, <2>3, OnlyMore DEF WaitsHold
  <2>5. AnswersHold'
    BY <1>2, <1>5, <1>6, <2>1 DEF AnswersHold
  <2>6. TurnHolds'
    <3>1. turn'.at # "idle" /\ turn'.at \notin Busy \ {"start"}
      BY <2>1 DEF Busy, Launching
    <3>2. turn'.at \in Busy => turn'.at = "start"
      BY <2>1 DEF Busy, Launching
    <3>3. turn'.at \in Launching => turn'.at = "start"
      BY <2>1 DEF Launching
    <3>4. "start" \in Busy
      BY DEF Busy, Launching
    <3> QED
      BY <1>1, <2>1, <3>1, <3>2, <3>3, <3>4 DEF TurnHolds
  <2>7. RunHolds'
    BY <2>1, <2>2 DEF RunHolds
  <2>8. turn' \in Turns
    <3>1. t \in Nat
      <4>1. mem' \in Stored
        BY <1>1, ChainFacts
      <4> QED
        BY <4>1, StoredFacts
    <3> DEFINE a == turn'.at
    <3>2. a \in Busy \cup {"idle", "end"}
      BY <2>1 DEF Busy, Launching
    <3>3. turn' = [NoTurn EXCEPT !.at = a, !.task = t]
      BY <2>1
    <3> HIDE DEF a
    <3> QED
      BY <3>1, <3>2, <3>3 DEF NoTurn, Turns
  <2> QED
    BY <1>3, <2>4, <2>5, <2>6, <2>7, <2>8
<1> QED
  BY <1>7, <1>8

\* The service goes down; it leaves what the file (e) says.
LEMMA GoneStep ==
  ASSUME PocInv, Gone(disk'), Good(disk'), OnFile(disk'), UNCHANGED historyVars
  PROVE  PocInv'
<1> USE DEF None
<1>1. /\ service' = "down" /\ mem' = disk' /\ saves' = <<>> /\ storeFailed' = FALSE
      /\ admission' = NoWait /\ stop' = NoWait /\ turn' = NoTurn
      /\ child' = NoChild /\ pendingCancel' = FALSE
  BY DEF Gone
<1>2. UNCHANGED <<acked, stopped, requested, starts>>
  BY DEF historyVars
<1>3. stop'.at = "idle" /\ admission'.at = "idle" /\ turn'.at = "idle" /\ turn'.task = 0
      /\ turn'.resumed = 0
  BY <1>1 DEF NoWait, NoTurn
<1>4. Withdrawn' = stopped
  BY <1>2, <1>3 DEF Withdrawn
<1>5. PocTypes'
  <2>1. NoTurn \in Turns
    BY DEF NoTurn, Turns
  <2> QED
    BY <1>1, <1>2, <2>1 DEF PocInv, PocTypes, NoWait, NoChild, Children
<1>6. ChainHolds'
  <2>1. Before(Withdrawn', disk', disk')
    BY BeforeSelf DEF Good
  <2> QED
    BY <1>1, <2>1, ChainEmptied DEF ChainHolds
<1>7. WaitsHold'
  BY <1>1, OnlyNone DEF WaitsHold
<1>8. AnswersHold'
  <2>1. OnFile(disk)'
    BY <1>2 DEF OnFile
  <2>2. \A t \in stopped : starts[t] = 0 /\ t # 0
    BY DEF PocInv, AnswersHold, Withdrawn, PocTypes, TaskIds
  <2> QED
    BY <1>1, <1>2, <1>3, <1>4, <2>1, <2>2 DEF AnswersHold, OnFile
<1>9. TurnHolds'
  BY <1>1, <1>3 DEF TurnHolds, Busy, Launching
<1>10. RunHolds'
  BY <1>3 DEF RunHolds, Launching
<1> QED
  BY <1>5, <1>6, <1>7, <1>8, <1>9, <1>10 DEF PocInv

\* Only the worker process changes.
LEMMA ChildStep ==
  ASSUME PocInv, UNCHANGED <<service, mem, saves, turn, disk, storeFailed, admission, stop,
                             pendingCancel, historyVars>>,
         child' \in Children,
         child.cancel => child'.cancel
  PROVE  PocInv'
<1>1. UNCHANGED <<acked, stopped, requested, starts>>
  BY DEF historyVars
<1>2. Withdrawn' = Withdrawn /\ StopTexts' = StopTexts
  BY <1>1, SameWithdrawn
<1>3. PocTypes'
  BY <1>1 DEF PocInv, PocTypes
<1>4. ChainHolds'
  BY <1>2 DEF PocInv, ChainHolds
<1>5. WaitsHold'
  BY <1>2 DEF PocInv, WaitsHold, AdmissionTexts, TurnTexts
<1>6. AnswersHold'
  BY <1>1, <1>2 DEF PocInv, AnswersHold, OnFile
<1>7. TurnHolds'
  BY <1>1 DEF PocInv, TurnHolds
<1>8. RunHolds'
  BY <1>1 DEF PocInv, RunHolds
<1> QED
  BY <1>3, <1>4, <1>5, <1>6, <1>7, <1>8 DEF PocInv

\* The turn stays under way: what is left to show of its store.
LEMMA BusyStep ==
  ASSUME PocInv, turn.at \in Busy \ {"start"}, turn'.at \in Busy \ {"start"},
         turn'.task = turn.task, turn'.at \in Launching => turn.at \in Launching /\ mem' = mem,
         Chain(Withdrawn, disk', saves', mem'), Before(Withdrawn, disk, disk'),
         Before(Withdrawn, mem, mem'), OnFile(disk'),
         Only(saves', "admission", AdmissionTexts), Only(saves', "stop", StopTexts),
         Only(saves', "turn", {}),
         \A x \in DOMAIN mem'.tasks : mem'.tasks[x].status \in Running => x = turn.task,
         mem'.conv[ConvOf(mem', turn.task)].revision = mem'.revision,
         UNCHANGED <<service, admission, stop, historyVars>>
  PROVE  ChainHolds' /\ WaitsHold' /\ AnswersHold' /\ TurnHolds'
<1>1. UNCHANGED <<acked, stopped, requested, starts>>
  BY DEF historyVars
<1>2. Withdrawn' = Withdrawn /\ StopTexts' = StopTexts
  BY <1>1, SameWithdrawn
<1>3. ChainHolds'
  BY <1>2 DEF ChainHolds
<1>4. turn'.at \notin {"idle", "start", "end"} /\ turn.at \notin {"idle", "start", "end"}
  BY DEF Busy, Launching
<1>5. WaitsHold'
  BY <1>2, <1>4 DEF WaitsHold, AdmissionTexts, TurnTexts
<1>6. /\ \A t : Past(disk, t) => Past(disk', t)
      /\ \A t : Past(mem, t) => Past(mem', t)
      /\ \A t \in Withdrawn : t \in DOMAIN mem.tasks /\ mem.tasks[t].status = "cancelled"
                    => t \in DOMAIN mem'.tasks /\ mem'.tasks[t].status = "cancelled"
  <2>1. disk \in Stored /\ mem \in Stored /\ disk' \in Stored /\ mem' \in Stored
    BY ActiveFacts, ChainFacts
  <2>2. \A t : Past(disk, t) => Past(disk', t)
    BY <2>1, BeforeFacts
  <2>3. /\ \A t : Past(mem, t) => Past(mem', t)
        /\ \A t \in DOMAIN mem.tasks : t \in DOMAIN mem'.tasks
        /\ \A t \in Withdrawn : t \in DOMAIN mem.tasks /\ mem.tasks[t].status = "cancelled"
                    => mem'.tasks[t].status = "cancelled"
    BY <2>1, BeforeFacts
  <2> QED
    BY <2>2, <2>3
<1>7. AnswersHold'
  <2>1. OnFile(disk)'
    BY <1>1 DEF OnFile
  <2> QED
    BY <1>1, <1>2, <1>6, <2>1 DEF PocInv, AnswersHold
<1>8. TurnHolds'
  <2>1. turn'.at \in Launching => starts[turn.task] = 0 /\ mem.conv[ConvOf(mem, turn.task)].ready
    BY DEF PocInv, TurnHolds
  <2>2. Past(disk', turn.task) /\ Past(mem', turn.task)
    BY <1>4, <1>6 DEF PocInv, TurnHolds
  <2>3. service \notin {"down", "booting"}
    BY <1>4, ActiveFacts
  <2> QED
    BY <1>1, <1>4, <2>1, <2>2, <2>3 DEF TurnHolds
<1> QED
  BY <1>3, <1>5, <1>7, <1>8

\* The status of the active turn moves, and its conversation may end.
LEMMA TurnMoves ==
  ASSUME PocInv, turn.at # "idle", NEW s \in Statuses, s # "queued",
         s \in Running => mem.tasks[turn.task].status \in Running,
         NEW m, m = SetStatus(mem, turn.task, s)
                \/ (s \in {"failed", "cancelled"} /\ m = Lose(mem, turn.task, s))
  PROVE  /\ Good(m) /\ Before(Withdrawn, mem, m) /\ m.revision = mem.revision
         /\ Past(m, turn.task) /\ m.tasks[turn.task].status = s
         /\ DOMAIN m.tasks = DOMAIN mem.tasks
         /\ \A x \in DOMAIN m.tasks : m.tasks[x].status \in Running => x = turn.task /\ turn.at \in Busy
         /\ turn.at \in Busy => m.conv[ConvOf(m, turn.task)].revision = m.revision
         /\ \A x \in DOMAIN mem.tasks : m.tasks[x].status = IF x = turn.task THEN s ELSE mem.tasks[x].status
<1> DEFINE t == turn.task
<1>1. /\ Good(mem) /\ mem \in Stored /\ t \in DOMAIN mem.tasks /\ t \notin Withdrawn
      /\ ConvOf(mem, t) \in Convs /\ service # "down" /\ mem.tasks[t].status # "queued"
  BY ActiveFacts
<1>2. Good(m) /\ Before(Withdrawn, mem, m)
  BY <1>1, SetStatusGood, LoseGood
<1>3. /\ DOMAIN m.tasks = DOMAIN mem.tasks /\ m.revision = mem.revision
      /\ \A x \in DOMAIN mem.tasks :
            /\ m.tasks[x].conv = mem.tasks[x].conv
            /\ m.tasks[x].status = IF x = t THEN s ELSE mem.tasks[x].status
      /\ \A c \in Convs : m.conv[c].revision = mem.conv[c].revision
  <2>1. CASE m = SetStatus(mem, t, s)
    BY <1>1, <2>1, SetStatusFacts
  <2>2. CASE s \in {"failed", "cancelled"} /\ m = Lose(mem, t, s)
    BY <1>1, <2>2, LoseFacts
  <2> QED
    BY <2>1, <2>2
<1>4. ConvOf(m, t) = ConvOf(mem, t)
  BY <1>1, <1>3 DEF ConvOf
<1>5. turn.at \in Busy => m.conv[ConvOf(m, t)].revision = m.revision
  BY <1>1, <1>3, <1>4 DEF PocInv, TurnHolds
<1>6. \A x \in DOMAIN m.tasks : m.tasks[x].status \in Running => x = t /\ turn.at \in Busy
  BY <1>1, <1>3 DEF PocInv, TurnHolds
<1> QED
  BY <1>1, <1>2, <1>3, <1>5, <1>6 DEF Past

-----------------------------------------------------------------------------
(* The beginning, and the service process.                                  *)

LEMMA InitStep == PocInit => PocInv
<1> SUFFICES ASSUME PocInit PROVE PocInv
  OBVIOUS
<1> USE DEF None
<1>1. /\ service = "down" /\ saves = <<>> /\ storeFailed = FALSE /\ disk = mem
      /\ admission = NoWait /\ stop = NoWait /\ turn = NoTurn
      /\ child = NoChild /\ pendingCancel = FALSE
      /\ mem = [tasks |-> <<>>, conv |-> [c \in Convs |-> NoConv], revision |-> 0]
      /\ acked = [k \in Keys |-> {}] /\ stopped = {} /\ requested = {}
      /\ starts = [t \in TaskIds |-> 0]
  BY DEF PocInit
<1>2. stop.at = "idle" /\ admission.at = "idle" /\ turn.at = "idle" /\ turn.task = 0
      /\ turn.resumed = 0
  BY <1>1 DEF NoWait, NoTurn
<1>3. Withdrawn = {}
  BY <1>1, <1>2 DEF Withdrawn
<1>4. PocTypes
  <2>1. NoTurn \in Turns
    BY DEF NoTurn, Turns
  <2>2. acked \in [Keys -> SUBSET TaskIds] /\ starts \in [TaskIds -> Nat]
    BY <1>1
  <2> QED
    BY <1>1, <2>1, <2>2 DEF PocTypes, NoWait, NoChild, Children
<1>5. Good(mem)
  <2> DEFINE f == [c \in Convs |-> NoConv]
             q == <<>>
  <2>1. NoConv \in Conversations /\ NoConv.session = 0
    BY DEF NoConv, Conversations
  <2>2. f \in [Convs -> Conversations] /\ \A c \in Convs : f[c].session = 0
    BY <2>1
  <2>3. q \in Seq(Tasks) /\ Len(q) = 0 /\ DOMAIN q = {}
    BY EmptySeq, LenProperties
  <2>4. mem.tasks = q /\ mem.conv = f
    BY <1>1
  <2> HIDE DEF f, q
  <2>5. mem = [tasks |-> q, conv |-> f, revision |-> 0]
    BY <1>1 DEF f, q
  <2>6. mem \in Stored
    BY <2>2, <2>3, <2>5 DEF Stored, Tasks, Conversations, Statuses
  <2> QED
    BY <2>2, <2>3, <2>4, <2>6 DEF Good
<1>6. DOMAIN mem.tasks = {}
  BY <1>1
<1>7. ChainHolds
  BY <1>1, <1>5, BeforeSelf, ChainEmptied DEF ChainHolds, Good
<1>8. WaitsHold
  BY <1>1, OnlyNone DEF WaitsHold
<1>9. AnswersHold
  BY <1>1, <1>3 DEF AnswersHold, OnFile
<1>10. TurnHolds
  BY <1>1, <1>2 DEF TurnHolds, Busy, Launching
<1>11. RunHolds
  BY <1>2 DEF RunHolds, Launching
<1> QED
  BY <1>4, <1>7, <1>8, <1>9, <1>10, <1>11 DEF PocInv

LEMMA BootStep ==
  ASSUME PocInv, Boot
  PROVE  PocInv'
<1>1. /\ service = "down" /\ service' = "booting" /\ storeFailed' = FALSE
      /\ mem' = Recover(disk) /\ saves' = Save(<<>>, "boot", mem')
      /\ UNCHANGED <<disk, admission, stop, turn, child, pendingCancel>>
      /\ UNCHANGED <<acked, stopped, requested, starts>>
  BY DEF Boot, historyVars
<1>2. turn.at = "idle" /\ admission.at = "idle" /\ stop.at = "idle"
  BY <1>1 DEF PocInv, TurnHolds
<1>3. Withdrawn = stopped /\ Withdrawn' = Withdrawn /\ StopTexts' = StopTexts
  BY <1>1, <1>2, SameWithdrawn DEF Withdrawn
<1>4. Good(disk) /\ disk \in Stored
  BY DEF PocInv, ChainHolds, Chain, Good
<1>5. /\ Good(mem') /\ Before(Withdrawn, disk, mem')
      /\ DOMAIN mem'.tasks = DOMAIN disk.tasks
      /\ \A t \in DOMAIN disk.tasks :
            /\ disk.tasks[t].status \notin Running => mem'.tasks[t].status = disk.tasks[t].status
            /\ mem'.tasks[t].status \notin Running
  BY <1>1, <1>4, RecoverFacts
<1>6. Chain(Withdrawn, disk, saves', mem')
      /\ \A f, T : f # "boot" => Only(saves', f, T)
  <2>1. "boot" \in Flows
    BY DEF Flows
  <2>2. Chain(Withdrawn, disk, <<>>, disk)
    BY <1>4, BeforeSelf, ChainEmptied
  <2>3. storeFailed' \in BOOLEAN
    BY <1>1
  <2> QED
    BY <1>1, <1>5, <2>1, <2>2, <2>3, SaveStep, OnlyNone
<1>7. PocTypes'
  <2>1. storeFailed' \in BOOLEAN /\ service' \in {"down", "booting"}
    BY <1>1
  <2> QED
    BY <1>1, <2>1 DEF PocInv, PocTypes
<1>8. ChainHolds'
  BY <1>1, <1>3, <1>6 DEF ChainHolds
<1>9. WaitsHold'
  BY <1>6 DEF WaitsHold
<1>10. AnswersHold'
  <2>1. "cancelled" \notin Running
    BY DEF Running
  <2>2. \A t \in stopped : t \in DOMAIN mem'.tasks /\ mem'.tasks[t].status = "cancelled"
    BY <1>5, <2>1 DEF PocInv, AnswersHold, OnFile
  <2>3. OnFile(disk)'
    BY <1>1 DEF PocInv, AnswersHold, OnFile
  <2> QED
    BY <1>1, <1>3, <2>2, <2>3 DEF PocInv, AnswersHold
<1>11. TurnHolds'
  BY <1>1, <1>2, <1>5 DEF PocInv, TurnHolds, Busy, Launching
<1>12. RunHolds'
  <2>1. turn.resumed = None
    BY <1>2 DEF PocInv, RunHolds
  <2> QED
    BY <1>1, <1>2, <2>1 DEF RunHolds, Launching
<1> QED
  BY <1>7, <1>8, <1>9, <1>10, <1>11, <1>12 DEF PocInv

LEMMA BootSavedStep ==
  ASSUME PocInv, BootSaved
  PROVE  PocInv'
<1>1. /\ service = "booting" /\ saves # <<>>
      /\ UNCHANGED <<acked, stopped, requested, starts>> /\ UNCHANGED historyVars
  BY DEF BootSaved, historyVars
<1>2. turn.at = "idle" /\ admission.at = "idle" /\ stop.at = "idle"
  BY <1>1 DEF PocInv, TurnHolds
<1>3. CASE Gone(disk) /\ UNCHANGED disk
  <2>1. Gone(disk') /\ Good(disk') /\ OnFile(disk')
    BY <1>3 DEF PocInv, AnswersHold, ChainHolds, Chain
  <2> QED
    BY <1>1, <2>1, GoneStep
<1>4. CASE /\ disk' = Head(saves).text /\ service' = "up" /\ storeFailed' = FALSE
           /\ Pump(mem, <<>>) /\ UNCHANGED <<admission, stop, child, pendingCancel>>
  <2>1. /\ saves \in Seq(SaveRecords) /\ disk \in Stored /\ mem \in Stored
        /\ DOMAIN saves = 1..Len(saves) /\ Len(saves) \in Nat
        /\ \A i \in DOMAIN saves : saves[i].text \in Stored
    BY ChainFacts DEF PocInv, ChainHolds
  <2>2. 1 \in DOMAIN saves /\ disk' = saves[1].text
    BY <1>1, <1>4, <2>1, EmptySeq
  <2>3. Good(disk') /\ Good(mem) /\ Before(Withdrawn, disk, disk') /\ Before(Withdrawn, disk', mem)
    BY <2>2 DEF PocInv, ChainHolds, Chain
  <2>4. Chain(Withdrawn, disk', <<>>, mem)
    BY <2>3, ChainEmptied
  <2>5. OnFile(disk') /\ OnFile(disk)'
    <3>1. stopped \subseteq Withdrawn
      BY DEF Withdrawn
    <3>2. OnFile(disk')
      BY <2>1, <2>2, <2>3, <3>1, OnFileLater DEF PocInv, AnswersHold
    <3> QED
      BY <1>1, <3>2 DEF OnFile
  <2>6. /\ ChainHolds' /\ WaitsHold' /\ AnswersHold' /\ TurnHolds' /\ RunHolds'
        /\ turn' \in Turns
    <3>1. service # "down" /\ service' \notin {"down", "booting"} /\ storeFailed' \in BOOLEAN
          /\ UNCHANGED <<stop, stopped, requested, starts, pendingCancel>>
      BY <1>1, <1>4
    <3>2. Only(<<>>, "turn", {}) /\ Only(<<>>, "admission", AdmissionTexts')
          /\ Only(<<>>, "stop", StopTexts)
      BY OnlyNone
    <3> QED
      BY <1>2, <1>4, <2>4, <2>5, <3>1, <3>2, PumpHolds
  <2>7. PocTypes'
    BY <1>1, <1>4, <2>6 DEF PocInv, PocTypes
  <2> QED
    BY <2>6, <2>7 DEF PocInv
<1> QED
  BY <1>3, <1>4 DEF BootSaved

LEMMA CrashStep ==
  ASSUME PocInv, Crash \/ ShutdownThrows
  PROVE  PocInv'
<1>1. Gone(disk) /\ UNCHANGED disk /\ UNCHANGED historyVars
  BY DEF Crash, ShutdownThrows
<1>2. Gone(disk') /\ Good(disk') /\ OnFile(disk')
  BY <1>1 DEF PocInv, AnswersHold, ChainHolds, Chain
<1> QED
  BY <1>1, <1>2, GoneStep

LEMMA ShutdownStep ==
  ASSUME PocInv, Shutdown
  PROVE  PocInv'
<1>1. /\ service = "up" /\ service' = "stopping"
      /\ UNCHANGED <<mem, saves, admission, stop, turn, disk, storeFailed, child, pendingCancel>>
      /\ UNCHANGED <<acked, stopped, requested, starts>>
  BY DEF Shutdown, serverVars, historyVars
<1>2. Withdrawn' = Withdrawn /\ StopTexts' = StopTexts
  BY <1>1, SameWithdrawn
<1>3. PocTypes'
  BY <1>1 DEF PocInv, PocTypes
<1>4. ChainHolds' /\ WaitsHold'
  BY <1>1, <1>2 DEF PocInv, ChainHolds, WaitsHold, AdmissionTexts, TurnTexts
<1>5. AnswersHold'
  BY <1>1, <1>2 DEF PocInv, AnswersHold, OnFile
<1>6. TurnHolds'
  BY <1>1 DEF PocInv, TurnHolds
<1>7. RunHolds'
  BY <1>1 DEF PocInv, RunHolds
<1> QED
  BY <1>3, <1>4, <1>5, <1>6, <1>7 DEF PocInv

LEMMA ShutdownSavesStep ==
  ASSUME PocInv, ShutdownSaves
  PROVE  PocInv'
<1>1. /\ service = "stopping" /\ service' = "leaving" /\ saves' = Save(saves, "shutdown", mem)
      /\ UNCHANGED <<mem, admission, stop, turn, disk, storeFailed, child, pendingCancel>>
      /\ UNCHANGED <<acked, stopped, requested, starts>>
  BY DEF ShutdownSaves, historyVars
<1>2. Withdrawn' = Withdrawn /\ StopTexts' = StopTexts
  BY <1>1, SameWithdrawn
<1>3. Chain(Withdrawn, disk, saves', mem)
      /\ \A f, T : f # "shutdown" /\ Only(saves, f, T) => Only(saves', f, T)
  <2>1. "shutdown" \in Flows /\ storeFailed' \in BOOLEAN
    BY <1>1 DEF Flows, PocInv, PocTypes
  <2>2. Good(mem) /\ Before(Withdrawn, mem, mem)
    BY ActiveFacts, BeforeSelf
  <2> QED
    BY <1>1, <2>1, <2>2, SaveStep DEF PocInv, ChainHolds
<1>4. PocTypes'
  BY <1>1 DEF PocInv, PocTypes
<1>5. ChainHolds' /\ WaitsHold'
  BY <1>1, <1>2, <1>3 DEF PocInv, ChainHolds, WaitsHold, AdmissionTexts, TurnTexts
<1>6. AnswersHold'
  BY <1>1, <1>2 DEF PocInv, AnswersHold, OnFile
<1>7. TurnHolds'
  BY <1>1 DEF PocInv, TurnHolds
<1>8. RunHolds'
  BY <1>1 DEF PocInv, RunHolds
<1> QED
  BY <1>4, <1>5, <1>6, <1>7, <1>8 DEF PocInv

LEMMA ShutdownEndsStep ==
  ASSUME PocInv, ShutdownEnds
  PROVE  PocInv'
<1>1. PICK i \in Due("shutdown") : disk' = saves[i].text \/ disk' = disk
  BY DEF ShutdownEnds
<1>2. Gone(disk') /\ UNCHANGED historyVars
  BY DEF ShutdownEnds
<1>3. Good(disk') /\ OnFile(disk')
  <2>1. CASE disk' = disk
    BY <2>1 DEF PocInv, AnswersHold, ChainHolds, Chain
  <2>2. CASE disk' = saves[i].text
    <3>1. i \in DOMAIN saves
      BY DEF Due
    <3>2. Good(disk') /\ Before(Withdrawn, disk, disk') /\ Good(disk)
      BY <2>2, <3>1 DEF PocInv, ChainHolds, Chain
    <3>3. stopped \subseteq Withdrawn /\ disk \in Stored /\ disk' \in Stored
      BY <3>2 DEF Withdrawn, Good
    <3> QED
      BY <3>2, <3>3, OnFileLater DEF PocInv, AnswersHold
  <2> QED
    BY <1>1, <2>1, <2>2
<1> QED
  BY <1>2, <1>3, GoneStep

-----------------------------------------------------------------------------
(* Requests.                                                                *)

\* An admission puts the state m into memory, with the turns of before.
LEMMA AdmitStep ==
  ASSUME PocInv, Admitting, UNCHANGED storeFailed, NEW at \in {"task", "other"}, NEW t \in Nat,
         NEW m, Admit(at, t, m), Good(m), Before(Withdrawn, mem, m),
         at = "task" => t \in DOMAIN m.tasks,
         \A x \in DOMAIN mem.tasks : x \in DOMAIN m.tasks /\ m.tasks[x] = mem.tasks[x],
         \A x \in DOMAIN m.tasks : m.tasks[x].status \in Running => x \in DOMAIN mem.tasks,
         turn.at # "idle" => /\ m.revision = mem.revision
                             /\ m.conv[ConvOf(mem, turn.task)].revision
                                  = mem.conv[ConvOf(mem, turn.task)].revision
                             /\ m.conv[ConvOf(mem, turn.task)].ready
                                  = mem.conv[ConvOf(mem, turn.task)].ready
  PROVE  PocInv'
<1>1. /\ service = "up" /\ admission.at = "idle" /\ admission' = [at |-> at, task |-> t]
      /\ mem' = m /\ saves' = Save(saves, "admission", m)
      /\ UNCHANGED <<service, disk, storeFailed, stop, turn, child, pendingCancel>>
      /\ UNCHANGED <<acked, stopped, requested, starts>>
  BY DEF Admitting, Admit, NoWait, historyVars
<1>2. Withdrawn' = Withdrawn /\ StopTexts' = StopTexts
  BY <1>1, SameWithdrawn
<1>3. m \in AdmissionTexts' /\ AdmissionTexts = {}
  <2>1. m \in Stored
    BY DEF Good
  <2> QED
    BY <1>1, <2>1 DEF AdmissionTexts
<1>4. /\ Chain(Withdrawn, disk, saves', m)
      /\ \A f, T : f # "admission" /\ Only(saves, f, T) => Only(saves', f, T)
      /\ Only(saves', "admission", AdmissionTexts')
  <2>1. "admission" \in Flows /\ storeFailed' \in BOOLEAN
    BY <1>1 DEF Flows, PocInv, PocTypes
  <2>2. Only(saves, "admission", {})
    BY <1>3 DEF PocInv, WaitsHold
  <2> QED
    BY <1>1, <1>3, <2>1, <2>2, SaveStep DEF PocInv, ChainHolds
<1>5. PocTypes'
  <2>1. admission' \in [at : {"idle", "task", "other"}, task : Nat]
    BY <1>1
  <2> QED
    BY <1>1, <2>1 DEF PocInv, PocTypes
<1>6. ChainHolds' /\ WaitsHold'
  BY <1>1, <1>2, <1>4 DEF PocInv, ChainHolds, WaitsHold, TurnTexts
<1>7. AnswersHold'
  BY <1>1, <1>2 DEF PocInv, AnswersHold, OnFile
<1>8. turn.at # "idle" => turn.task \in DOMAIN mem.tasks /\ ConvOf(mem, turn.task) = ConvOf(m, turn.task)
  BY ActiveFacts DEF ConvOf
<1>9. "idle" \notin Busy /\ Launching \subseteq Busy
  BY DEF Busy, Launching
<1>10. TurnHolds'
  <2>1. turn.at # "idle" => Past(m, turn.task)
    BY <1>8, ActiveFacts DEF Past
  <2>2. \A x \in DOMAIN m.tasks :
           m.tasks[x].status \in Running => turn.task = x /\ turn.at \in Busy
    BY <1>1 DEF PocInv, TurnHolds
  <2>3. turn.at \in Launching => starts[turn.task] = 0 /\ m.conv[ConvOf(m, turn.task)].ready
    BY <1>8, <1>9 DEF PocInv, TurnHolds
  <2>4. turn.at \in Busy => m.conv[ConvOf(m, turn.task)].revision = m.revision
    BY <1>8, <1>9 DEF PocInv, TurnHolds
  <2>5. /\ turn.at = "idle" => turn.task = None
        /\ turn.at \in Busy \ {"start"} => Past(disk, turn.task)
    BY DEF PocInv, TurnHolds
  <2> QED
    BY <1>1, <2>1, <2>2, <2>3, <2>4, <2>5 DEF TurnHolds
<1>11. RunHolds'
  BY <1>1 DEF PocInv, RunHolds
<1> QED
  BY <1>5, <1>6, <1>7, <1>10, <1>11 DEF PocInv

\* A turn put at the end of the queue, in a conversation that may be new.
Enqueued(m, k, c) ==
  [m EXCEPT
     !.tasks = Append(@, [key |-> k, conv |-> c, status |-> "queued", promoted |-> FALSE]),
     !.conv[c] = IF @.exists THEN @ ELSE [NoConv EXCEPT !.exists = TRUE, !.ready = TRUE]]

LEMMA EnqueuedFacts ==
  ASSUME NEW W, NEW m, Good(m), NEW k \in Keys, NEW c \in Convs, Len(m.tasks) < MaxTasks,
         m.conv[c].exists => ~m.conv[c].archived,
         \A t \in DOMAIN m.tasks : m.tasks[t].key # k
  PROVE  /\ Good(Enqueued(m, k, c)) /\ Before(W, m, Enqueued(m, k, c))
         /\ \A x \in DOMAIN m.tasks : /\ x \in DOMAIN Enqueued(m, k, c).tasks
                                      /\ Enqueued(m, k, c).tasks[x] = m.tasks[x]
         /\ Len(m.tasks) + 1 \in DOMAIN Enqueued(m, k, c).tasks
         /\ \A x \in DOMAIN Enqueued(m, k, c).tasks :
               Enqueued(m, k, c).tasks[x].status \in Running => x \in DOMAIN m.tasks
         /\ Enqueued(m, k, c).revision = m.revision
         /\ \A d \in Convs : m.conv[d].exists => Enqueued(m, k, c).conv[d] = m.conv[d]
<1> USE DEF None
<1> DEFINE r == [key |-> k, conv |-> c, status |-> "queued", promoted |-> FALSE]
           q == Append(m.tasks, r)
           o == [NoConv EXCEPT !.exists = TRUE, !.ready = TRUE]
           v == IF m.conv[c].exists THEN m.conv[c] ELSE o
           f == [m.conv EXCEPT ![c] = v]
           n == Enqueued(m, k, c)
<1>1. /\ m \in Stored /\ m.tasks \in Seq(Tasks) /\ Len(m.tasks) \in Nat
      /\ DOMAIN m.tasks = 1..Len(m.tasks) /\ m.conv \in [Convs -> Conversations]
      /\ \A t \in DOMAIN m.tasks : m.tasks[t].conv \in Convs
  BY StoredFacts DEF Good
<1>2. r \in Tasks /\ r.key = k /\ r.conv = c /\ r.status = "queued"
  BY DEF Tasks, Statuses
<1>3. o \in Conversations /\ o.exists /\ ~o.archived /\ o.session = 0
  <2>1. NoConv \in Conversations /\ NoConv.session = 0 /\ NoConv.archived = FALSE
    BY DEF NoConv, Conversations
  <2> QED
    BY <2>1 DEF Conversations
<1>4. n = [[m EXCEPT !.tasks = q] EXCEPT !.conv = f]
  BY DEF Enqueued
<1> HIDE DEF r, o, n
<1>5. /\ q \in Seq(Tasks) /\ Len(q) = Len(m.tasks) + 1
      /\ DOMAIN q = 1..Len(m.tasks) + 1
      /\ \A x \in DOMAIN m.tasks : q[x] = m.tasks[x]
      /\ q[Len(m.tasks) + 1] = r
  BY <1>1, <1>2, AppendProperties, LenProperties
<1>6. /\ v \in Conversations /\ v.exists /\ ~v.archived
      /\ m.conv[c].exists => v = m.conv[c]
      /\ v.session # None => v.session = v.revision + 1
  BY <1>1, <1>3 DEF Good
<1> HIDE DEF q, v
<1>7. f \in [Convs -> Conversations] /\ \A d \in Convs : f[d] = IF d = c THEN v ELSE m.conv[d]
  BY <1>1, <1>6
<1> HIDE DEF f
<1>8. n \in Stored /\ n.tasks = q /\ n.conv = f /\ n.revision = m.revision
  BY <1>1, <1>4, <1>5, <1>7 DEF Stored, Tasks, Conversations, Statuses
<1>9. \A x \in DOMAIN q : (x \in DOMAIN m.tasks /\ q[x] = m.tasks[x])
                          \/ (x = Len(m.tasks) + 1 /\ q[x] = r)
  BY <1>1, <1>5
<1>10. Before(W, m, n)
  BY <1>1, <1>5, <1>8 DEF Before
<1>11. Good(n)
  <2>1. Len(q) <= MaxTasks
    BY <1>1, <1>5
  <2>2. \A s, t \in DOMAIN q : q[s].key = q[t].key => s = t
    BY <1>2, <1>9 DEF Good
  <2>3. ASSUME NEW t \in DOMAIN q
        PROVE  /\ f[q[t].conv].exists
               /\ q[t].status \in Running \cup {"queued"} => ~f[q[t].conv].archived
    <3>1. CASE t \in DOMAIN m.tasks /\ q[t] = m.tasks[t]
      BY <1>1, <1>6, <1>7, <3>1 DEF Good
    <3>2. CASE q[t] = r
      BY <1>2, <1>6, <1>7, <3>2
    <3> QED
      BY <1>9, <3>1, <3>2
  <2>4. \A d \in Convs : f[d].session # None => f[d].session = f[d].revision + 1
    BY <1>6, <1>7 DEF Good
  <2> QED
    BY <1>8, <2>1, <2>2, <2>3, <2>4 DEF Good
<1>12. \A x \in DOMAIN q : q[x].status \in Running => x \in DOMAIN m.tasks
  <2>1. "queued" \notin Running
    BY DEF Running
  <2> QED
    BY <1>2, <1>9, <2>1
<1>13. \A d \in Convs : m.conv[d].exists => f[d] = m.conv[d]
  BY <1>6, <1>7
<1> QED
  BY <1>1, <1>5, <1>8, <1>10, <1>11, <1>12, <1>13 DEF n

LEMMA PostTaskStep ==
  ASSUME PocInv, NEW k \in Keys, NEW c \in Convs, PostTask(k, c)
  PROVE  PocInv'
<1> DEFINE prior == {t \in DOMAIN mem.tasks : mem.tasks[t].key = k}
<1>1. Admitting /\ UNCHANGED storeFailed
  BY DEF PostTask
<1>2. Good(mem) /\ mem \in Stored /\ Before(Withdrawn, mem, mem)
  BY ActiveFacts, BeforeSelf
<1>3. Len(mem.tasks) \in Nat /\ DOMAIN mem.tasks = 1..Len(mem.tasks)
  BY <1>2, StoredFacts
<1>4. CASE prior # {}
  <2>1. PICK t \in prior : Admit("task", t, mem)
    BY <1>4 DEF PostTask
  <2>2. t \in DOMAIN mem.tasks /\ t \in Nat
    BY <1>3
  <2> QED
    BY <1>1, <1>2, <2>1, <2>2, AdmitStep
<1>5. CASE prior = {}
  <2> DEFINE n == Enqueued(mem, k, c)
             t == Len(mem.tasks) + 1
  <2>1. /\ Len(mem.tasks) < MaxTasks
        /\ mem.conv[c].exists => ~mem.conv[c].archived
        /\ Admit("task", t, n)
    BY <1>5 DEF PostTask, Enqueued
  <2>2. /\ Good(n) /\ Before(Withdrawn, mem, n)
        /\ \A x \in DOMAIN mem.tasks : x \in DOMAIN n.tasks /\ n.tasks[x] = mem.tasks[x]
        /\ t \in DOMAIN n.tasks
        /\ \A x \in DOMAIN n.tasks : n.tasks[x].status \in Running => x \in DOMAIN mem.tasks
        /\ n.revision = mem.revision
        /\ \A d \in Convs : mem.conv[d].exists => n.conv[d] = mem.conv[d]
    <3>1. \A x \in DOMAIN mem.tasks : mem.tasks[x].key # k
      BY <1>5
    <3> QED
      BY <1>2, <2>1, <3>1, EnqueuedFacts
  <2> HIDE DEF n
  <2>3. turn.at # "idle" => n.conv[ConvOf(mem, turn.task)] = mem.conv[ConvOf(mem, turn.task)]
    <3>1. turn.at # "idle" => /\ turn.task \in DOMAIN mem.tasks
                              /\ ConvOf(mem, turn.task) \in Convs
      BY ActiveFacts
    <3>2. turn.at # "idle" => mem.conv[ConvOf(mem, turn.task)].exists
      BY <1>2, <3>1 DEF Good, ConvOf
    <3> QED
      BY <2>2, <3>1, <3>2
  <2>4. t \in Nat
    BY <1>3
  <2> HIDE DEF t
  <2> QED
    BY <1>1, <2>1, <2>2, <2>3, <2>4, AdmitStep
<1> QED
  BY <1>4, <1>5

LEMMA EditProfileStep ==
  ASSUME PocInv, EditProfile
  PROVE  PocInv'
<1> DEFINE n == [mem EXCEPT !.revision = @ + 1]
<1>1. Admitting /\ UNCHANGED storeFailed /\ turn.at = "idle" /\ mem.revision < MaxRevision
      /\ Admit("other", 0, n)
  BY DEF EditProfile, None
<1>2. Good(mem) /\ mem \in Stored
  BY ActiveFacts
<1>3. /\ n \in Stored /\ n.tasks = mem.tasks /\ n.conv = mem.conv
  <2>1. mem.revision + 1 \in 0..MaxRevision
    BY <1>1, <1>2, StoredFacts
  <2> QED
    BY <1>2, <2>1 DEF Stored, Tasks, Conversations, Statuses
<1> HIDE DEF n
<1>4. Good(n)
  BY <1>2, <1>3 DEF Good
<1>5. Before(Withdrawn, mem, n)
  <2>1. Before(Withdrawn, mem, mem)
    BY <1>2, BeforeSelf
  <2> QED
    BY <1>3, <2>1 DEF Before
<1> QED
  BY <1>1, <1>3, <1>4, <1>5, AdmitStep

LEMMA SetArchivedStep ==
  ASSUME PocInv, NEW c \in Convs, NEW a \in BOOLEAN, SetArchived(c, a)
  PROVE  PocInv'
<1> DEFINE n == updateConversation(mem, c, a)
           v == [mem.conv[c] EXCEPT !.archived = a]
           f == [mem.conv EXCEPT ![c] = v]
<1>1. Admitting /\ UNCHANGED storeFailed /\ n # mem /\ Admit("other", 0, n)
  BY DEF SetArchived, None
<1>2. Good(mem) /\ mem \in Stored /\ mem.conv \in [Convs -> Conversations]
  BY ActiveFacts, StoredFacts
<1>3. n = [mem EXCEPT !.conv = f] /\ ~(a /\ Working(mem, c))
  BY <1>1 DEF updateConversation
<1>4. /\ v \in Conversations /\ v.archived = a
      /\ v.exists = mem.conv[c].exists /\ v.ready = mem.conv[c].ready
      /\ v.revision = mem.conv[c].revision /\ v.session = mem.conv[c].session
  BY <1>2 DEF Conversations
<1> HIDE DEF v, n
<1>5. f \in [Convs -> Conversations]
      /\ \A d \in Convs : f[d] = IF d = c THEN v ELSE mem.conv[d]
  BY <1>2, <1>4
<1> HIDE DEF f
<1>6. n \in Stored /\ n.tasks = mem.tasks /\ n.conv = f /\ n.revision = mem.revision
  BY <1>2, <1>3, <1>5 DEF Stored, Tasks, Conversations, Statuses
<1>7. \A d \in Convs : /\ f[d].exists = mem.conv[d].exists /\ f[d].ready = mem.conv[d].ready
                       /\ f[d].revision = mem.conv[d].revision
                       /\ f[d].session = mem.conv[d].session
                       /\ d # c => f[d].archived = mem.conv[d].archived
  BY <1>4, <1>5
<1>8. Good(n)
  <2>1. ASSUME NEW t \in DOMAIN mem.tasks
        PROVE  /\ f[mem.tasks[t].conv].exists
               /\ mem.tasks[t].status \in Running \cup {"queued"}
                    => ~f[mem.tasks[t].conv].archived
    <3>1. mem.tasks[t].conv \in Convs
      BY <1>2, StoredFacts
    <3>2. CASE mem.tasks[t].conv = c
      <4>1. mem.tasks[t].status \in Running \cup {"queued"} => ~a
        BY <1>3, <3>2 DEF Working
      <4> QED
        BY <1>2, <1>4, <1>5, <1>7, <3>1, <3>2, <4>1 DEF Good
    <3>3. CASE mem.tasks[t].conv # c
      BY <1>2, <1>7, <3>1, <3>3 DEF Good
    <3> QED
      BY <3>2, <3>3
  <2> QED
    BY <1>2, <1>6, <1>7, <2>1 DEF Good
<1>9. Before(Withdrawn, mem, n)
  <2>1. Before(Withdrawn, mem, mem)
    BY <1>2, BeforeSelf
  <2> QED
    BY <1>6, <2>1 DEF Before
<1>10. turn.at # "idle" => /\ n.conv[ConvOf(mem, turn.task)].revision
                                = mem.conv[ConvOf(mem, turn.task)].revision
                           /\ n.conv[ConvOf(mem, turn.task)].ready
                                = mem.conv[ConvOf(mem, turn.task)].ready
  BY <1>6, <1>7, ActiveFacts
<1> QED
  BY <1>1, <1>6, <1>8, <1>9, <1>10, AdmitStep

\* POST /api/stop of a turn that is queued, and of the active one.
LEMMA PostStopStep ==
  ASSUME PocInv, NEW t \in TaskIds, PostStop(t)
  PROVE  PocInv'
<1> USE DEF None
<1>1. /\ service \notin {"down", "booting"} /\ stop.at = "idle" /\ t \in DOMAIN mem.tasks
      /\ saves' = Save(saves, "stop", mem')
      /\ UNCHANGED <<service, storeFailed, disk, admission, turn, child, pendingCancel>>
      /\ UNCHANGED <<acked, stopped, requested, starts>>
  BY DEF PostStop, NoWait
<1>2. Good(mem) /\ mem \in Stored /\ disk \in Stored /\ Before(Withdrawn, disk, mem) /\ t \in Nat
  BY ActiveFacts DEF PocInv, ChainHolds, Chain, TaskIds
<1>3. Withdrawn = stopped /\ StopTexts = {}
  BY <1>1 DEF Withdrawn, StopTexts
<1>4. Only(saves, "stop", {}) /\ Only(saves, "admission", AdmissionTexts)
      /\ Only(saves, "turn", TurnTexts)
  BY <1>3 DEF PocInv, WaitsHold
<1>5. "stop" \in Flows /\ storeFailed' \in BOOLEAN
  BY <1>1 DEF Flows, PocInv, PocTypes
<1>6. ASSUME NEW at \in {"queued", "active"}, stop' = [at |-> at, task |-> t]
      PROVE  PocTypes'
  <2>1. stop' \in [at : {"idle", "queued", "active"}, task : Nat]
    BY <1>2, <1>6
  <2> QED
    BY <1>1, <2>1 DEF PocInv, PocTypes
<1>7. CASE /\ mem.tasks[t].status = "queued" /\ mem' = SetStatus(mem, t, "cancelled")
           /\ stop' = [at |-> "queued", task |-> t]
  <2>1. Withdrawn' = Withdrawn \cup {t}
    BY <1>1, <1>3, <1>7 DEF Withdrawn
  <2>2. "cancelled" \in Statuses /\ "cancelled" # "queued" /\ "cancelled" \notin Running
    BY DEF Statuses, Settled, Running
  <2>3. Good(mem') /\ Before(Withdrawn', mem, mem')
    BY <1>1, <1>2, <1>7, <2>2, SetStatusGood
  <2>4. /\ DOMAIN mem'.tasks = DOMAIN mem.tasks /\ mem'.conv = mem.conv
        /\ mem'.revision = mem.revision /\ mem' \in Stored
        /\ \A x \in DOMAIN mem.tasks :
              /\ mem'.tasks[x].conv = mem.tasks[x].conv
              /\ mem'.tasks[x].status = IF x = t THEN "cancelled" ELSE mem.tasks[x].status
    BY <1>1, <1>2, <1>7, <2>2, SetStatusFacts
  <2>5. Chain(Withdrawn', disk, saves, mem)
    BY <1>7, <2>1, ChainGrows DEF PocInv, ChainHolds
  <2>6. mem' \in StopTexts'
    <3>1. stop'.at = "queued" /\ stop'.task = t
      BY <1>7
    <3> QED
      BY <1>1, <2>4, <3>1 DEF StopTexts, Past
  <2>7. /\ Chain(Withdrawn', disk, saves', mem')
        /\ \A f, T : f # "stop" /\ Only(saves, f, T) => Only(saves', f, T)
        /\ Only(saves', "stop", StopTexts')
    BY <1>1, <1>4, <1>5, <2>3, <2>5, <2>6, SaveStep
  <2>8. ChainHolds' /\ WaitsHold'
    BY <1>1, <1>4, <2>7 DEF ChainHolds, WaitsHold, AdmissionTexts, TurnTexts
  <2>9. turn.task # t
    <3>1. CASE turn.at = "idle"
      BY <3>1 DEF PocInv, TurnHolds, TaskIds
    <3>2. CASE turn.at # "idle"
      BY <1>7, <3>2, ActiveFacts
    <3> QED
      BY <3>1, <3>2
  <2>10. starts[t] = 0
    <3>1. Past(disk, t) => Past(mem, t)
      BY <1>2, BeforeFacts
    <3> QED
      BY <1>7, <3>1 DEF PocInv, AnswersHold, OnFile, Past
  <2>11. AnswersHold'
    BY <1>1, <2>1, <2>4, <2>9, <2>10 DEF PocInv, AnswersHold, OnFile
  <2>12. TurnHolds'
    <3>1. turn.at # "idle" => /\ turn.task \in DOMAIN mem.tasks
                              /\ ConvOf(mem', turn.task) = ConvOf(mem, turn.task)
                              /\ Past(mem', turn.task)
      BY <2>4, <2>9, ActiveFacts DEF ConvOf, Past
    <3>2. "idle" \notin Busy /\ Launching \subseteq Busy
      BY DEF Busy, Launching
    <3>3. \A x \in DOMAIN mem'.tasks :
             mem'.tasks[x].status \in Running => turn.task = x /\ turn.at \in Busy
      BY <1>1, <2>2, <2>4 DEF PocInv, TurnHolds
    <3>4. turn.at \in Busy => mem'.conv[ConvOf(mem', turn.task)] = mem.conv[ConvOf(mem, turn.task)]
      BY <2>4, <3>1, <3>2
    <3>5. turn.at \in Launching => starts[turn.task] = 0 /\ mem'.conv[ConvOf(mem', turn.task)].ready
      BY <3>2, <3>4 DEF PocInv, TurnHolds
    <3>6. turn.at \in Busy => mem'.conv[ConvOf(mem', turn.task)].revision = mem'.revision
      BY <2>4, <3>2, <3>4 DEF PocInv, TurnHolds
    <3>7. /\ turn.at = "idle" => turn.task = None
          /\ turn.at \in Busy \ {"start"} => Past(disk, turn.task)
      BY DEF PocInv, TurnHolds
    <3> QED
      BY <1>1, <3>1, <3>3, <3>5, <3>6, <3>7 DEF TurnHolds
  <2>13. RunHolds'
    BY <1>1, <2>4 DEF PocInv, RunHolds
  <2> QED
    BY <1>6, <1>7, <2>8, <2>11, <2>12, <2>13 DEF PocInv
<1>8. CASE /\ turn.at # "idle" /\ turn.task = t /\ mem.tasks[t].status \in Running
           /\ mem' = SetStatus(mem, t, "cancelling") /\ stop' = [at |-> "active", task |-> t]
  <2>1. Withdrawn' = Withdrawn
    BY <1>1, <1>3, <1>8 DEF Withdrawn
  <2>2. "cancelling" \in Statuses /\ "cancelling" # "queued"
    BY DEF Statuses, Running
  <2>3. /\ Good(mem') /\ Before(Withdrawn, mem, mem') /\ mem'.revision = mem.revision
        /\ Past(mem', t) /\ DOMAIN mem'.tasks = DOMAIN mem.tasks
        /\ \A x \in DOMAIN mem'.tasks :
              mem'.tasks[x].status \in Running => x = turn.task /\ turn.at \in Busy
        /\ turn.at \in Busy => mem'.conv[ConvOf(mem', turn.task)].revision = mem'.revision
        /\ \A x \in DOMAIN mem.tasks :
              mem'.tasks[x].status = IF x = t THEN "cancelling" ELSE mem.tasks[x].status
    BY <1>8, <2>2, TurnMoves
  <2>4. mem'.conv = mem.conv /\ ConvOf(mem', t) = ConvOf(mem, t) /\ mem' \in Stored
    BY <1>1, <1>2, <1>8, <2>2, SetStatusFacts DEF ConvOf
  <2>5. mem' \in StopTexts'
    <3>1. stop'.at = "active" /\ stop'.task = t
      BY <1>8
    <3> QED
      BY <2>3, <2>4, <3>1 DEF StopTexts
  <2>6. /\ Chain(Withdrawn, disk, saves', mem')
        /\ \A f, T : f # "stop" /\ Only(saves, f, T) => Only(saves', f, T)
        /\ Only(saves', "stop", StopTexts')
    BY <1>1, <1>4, <1>5, <2>3, <2>5, SaveStep DEF PocInv, ChainHolds
  <2>7. ChainHolds' /\ WaitsHold'
    BY <1>1, <1>4, <2>1, <2>6 DEF ChainHolds, WaitsHold, AdmissionTexts, TurnTexts
  <2>8. AnswersHold'
    <3>1. t \notin Withdrawn
      BY <1>8, ActiveFacts
    <3> QED
      BY <1>1, <2>1, <2>3, <3>1 DEF PocInv, AnswersHold, OnFile
  <2>9. TurnHolds'
    BY <1>1, <1>8, <2>3, <2>4 DEF PocInv, TurnHolds
  <2>10. RunHolds'
    BY <1>1, <2>3 DEF PocInv, RunHolds
  <2> QED
    BY <1>6, <1>8, <2>7, <2>8, <2>9, <2>10 DEF PocInv
<1> QED
  BY <1>7, <1>8 DEF PostStop

-----------------------------------------------------------------------------
(* The runner and its worker.                                               *)

\* The runner's catch and finally, once the file and the chain are known.
LEMMA FinishHolds ==
  ASSUME PocInv, turn.at # "idle", storeFailed' \in BOOLEAN,
         NEW q, Chain(Withdrawn, disk', q, mem), Before(Withdrawn, disk, disk'), OnFile(disk'),
         Only(q, "admission", AdmissionTexts), Only(q, "stop", StopTexts), Only(q, "turn", {}),
         Finish(mem, q), UNCHANGED <<service, admission, stop, historyVars>>
  PROVE  ChainHolds' /\ WaitsHold' /\ AnswersHold' /\ TurnHolds' /\ RunHolds' /\ turn' \in Turns
<1> USE DEF None
<1>1. UNCHANGED <<acked, stopped, requested, starts>>
  BY DEF historyVars
<1>2. Withdrawn' = Withdrawn /\ StopTexts' = StopTexts
  BY <1>1, SameWithdrawn
<1>3. /\ Good(mem) /\ mem \in Stored /\ turn.task \in DOMAIN mem.tasks
      /\ mem.tasks[turn.task].status # "queued" /\ turn.task \notin Withdrawn
      /\ turn.task \in TaskIds /\ service \notin {"down", "booting"}
  BY ActiveFacts
<1>4. /\ mem' = IF mem.tasks[turn.task].status \in Running
                THEN Lose(mem, turn.task, "failed") ELSE mem
      /\ saves' = Save(q, "turn", mem')
      /\ turn' = [NoTurn EXCEPT !.at = "end", !.task = turn.task]
  BY DEF Finish
<1>5. turn'.at = "end" /\ turn'.task = turn.task /\ turn'.resumed = 0
  BY <1>4 DEF NoTurn
<1>6. turn' \in Turns
  <2>1. turn.task \in Nat
    BY DEF PocInv, PocTypes, Turns
  <2> QED
    BY <1>4, <2>1 DEF NoTurn, Turns
<1>7. /\ Good(mem') /\ Before(Withdrawn, mem, mem') /\ mem'.revision = mem.revision
      /\ Past(mem', turn.task) /\ DOMAIN mem'.tasks = DOMAIN mem.tasks
      /\ \A x \in DOMAIN mem'.tasks : mem'.tasks[x].status \notin Running
      /\ \A x \in DOMAIN mem.tasks : x # turn.task => mem'.tasks[x].status = mem.tasks[x].status
  <2>1. CASE mem.tasks[turn.task].status \in Running
    <3>1. "failed" \in Statuses /\ "failed" # "queued" /\ "failed" \notin Running
      BY DEF Statuses, Settled, Running
    <3>2. mem' = Lose(mem, turn.task, "failed")
      BY <1>4, <2>1
    <3>3. /\ Good(mem') /\ Before(Withdrawn, mem, mem') /\ mem'.revision = mem.revision
          /\ Past(mem', turn.task) /\ mem'.tasks[turn.task].status = "failed"
          /\ DOMAIN mem'.tasks = DOMAIN mem.tasks
          /\ \A x \in DOMAIN mem'.tasks : mem'.tasks[x].status \in Running => x = turn.task
          /\ \A x \in DOMAIN mem.tasks :
                mem'.tasks[x].status = IF x = turn.task THEN "failed" ELSE mem.tasks[x].status
      BY <3>1, <3>2, TurnMoves
    <3> QED
      BY <3>1, <3>3
  <2>2. CASE mem.tasks[turn.task].status \notin Running
    <3>1. mem' = mem
      BY <1>4, <2>2
    <3>2. \A x \in DOMAIN mem.tasks : mem.tasks[x].status \notin Running
      BY <1>3, <2>2 DEF PocInv, TurnHolds
    <3> QED
      BY <1>3, <3>1, <3>2, BeforeSelf DEF Past
  <2> QED
    BY <2>1, <2>2
<1>8. /\ Chain(Withdrawn, disk', saves', mem')
      /\ \A f, T : f # "turn" /\ Only(q, f, T) => Only(saves', f, T)
      /\ Only(saves', "turn", TurnTexts')
  <2>1. "turn" \in Flows
    BY DEF Flows
  <2>2. mem' \in TurnTexts'
    BY <1>5, <1>7 DEF TurnTexts, Good
  <2> QED
    BY <1>4, <1>7, <2>1, <2>2, SaveStep
<1>9. ChainHolds' /\ WaitsHold'
  BY <1>2, <1>8 DEF ChainHolds, WaitsHold, AdmissionTexts
<1>10. AnswersHold'
  <2>1. OnFile(disk)'
    BY <1>1 DEF OnFile
  <2> QED
    BY <1>1, <1>2, <1>3, <1>5, <1>7, <2>1 DEF PocInv, AnswersHold
<1>11. TurnHolds'
  BY <1>3, <1>5, <1>7 DEF TurnHolds, Busy, Launching
<1>12. RunHolds'
  BY <1>5 DEF RunHolds, Launching
<1> QED
  BY <1>6, <1>9, <1>10, <1>11, <1>12

\* runTurn's finally ends the turn; it has failed when nothing was reported.
LEMMA FailHolds ==
  ASSUME PocInv, turn.at = "running", storeFailed' \in BOOLEAN, NEW c \in Children,
         NEW q, Chain(Withdrawn, disk', q, mem), Before(Withdrawn, disk, disk'), OnFile(disk'),
         Only(q, "admission", AdmissionTexts), Only(q, "stop", StopTexts), Only(q, "turn", {}),
         FailTurn(c, q), UNCHANGED <<service, admission, stop, historyVars>>
  PROVE  PocInv'
<1>1. UNCHANGED <<acked, stopped, requested, starts>>
  BY DEF historyVars
<1>2. /\ turn' = [turn EXCEPT !.at = turn'.at, !.done = TRUE]
      /\ turn'.at \in {"wedged", "reap"} /\ turn'.task = turn.task
      /\ turn'.resumed = turn.resumed
      /\ pendingCancel' = FALSE /\ child' = c
  <2>1. turn \in Turns
    BY DEF PocInv, PocTypes
  <2> QED
    BY <2>1 DEF FailTurn, Teardown, Turns
<1>3. Good(mem) /\ mem \in Stored
  BY ActiveFacts
<1>4. turn.at \in Busy \ {"start"} /\ turn'.at \in Busy \ {"start"} /\ turn'.at \notin Launching
  BY <1>2 DEF Busy, Launching
<1>5. /\ Chain(Withdrawn, disk', saves', mem') /\ Before(Withdrawn, mem, mem')
      /\ mem'.revision = mem.revision
      /\ Only(saves', "admission", AdmissionTexts) /\ Only(saves', "stop", StopTexts)
      /\ Only(saves', "turn", {})
      /\ \A x \in DOMAIN mem'.tasks : mem'.tasks[x].status \in Running => x = turn.task
      /\ mem'.conv[ConvOf(mem', turn.task)].revision = mem'.revision
  <2>1. CASE turn.terminal
    <3>1. mem' = mem /\ saves' = q
      BY <2>1 DEF FailTurn
    <3>2. service # "down"
      BY <1>4, ActiveFacts
    <3> QED
      BY <1>3, <1>4, <3>1, <3>2, BeforeSelf DEF PocInv, TurnHolds
  <2>2. CASE ~turn.terminal
    <3>1. mem' = Lose(mem, turn.task, "failed") /\ saves' = Save(q, "none", mem')
      BY <2>2 DEF FailTurn
    <3>2. "failed" \in Statuses /\ "failed" # "queued" /\ "failed" \notin Running
          /\ "none" \in Flows
      BY DEF Statuses, Settled, Running, Flows
    <3>3. /\ Good(mem') /\ Before(Withdrawn, mem, mem') /\ mem'.revision = mem.revision
          /\ \A x \in DOMAIN mem'.tasks : mem'.tasks[x].status \in Running => x = turn.task
          /\ mem'.conv[ConvOf(mem', turn.task)].revision = mem'.revision
      BY <1>4, <3>1, <3>2, TurnMoves
    <3>4. /\ Chain(Withdrawn, disk', saves', mem')
          /\ \A f, T : f # "none" /\ Only(q, f, T) => Only(saves', f, T)
      BY <3>1, <3>2, <3>3, SaveStep
    <3> QED
      BY <3>3, <3>4
  <2> QED
    BY <2>1, <2>2
<1>6. ChainHolds' /\ WaitsHold' /\ AnswersHold' /\ TurnHolds'
  BY <1>2, <1>4, <1>5, BusyStep
<1>7. RunHolds'
  BY <1>2, <1>5 DEF PocInv, RunHolds, Launching
<1>8. PocTypes'
  <2> DEFINE a == turn'.at
  <2>1. a \in Busy \cup {"idle", "end"} /\ turn' = [turn EXCEPT !.at = a, !.done = TRUE]
    BY <1>2, <1>4
  <2> HIDE DEF a
  <2>2. turn' \in Turns
    BY <2>1 DEF PocInv, PocTypes, Turns
  <2>3. pendingCancel' \in BOOLEAN /\ child' \in Children
    BY <1>2
  <2> QED
    BY <1>1, <2>2, <2>3 DEF PocInv, PocTypes
<1> QED
  BY <1>6, <1>7, <1>8 DEF PocInv

\* The handshake or the turn is over without a word about its outcome, or the
\* turn has settled.
LEMMA TeardownHolds ==
  ASSUME PocInv, turn.at \in {"hello", "running"}, storeFailed' \in BOOLEAN,
         NEW c \in Children, NEW d \in BOOLEAN, Teardown(c, d), mem' = mem,
         Chain(Withdrawn, disk', saves', mem), Before(Withdrawn, disk, disk'), OnFile(disk'),
         Only(saves', "admission", AdmissionTexts), Only(saves', "stop", StopTexts),
         Only(saves', "turn", {}), UNCHANGED <<service, admission, stop, historyVars>>
  PROVE  PocInv'
<1>1. UNCHANGED <<acked, stopped, requested, starts>>
  BY DEF historyVars
<1>2. /\ turn' = [turn EXCEPT !.at = turn'.at, !.done = d]
      /\ turn'.at \in {"wedged", "reap"} /\ turn'.task = turn.task
      /\ turn'.resumed = turn.resumed
      /\ pendingCancel' = FALSE /\ child' = c
  <2>1. turn \in Turns
    BY DEF PocInv, PocTypes
  <2> QED
    BY <2>1 DEF Teardown, Turns
<1>3. mem \in Stored /\ service # "down"
  BY ActiveFacts
<1>4. /\ turn.at \in Busy \ {"start"} /\ turn'.at \in Busy \ {"start"}
      /\ turn'.at \notin Launching
  BY <1>2 DEF Busy, Launching
<1>5. /\ \A x \in DOMAIN mem.tasks : mem.tasks[x].status \in Running => x = turn.task
      /\ mem.conv[ConvOf(mem, turn.task)].revision = mem.revision
  BY <1>3, <1>4 DEF PocInv, TurnHolds
<1>6. Before(Withdrawn, mem, mem')
  BY <1>3, BeforeSelf
<1>7. ChainHolds' /\ WaitsHold' /\ AnswersHold' /\ TurnHolds'
  BY <1>2, <1>4, <1>5, <1>6, BusyStep
<1>8. RunHolds'
  BY <1>2 DEF PocInv, RunHolds, Launching
<1>9. PocTypes'
  <2> DEFINE a == turn'.at
  <2>1. a \in Busy \cup {"idle", "end"} /\ turn' = [turn EXCEPT !.at = a, !.done = d]
    BY <1>2, <1>4
  <2> HIDE DEF a
  <2>2. turn' \in Turns
    BY <2>1 DEF PocInv, PocTypes, Turns
  <2>3. pendingCancel' \in BOOLEAN /\ child' \in Children
    BY <1>2
  <2> QED
    BY <1>1, <2>2, <2>3 DEF PocInv, PocTypes
<1> QED
  BY <1>7, <1>8, <1>9 DEF PocInv

\* The chain and the file of a step that leaves them alone.
LEMMA NothingAnswered ==
  ASSUME PocInv, turn.at \in Busy \ {"start"}, UNCHANGED disk
  PROVE  /\ Chain(Withdrawn, disk', saves, mem) /\ Before(Withdrawn, disk, disk') /\ OnFile(disk')
         /\ Only(saves, "admission", AdmissionTexts) /\ Only(saves, "stop", StopTexts)
         /\ Only(saves, "turn", {})
<1>1. TurnTexts = {}
  BY DEF TurnTexts, Busy, Launching
<1>2. Before(Withdrawn, disk, disk)
  BY ActiveFacts, BeforeSelf
<1> QED
  BY <1>1, <1>2 DEF PocInv, ChainHolds, WaitsHold, AnswersHold

\* A report of the worker is applied and its save is asked for.
LEMMA ReportHolds ==
  ASSUME PocInv, Reporting,
         NEW says \in {"binding", "outcome", "terminated"}, NEW m, Report(says, m),
         Good(m), Before(Withdrawn, mem, m), m.revision = mem.revision,
         \A x \in DOMAIN m.tasks : m.tasks[x].status \in Running => x = turn.task,
         m.conv[ConvOf(m, turn.task)].revision = m.revision,
         turn' \in Turns, turn'.at = "running", turn'.task = turn.task,
         turn'.resumed = turn.resumed
  PROVE  PocInv'
<1>1. /\ turn.at = "running" /\ child' = [child EXCEPT !.says = says]
      /\ mem' = m /\ saves' = Save(saves, "worker", m)
      /\ UNCHANGED <<service, storeFailed, disk, admission, stop, pendingCancel>>
      /\ UNCHANGED historyVars /\ UNCHANGED <<acked, stopped, requested, starts>>
  BY DEF Reporting, Report, historyVars
<1>2. turn.at \in Busy \ {"start"} /\ turn'.at \in Busy \ {"start"} /\ turn'.at \notin Launching
  BY <1>1 DEF Busy, Launching
<1>3. /\ Chain(Withdrawn, disk, saves', m)
      /\ \A f, T : f # "worker" /\ Only(saves, f, T) => Only(saves', f, T)
  <2>1. "worker" \in Flows /\ storeFailed' \in BOOLEAN
    BY <1>1 DEF Flows, PocInv, PocTypes
  <2> QED
    BY <1>1, <2>1, SaveStep DEF PocInv, ChainHolds
<1>4. /\ Only(saves, "admission", AdmissionTexts) /\ Only(saves, "stop", StopTexts)
      /\ Only(saves, "turn", {}) /\ OnFile(disk') /\ Before(Withdrawn, disk, disk')
  BY <1>1, <1>2, NothingAnswered
<1>5. /\ Only(saves', "admission", AdmissionTexts) /\ Only(saves', "stop", StopTexts)
      /\ Only(saves', "turn", {})
  BY <1>3, <1>4
<1>6. ChainHolds' /\ WaitsHold' /\ AnswersHold' /\ TurnHolds'
  BY <1>1, <1>2, <1>3, <1>4, <1>5, BusyStep
<1>7. child' \in Children /\ child'.cancel = child.cancel
  BY <1>1 DEF PocInv, PocTypes, Children
<1>8. RunHolds'
  BY <1>1, <1>2, <1>7 DEF PocInv, RunHolds
<1>9. PocTypes'
  BY <1>1, <1>7 DEF PocInv, PocTypes
<1> QED
  BY <1>6, <1>8, <1>9 DEF PocInv

-----------------------------------------------------------------------------
(* Answered saves.                                                          *)

LEMMA AdmissionSavedStep ==
  ASSUME PocInv, NEW ok \in BOOLEAN, AdmissionSaved(ok)
  PROVE  PocInv'
<1> USE DEF None
<1> DEFINE q == Rest("admission")
           a == admission.task
<1>1. /\ Answered("admission", ok) /\ admission' = NoWait /\ service' = service
      /\ UNCHANGED <<stop, child, pendingCancel, stopped, requested, starts>>
  BY DEF AdmissionSaved
<1>2. /\ Chain(Withdrawn, disk', q, mem) /\ Before(Withdrawn, disk, disk')
      /\ Only(q, "admission", {}) /\ Only(q, "stop", StopTexts) /\ Only(q, "turn", TurnTexts)
      /\ OnFile(disk') /\ storeFailed' \in BOOLEAN
      /\ AdmissionTexts # {} /\ (ok => disk' \in AdmissionTexts)
  <2>1. "admission" \in Flows
    BY DEF Flows
  <2> QED
    BY <1>1, <2>1, AnswerStep
<1> HIDE DEF q
<1>3. admission.at # "idle" /\ service \notin {"down", "booting"}
  BY <1>2 DEF AdmissionTexts, PocInv, TurnHolds
<1>4. /\ disk' \in Stored /\ mem \in Stored /\ Before(Withdrawn, disk', mem)
      /\ Good(disk') /\ Good(mem)
  BY <1>2 DEF Chain, Good
<1>5. ASSUME ok, admission.at = "task"
      PROVE  /\ a \in DOMAIN disk'.tasks /\ a \in DOMAIN mem.tasks /\ a \in TaskIds
             /\ mem.tasks[a].key = disk'.tasks[a].key /\ mem.tasks[a].key \in Keys
  <2>1. a \in DOMAIN disk'.tasks
    BY <1>2, <1>3, <1>5 DEF AdmissionTexts
  <2>2. a \in DOMAIN mem.tasks /\ mem.tasks[a].key = disk'.tasks[a].key
    BY <1>4, <2>1, BeforeFacts
  <2>3. a \in TaskIds /\ mem.tasks[a].key \in Keys
    BY <1>4, <2>2, StoredFacts DEF Good, TaskIds
  <2> QED
    BY <2>1, <2>2, <2>3
<1>6. acked' = IF ok /\ admission.at = "task"
               THEN [acked EXCEPT ![mem.tasks[a].key] = @ \cup {a}] ELSE acked
  BY DEF AdmissionSaved
<1>7. acked' \in [Keys -> SUBSET TaskIds]
      /\ \A k \in Keys : \A t \in acked'[k] : t \in DOMAIN disk'.tasks /\ disk'.tasks[t].key = k
  <2>1. acked \in [Keys -> SUBSET TaskIds]
        /\ \A k \in Keys : \A t \in acked[k] : t \in DOMAIN disk'.tasks /\ disk'.tasks[t].key = k
    BY <1>2 DEF PocInv, PocTypes, OnFile
  <2>2. CASE ok /\ admission.at = "task"
    BY <1>5, <1>6, <2>1, <2>2
  <2>3. CASE ~(ok /\ admission.at = "task")
    BY <1>6, <2>1, <2>3
  <2> QED
    BY <2>2, <2>3
<1>8. OnFile(disk)'
  BY <1>1, <1>2, <1>7 DEF OnFile
<1>9. admission'.at = "idle" /\ admission' \in [at : {"idle", "task", "other"}, task : Nat]
  BY <1>1 DEF NoWait
<1>10. Only(q, "admission", AdmissionTexts')
  BY <1>2, OnlyMore
<1>11. CASE ok /\ admission.at = "task" /\ turn.at = "idle"
  <2>1. Pump(mem, q)
    BY <1>11 DEF AdmissionSaved, q
  <2>2. TurnTexts = {}
    BY <1>11 DEF TurnTexts
  <2>3. ChainHolds' /\ WaitsHold' /\ AnswersHold' /\ TurnHolds' /\ RunHolds' /\ turn' \in Turns
    BY <1>1, <1>2, <1>3, <1>8, <1>10, <1>11, <2>1, <2>2, PumpHolds
  <2>4. PocTypes'
    BY <1>1, <1>2, <1>7, <1>9, <2>3 DEF PocInv, PocTypes
  <2> QED
    BY <2>3, <2>4 DEF PocInv
<1>12. CASE ~(ok /\ admission.at = "task" /\ turn.at = "idle")
  <2>1. saves' = q /\ UNCHANGED <<mem, turn>>
    BY <1>12 DEF AdmissionSaved, q
  <2>2. Withdrawn' = Withdrawn /\ StopTexts' = StopTexts
    BY <1>1, SameWithdrawn
  <2>3. ChainHolds' /\ WaitsHold'
    BY <1>2, <1>10, <2>1, <2>2 DEF ChainHolds, WaitsHold, TurnTexts
  <2>4. AnswersHold'
    BY <1>1, <1>8, <2>1, <2>2 DEF PocInv, AnswersHold
  <2>5. TurnHolds'
    <3>1. \A t : Past(disk, t) => Past(disk', t)
      BY <1>2, <1>4, ActiveFacts, BeforeFacts
    <3> QED
      BY <1>1, <1>3, <2>1, <3>1 DEF PocInv, TurnHolds
  <2>6. RunHolds'
    BY <1>1, <2>1 DEF PocInv, RunHolds
  <2>7. PocTypes'
    BY <1>1, <1>2, <1>7, <1>9, <2>1 DEF PocInv, PocTypes
  <2> QED
    BY <2>3, <2>4, <2>5, <2>6, <2>7 DEF PocInv
<1> QED
  BY <1>11, <1>12

LEMMA StopSavedStep ==
  ASSUME PocInv, NEW ok \in BOOLEAN, StopSaved(ok)
  PROVE  PocInv'
<1> USE DEF None
<1> DEFINE q == Rest("stop")
           s == stop.task
<1>1. /\ Answered("stop", ok) /\ stop' = NoWait /\ saves' = q
      /\ UNCHANGED <<service, mem, admission, turn, acked, starts>>
  BY DEF StopSaved
<1>2. /\ Chain(Withdrawn, disk', q, mem) /\ Before(Withdrawn, disk, disk')
      /\ Only(q, "admission", AdmissionTexts) /\ Only(q, "stop", {}) /\ Only(q, "turn", TurnTexts)
      /\ OnFile(disk') /\ storeFailed' \in BOOLEAN
      /\ StopTexts # {} /\ (ok => disk' \in StopTexts)
  <2>1. "stop" \in Flows
    BY DEF Flows
  <2> QED
    BY <1>1, <2>1, AnswerStep
<1> HIDE DEF q
<1>3. stop.at # "idle" /\ service \notin {"down", "booting"}
  BY <1>2 DEF StopTexts, PocInv, TurnHolds
<1>4. disk' \in Stored /\ disk \in Stored /\ Good(disk')
  BY <1>2, ActiveFacts DEF Chain, Good
<1>5. ok => /\ Past(disk', s) /\ s \in TaskIds
            /\ stop.at = "queued" => disk'.tasks[s].status = "cancelled"
  <2>1. ok => Past(disk', s) /\ (stop.at = "queued" => disk'.tasks[s].status = "cancelled")
    BY <1>2, <1>3 DEF StopTexts
  <2>2. \A t \in DOMAIN disk'.tasks : t \in TaskIds
    BY <1>4, StoredFacts DEF Good, TaskIds
  <2> QED
    BY <2>1, <2>2 DEF Past
<1>6. stopped' = IF ok /\ stop.at = "queued" THEN stopped \cup {s} ELSE stopped
  BY DEF StopSaved
<1>7. stop'.at = "idle" /\ stop' \in [at : {"idle", "queued", "active"}, task : Nat]
  BY <1>1 DEF NoWait
<1>8. Withdrawn' = stopped' /\ Withdrawn' \subseteq Withdrawn
  BY <1>6, <1>7 DEF Withdrawn
<1>9. ChainHolds'
  BY <1>1, <1>2, <1>8, ChainShrinks DEF ChainHolds
<1>10. WaitsHold'
  <2>1. Only(q, "stop", StopTexts')
    BY <1>2, OnlyMore
  <2> QED
    BY <1>1, <1>2, <2>1 DEF WaitsHold, AdmissionTexts, TurnTexts
<1>11. TurnHolds'
  <2>1. \A t : Past(disk, t) => Past(disk', t)
    BY <1>2, <1>4, BeforeFacts
  <2> QED
    BY <1>1, <1>3, <2>1 DEF PocInv, TurnHolds
<1>12. CASE ok /\ stop.at = "active" /\ turn.at # "idle" /\ turn.task = s
  <2>1. CancelActiveTurn /\ requested' = requested \cup {s}
    BY <1>12 DEF StopSaved
  <2>2. /\ child' \in Children /\ pendingCancel' \in BOOLEAN
        /\ turn.at = "running" => child'.cancel
        /\ turn.at # "running" => pendingCancel'
    <3>1. child \in Children /\ pendingCancel \in BOOLEAN
      BY DEF PocInv, PocTypes
    <3>2. CASE turn.at = "running"
      <4>1. child' = [child EXCEPT !.cancel = TRUE] /\ pendingCancel' = pendingCancel
        BY <2>1, <3>2 DEF CancelActiveTurn
      <4>2. child' \in Children /\ child'.cancel
        BY <3>1, <4>1 DEF Children
      <4> QED
        BY <3>1, <3>2, <4>1, <4>2
    <3>3. CASE turn.at # "running"
      BY <2>1, <3>1, <3>3 DEF CancelActiveTurn
    <3> QED
      BY <3>2, <3>3
  <2>3. PocTypes'
    <3>1. requested' \subseteq TaskIds /\ stopped' \subseteq TaskIds
      BY <1>5, <1>6, <1>12, <2>1 DEF PocInv, PocTypes
    <3> QED
      BY <1>1, <1>2, <1>7, <2>2, <3>1 DEF PocInv, PocTypes
  <2>4. OnFile(disk)'
    BY <1>1, <1>2, <1>5, <1>6, <1>12, <2>1 DEF OnFile
  <2>5. RunHolds'
    <3>1. "running" \notin Launching
      BY DEF Launching
    <3> QED
      BY <1>1, <2>2, <3>1 DEF PocInv, RunHolds
  <2>6. AnswersHold'
    BY <1>1, <1>8, <2>4 DEF PocInv, AnswersHold
  <2> QED
    BY <1>9, <1>10, <1>11, <2>3, <2>5, <2>6 DEF PocInv
<1>13. CASE ~(ok /\ stop.at = "active" /\ turn.at # "idle" /\ turn.task = s)
  <2>1. UNCHANGED <<child, pendingCancel, requested>>
    BY <1>13 DEF StopSaved
  <2>2. PocTypes'
    <3>1. requested' \subseteq TaskIds /\ stopped' \subseteq TaskIds
      BY <1>5, <1>6, <2>1 DEF PocInv, PocTypes
    <3> QED
      BY <1>1, <1>2, <1>7, <2>1, <3>1 DEF PocInv, PocTypes
  <2>3. OnFile(disk)'
    <3>1. ok /\ stop.at = "queued" => s \in DOMAIN disk'.tasks /\ disk'.tasks[s].status = "cancelled"
      BY <1>5 DEF Past
    <3> QED
      BY <1>1, <1>2, <1>6, <2>1, <3>1 DEF OnFile
  <2>4. RunHolds'
    BY <1>1, <2>1 DEF PocInv, RunHolds
  <2>5. AnswersHold'
    BY <1>1, <1>8, <2>3 DEF PocInv, AnswersHold
  <2> QED
    BY <1>9, <1>10, <1>11, <2>2, <2>4, <2>5 DEF PocInv
<1> QED
  BY <1>12, <1>13

LEMMA TurnSavedStep ==
  ASSUME PocInv, NEW ok \in BOOLEAN, TurnSaved(ok)
  PROVE  PocInv'
<1> DEFINE q == Rest("turn")
<1>1. /\ turn.at = "start" /\ Answered("turn", ok)
      /\ UNCHANGED <<service, admission, stop, child, pendingCancel>>
      /\ UNCHANGED historyVars /\ UNCHANGED <<acked, stopped, requested, starts>>
  BY DEF TurnSaved, historyVars
<1>2. /\ Chain(Withdrawn, disk', q, mem) /\ Before(Withdrawn, disk, disk')
      /\ Only(q, "admission", AdmissionTexts) /\ Only(q, "stop", StopTexts) /\ Only(q, "turn", {})
      /\ OnFile(disk') /\ storeFailed' \in BOOLEAN
      /\ ok => disk' \in TurnTexts
  <2>1. "turn" \in Flows
    BY DEF Flows
  <2> QED
    BY <1>1, <2>1, AnswerStep
<1>3. Withdrawn' = Withdrawn /\ StopTexts' = StopTexts
  BY <1>1, SameWithdrawn
<1>4. CASE ~ok
  <2>1. Finish(mem, q)
    BY <1>4 DEF TurnSaved
  <2>2. ChainHolds' /\ WaitsHold' /\ AnswersHold' /\ TurnHolds' /\ RunHolds' /\ turn' \in Turns
    BY <1>1, <1>2, <2>1, FinishHolds
  <2>3. PocTypes'
    BY <1>1, <1>2, <2>2 DEF PocInv, PocTypes
  <2> QED
    BY <2>2, <2>3 DEF PocInv
<1>5. CASE ok
  <2>1. saves' = q /\ turn' = [turn EXCEPT !.at = "binding"] /\ mem' = mem
    BY <1>5 DEF TurnSaved
  <2> HIDE DEF q
  <2>2. /\ turn' \in Turns /\ turn'.at = "binding" /\ turn'.task = turn.task
        /\ turn'.resumed = turn.resumed
    <3>1. turn \in Turns /\ "binding" \in Busy
      BY DEF PocInv, PocTypes, Busy, Launching
    <3> QED
      BY <2>1, <3>1 DEF Turns
  <2>3. Past(disk', turn.task)
    BY <1>1, <1>2, <1>5 DEF TurnTexts
  <2>4. PocTypes'
    BY <1>1, <1>2, <2>2 DEF PocInv, PocTypes
  <2>5. ChainHolds'
    BY <1>2, <1>3, <2>1 DEF ChainHolds
  <2>6. WaitsHold'
    <3>1. Only(q, "turn", TurnTexts')
      BY <1>2, OnlyMore
    <3> QED
      BY <1>1, <1>2, <1>3, <2>1, <3>1 DEF WaitsHold, AdmissionTexts
  <2>7. AnswersHold'
    BY <1>1, <1>2, <1>3, <2>1, <2>2 DEF PocInv, AnswersHold, OnFile
  <2>8. "start" \in Launching /\ "binding" \in Launching /\ "start" \in Busy /\ "binding" \in Busy
    BY DEF Launching, Busy
  <2>9. TurnHolds'
    BY <1>1, <2>1, <2>2, <2>3, <2>8 DEF PocInv, TurnHolds
  <2>10. RunHolds'
    BY <1>1, <2>1, <2>2, <2>8 DEF PocInv, RunHolds
  <2> QED
    BY <2>4, <2>5, <2>6, <2>7, <2>9, <2>10 DEF PocInv
<1> QED
  BY <1>4, <1>5

LEMMA TurnEndsStep ==
  ASSUME PocInv, NEW ok \in BOOLEAN, TurnEnds(ok)
  PROVE  PocInv'
<1> DEFINE q == Rest("turn")
<1>1. /\ turn.at = "end" /\ Answered("turn", ok) /\ service' = service
      /\ UNCHANGED <<admission, stop, child, pendingCancel>>
      /\ UNCHANGED <<acked, stopped, requested, starts>>
  BY DEF TurnEnds, historyVars
<1>2. /\ Chain(Withdrawn, disk', q, mem)
      /\ Only(q, "admission", AdmissionTexts) /\ Only(q, "stop", StopTexts) /\ Only(q, "turn", {})
      /\ OnFile(disk') /\ storeFailed' \in BOOLEAN
  <2>1. "turn" \in Flows
    BY DEF Flows
  <2> QED
    BY <1>1, <2>1, AnswerStep
<1>3. Pump(mem, q)
  BY DEF TurnEnds
<1> HIDE DEF q
<1>4. OnFile(disk)'
  BY <1>1, <1>2 DEF OnFile
<1>5. service \notin {"down", "booting"}
  BY <1>1, ActiveFacts
<1>6. AdmissionTexts' = AdmissionTexts
  BY <1>1 DEF AdmissionTexts
<1>7. ChainHolds' /\ WaitsHold' /\ AnswersHold' /\ TurnHolds' /\ RunHolds' /\ turn' \in Turns
  BY <1>1, <1>2, <1>3, <1>4, <1>5, <1>6, PumpHolds
<1>8. PocTypes'
  BY <1>1, <1>2, <1>7 DEF PocInv, PocTypes
<1> QED
  BY <1>7, <1>8 DEF PocInv

\* A save is answered of which no flow but the turn's own report hears.
LEMMA AnsweredOnly ==
  ASSUME PocInv, NEW by \in {"worker", "none"}, NEW ok \in BOOLEAN, Answered(by, ok),
         saves' = Rest(by),
         UNCHANGED <<service, mem, turn, admission, stop, pendingCancel, historyVars>>,
         child' \in Children, child'.cancel = child.cancel
  PROVE  PocInv'
<1>1. UNCHANGED <<acked, stopped, requested, starts>>
  BY DEF historyVars
<1>2. /\ Chain(Withdrawn, disk', saves', mem) /\ Before(Withdrawn, disk, disk')
      /\ Only(saves', "admission", AdmissionTexts) /\ Only(saves', "stop", StopTexts)
      /\ Only(saves', "turn", TurnTexts)
      /\ OnFile(disk') /\ storeFailed' \in BOOLEAN
  <2>1. by \in Flows /\ by \notin {"admission", "stop", "turn"}
    BY DEF Flows
  <2> QED
    BY <2>1, AnswerStep
<1>3. Withdrawn' = Withdrawn /\ StopTexts' = StopTexts
  BY <1>1, SameWithdrawn
<1>4. PocTypes'
  BY <1>1, <1>2 DEF PocInv, PocTypes
<1>5. ChainHolds' /\ WaitsHold'
  BY <1>2, <1>3 DEF ChainHolds, WaitsHold, AdmissionTexts, TurnTexts
<1>6. AnswersHold'
  BY <1>1, <1>2, <1>3 DEF PocInv, AnswersHold, OnFile
<1>7. TurnHolds'
  <2>1. \A t : Past(disk, t) => Past(disk', t)
    BY <1>2, ActiveFacts, ChainFacts, BeforeFacts
  <2> QED
    BY <1>1, <2>1 DEF PocInv, TurnHolds
<1>8. RunHolds'
  BY <1>1 DEF PocInv, RunHolds
<1> QED
  BY <1>4, <1>5, <1>6, <1>7, <1>8 DEF PocInv

LEMMA ReportSavedStep ==
  ASSUME PocInv, NEW ok \in BOOLEAN, ReportSaved(ok)
  PROVE  PocInv'
<1> DEFINE q == Rest("worker")
<1>1. Answered("worker", ok) /\ UNCHANGED <<service, admission, stop, historyVars>>
  BY DEF ReportSaved
<1>2. child \in Children
  BY DEF PocInv, PocTypes
<1>3. /\ Chain(Withdrawn, disk', q, mem) /\ Before(Withdrawn, disk, disk')
      /\ Only(q, "admission", AdmissionTexts) /\ Only(q, "stop", StopTexts)
      /\ Only(q, "turn", TurnTexts)
      /\ OnFile(disk') /\ storeFailed' \in BOOLEAN
  <2>1. "worker" \in Flows
    BY DEF Flows
  <2> QED
    BY <1>1, <2>1, AnswerStep
<1>4. turn.at = "running" => TurnTexts = {}
  BY DEF TurnTexts
<1>5. CASE turn.at # "running" \/ (turn.done /\ ~ok)
  <2>1. saves' = q /\ UNCHANGED <<mem, turn, child, pendingCancel>>
    BY <1>5 DEF ReportSaved
  <2> QED
    BY <1>1, <1>2, <2>1, AnsweredOnly
<1>6. CASE turn.at = "running" /\ turn.done /\ ok
  <2>1. saves' = q /\ Teardown(child, TRUE) /\ mem' = mem
    BY <1>6 DEF ReportSaved
  <2> HIDE DEF q
  <2> QED
    BY <1>1, <1>2, <1>3, <1>4, <1>6, <2>1, TeardownHolds
<1>7. CASE turn.at = "running" /\ ~turn.done /\ ok
  <2>1. /\ saves' = q /\ UNCHANGED <<mem, turn, pendingCancel>>
        /\ child' = [child EXCEPT !.says = IF @ = "binding" THEN "bound" ELSE "reported"]
    BY <1>7 DEF ReportSaved
  <2>2. child' \in Children /\ child'.cancel = child.cancel
    BY <1>2, <2>1 DEF Children
  <2> QED
    BY <1>1, <2>1, <2>2, AnsweredOnly
<1>8. CASE turn.at = "running" /\ ~turn.done /\ ~ok
  <2>1. FailTurn(child, q)
    BY <1>8 DEF ReportSaved
  <2> HIDE DEF q
  <2> QED
    BY <1>1, <1>2, <1>3, <1>4, <1>8, <2>1, FailHolds
<1> QED
  BY <1>5, <1>6, <1>7, <1>8

LEMMA UnawaitedSavedStep ==
  ASSUME PocInv, NEW ok \in BOOLEAN, UnawaitedSaved(ok)
  PROVE  PocInv'
<1>1. /\ Answered("none", ok) /\ saves' = Rest("none")
      /\ UNCHANGED <<service, mem, turn, admission, stop, pendingCancel, historyVars>>
      /\ child' = child
  BY DEF UnawaitedSaved
<1>2. child' \in Children
  BY <1>1 DEF PocInv, PocTypes
<1> QED
  BY <1>1, <1>2, AnsweredOnly

-----------------------------------------------------------------------------
(* Handshake and end of the worker.                                         *)

\* What a step of the handshake needs to show: the session and the stop.
LEMMA HandshakeHolds ==
  ASSUME PocInv, turn.at \in Busy \ {"start"}, turn'.at \in Busy \ {"start"}, turn' \in Turns,
         turn'.task = turn.task, turn'.at \in Launching => turn.at \in Launching,
         UNCHANGED <<service, mem, saves, disk, storeFailed, admission, stop, historyVars>>
  PROVE  ChainHolds' /\ WaitsHold' /\ AnswersHold' /\ TurnHolds'
<1>1. mem \in Stored /\ service # "down" /\ Before(Withdrawn, mem, mem)
  BY ActiveFacts, BeforeSelf DEF Busy, Launching
<1>2. /\ \A x \in DOMAIN mem.tasks : mem.tasks[x].status \in Running => x = turn.task
      /\ mem.conv[ConvOf(mem, turn.task)].revision = mem.revision
  BY <1>1 DEF PocInv, TurnHolds
<1>3. /\ Chain(Withdrawn, disk', saves', mem) /\ Before(Withdrawn, disk, disk') /\ OnFile(disk')
      /\ Only(saves', "admission", AdmissionTexts) /\ Only(saves', "stop", StopTexts)
      /\ Only(saves', "turn", {})
  BY NothingAnswered
<1> QED
  BY <1>1, <1>2, <1>3, BusyStep

LEMMA SpawnStep ==
  ASSUME PocInv, Spawn
  PROVE  PocInv'
<1> USE DEF None
<1> DEFINE k == ConvOf(mem, turn.task)
           s == mem.conv[k].session
<1>1. /\ turn.at = "binding" /\ child' = [NoChild EXCEPT !.state = "up"]
      /\ turn' = [turn EXCEPT !.at = "hello", !.resumed = s]
      /\ UNCHANGED <<service, mem, saves, disk, storeFailed, admission, stop, pendingCancel,
                     historyVars>>
      /\ UNCHANGED <<acked, stopped, requested, starts>>
  BY DEF Spawn, historyVars
<1>2. "binding" \in Busy /\ "hello" \in Busy /\ "binding" \in Launching /\ "hello" \in Launching
  BY DEF Busy, Launching
<1>3. /\ Good(mem) /\ mem \in Stored /\ k \in Convs /\ mem.conv[k].revision = mem.revision
  BY <1>1, <1>2, ActiveFacts DEF PocInv, TurnHolds
<1>4. s \in Nat /\ (s # 0 => s = mem.revision + 1)
  BY <1>3, StoredFacts DEF Good
<1> HIDE DEF s
<1>5. turn' \in Turns /\ turn'.at = "hello" /\ turn'.task = turn.task /\ turn'.resumed = s
  BY <1>1, <1>2, <1>4 DEF PocInv, PocTypes, Turns
<1>6. ChainHolds' /\ WaitsHold' /\ AnswersHold' /\ TurnHolds'
  <2>1. turn.at \in Busy \ {"start"} /\ turn'.at \in Busy \ {"start"}
        /\ (turn'.at \in Launching => turn.at \in Launching)
    BY <1>1, <1>2, <1>5
  <2> QED
    BY <1>1, <1>5, <2>1, HandshakeHolds
<1>7. RunHolds'
  BY <1>1, <1>2, <1>4, <1>5 DEF PocInv, RunHolds
<1>8. PocTypes'
  <2>1. child' \in Children
    BY <1>1 DEF NoChild, Children
  <2> QED
    BY <1>1, <1>5, <2>1 DEF PocInv, PocTypes
<1> QED
  BY <1>6, <1>7, <1>8 DEF PocInv

LEMMA FinishStep ==
  ASSUME PocInv, BindingFails \/ Reaped
  PROVE  PocInv'
<1>1. /\ turn.at \in Busy \ {"start"} /\ turn.at # "idle"
      /\ Finish(mem, saves)
      /\ UNCHANGED <<service, disk, storeFailed, admission, stop, pendingCancel, historyVars>>
      /\ UNCHANGED <<acked, stopped, requested, starts>>
      /\ child' \in {child, NoChild}
  BY DEF BindingFails, Reaped, Busy, Launching, historyVars
<1>2. /\ ChainHolds' /\ WaitsHold' /\ AnswersHold' /\ TurnHolds' /\ RunHolds' /\ turn' \in Turns
  <2>1. storeFailed' \in BOOLEAN
    BY <1>1 DEF PocInv, PocTypes
  <2>2. /\ Chain(Withdrawn, disk', saves, mem) /\ Before(Withdrawn, disk, disk') /\ OnFile(disk')
        /\ Only(saves, "admission", AdmissionTexts) /\ Only(saves, "stop", StopTexts)
        /\ Only(saves, "turn", {})
    BY <1>1, NothingAnswered
  <2> QED
    BY <1>1, <2>1, <2>2, FinishHolds
<1>3. PocTypes'
  <2>1. NoChild \in Children
    BY DEF NoChild, Children
  <2> QED
    BY <1>1, <1>2, <2>1 DEF PocInv, PocTypes
<1> QED
  BY <1>2, <1>3 DEF PocInv

LEMMA HelloStep ==
  ASSUME PocInv, Hello
  PROVE  PocInv'
<1> USE DEF None
<1> DEFINE t == turn.task
<1>1. /\ turn.at = "hello" /\ turn' = [turn EXCEPT !.at = "running"]
      /\ child' = [child EXCEPT !.cancel = pendingCancel] /\ pendingCancel' = FALSE
      /\ starts' = [starts EXCEPT ![t] = @ + 1]
      /\ UNCHANGED <<service, mem, saves, disk, storeFailed, admission, stop, acked, stopped,
                     requested>>
  BY DEF Hello
<1>2. /\ "running" \in Busy /\ "hello" \in Busy /\ "hello" \in Launching /\ "running" \notin Launching
  BY DEF Busy, Launching
<1>3. /\ turn' \in Turns /\ turn'.at = "running" /\ turn'.task = t /\ turn'.resumed = turn.resumed
  BY <1>1, <1>2 DEF PocInv, PocTypes, Turns
<1>4. child' \in Children /\ child'.cancel = pendingCancel
  BY <1>1 DEF PocInv, PocTypes, Children
<1>5. /\ t \in TaskIds /\ starts[t] = 0 /\ t \notin Withdrawn /\ Past(disk, t) /\ starts \in [TaskIds -> Nat]
  BY <1>1, <1>2, ActiveFacts DEF PocInv, TurnHolds, PocTypes
<1>6. starts' \in [TaskIds -> Nat] /\ starts'[t] = 1
      /\ \A u \in TaskIds : u # t => starts'[u] = starts[u]
  BY <1>1, <1>5
<1>7. Withdrawn' = Withdrawn /\ StopTexts' = StopTexts
  BY <1>1, SameWithdrawn
<1>8. PocTypes'
  BY <1>1, <1>3, <1>4, <1>6 DEF PocInv, PocTypes
<1>9. ChainHolds' /\ WaitsHold'
  BY <1>1, <1>3, <1>7 DEF PocInv, ChainHolds, WaitsHold, AdmissionTexts, TurnTexts
<1>10. AnswersHold'
  <2>1. OnFile(disk)'
    BY <1>1, <1>5, <1>6 DEF PocInv, AnswersHold, OnFile
  <2>2. \A u \in Withdrawn : u \in TaskIds
    <3>1. mem \in Stored /\ Len(mem.tasks) <= MaxTasks
      BY ActiveFacts DEF Good
    <3>2. \A u \in DOMAIN mem.tasks : u \in TaskIds
      BY <3>1, StoredFacts DEF TaskIds
    <3> QED
      BY <3>2 DEF PocInv, AnswersHold
  <2> QED
    BY <1>1, <1>3, <1>5, <1>6, <1>7, <2>1, <2>2 DEF PocInv, AnswersHold
<1>11. TurnHolds'
  BY <1>1, <1>2, <1>3, <1>5 DEF PocInv, TurnHolds
<1>12. RunHolds'
  BY <1>1, <1>2, <1>3, <1>4 DEF PocInv, RunHolds
<1> QED
  BY <1>8, <1>9, <1>10, <1>11, <1>12 DEF PocInv

LEMMA HelloTimeoutStep ==
  ASSUME PocInv, HelloTimeout
  PROVE  PocInv'
<1> DEFINE c == [child EXCEPT !.state = "killed"]
<1>1. /\ turn.at = "hello" /\ Teardown(c, FALSE)
      /\ UNCHANGED <<service, mem, saves, disk, storeFailed, admission, stop, historyVars>>
  BY DEF HelloTimeout
<1>2. c \in Children /\ storeFailed' \in BOOLEAN
  BY <1>1 DEF PocInv, PocTypes, Children
<1> HIDE DEF c
<1>3. turn.at \in Busy \ {"start"}
  BY <1>1 DEF Busy, Launching
<1> QED
  BY <1>1, <1>2, <1>3, NothingAnswered, TeardownHolds

LEMMA EndStep ==
  ASSUME PocInv, KillInReap \/ WorkerEnds
  PROVE  PocInv'
<1>1. /\ UNCHANGED <<service, mem, saves, turn, disk, storeFailed, admission, stop,
                     pendingCancel, historyVars>>
      /\ \E s \in {"exited", "killed"} : child' = [child EXCEPT !.state = s]
  BY DEF KillInReap, WorkerEnds
<1>2. child' \in Children /\ child'.cancel = child.cancel
  BY <1>1 DEF PocInv, PocTypes, Children
<1> QED
  BY <1>1, <1>2, ChildStep

LEMMA ExitStep ==
  ASSUME PocInv, ExitEvent \/ SocketCloses
  PROVE  PocInv'
<1> DEFINE c == [child EXCEPT !.exitSeen = TRUE]
<1>1. c \in Children /\ child \in Children /\ c.cancel = child.cancel
  BY DEF PocInv, PocTypes, Children
<1>2. storeFailed' = storeFailed /\ storeFailed' \in BOOLEAN
      /\ UNCHANGED <<service, disk, admission, stop, historyVars>>
  BY DEF ExitEvent, SocketCloses, PocInv, PocTypes
<1>3. ASSUME NEW d \in Children, turn.at = "running", FailTurn(d, saves)
      PROVE  PocInv'
  <2>1. /\ Chain(Withdrawn, disk', saves, mem) /\ Before(Withdrawn, disk, disk') /\ OnFile(disk')
        /\ Only(saves, "admission", AdmissionTexts) /\ Only(saves, "stop", StopTexts)
        /\ Only(saves, "turn", {})
    <3>1. turn.at \in Busy \ {"start"}
      BY <1>3 DEF Busy, Launching
    <3> QED
      BY <1>2, <3>1, NothingAnswered
  <2> QED
    BY <1>2, <1>3, <2>1, FailHolds
<1>4. CASE turn.at = "hello" /\ Teardown(c, FALSE) /\ UNCHANGED <<mem, saves>>
  <2>1. turn.at \in Busy \ {"start"}
    BY <1>4 DEF Busy, Launching
  <2> HIDE DEF c
  <2>2. mem' = mem /\ saves' = saves
    BY <1>4
  <2> QED
    BY <1>1, <1>2, <1>4, <2>1, <2>2, NothingAnswered, TeardownHolds
<1>5. CASE child' = c /\ UNCHANGED <<mem, saves, turn, pendingCancel>>
  BY <1>1, <1>2, <1>5, ChildStep
<1> QED
  BY <1>1, <1>3, <1>4, <1>5 DEF ExitEvent, SocketCloses

-----------------------------------------------------------------------------
(* What the worker reports.                                                 *)

\* A report that leaves every status as it is.
LEMMA StillHolds ==
  ASSUME PocInv, turn.at \in Busy, NEW m, Moves(mem, m, {}), m.revision = mem.revision,
         \A c \in Convs : m.conv[c].revision = mem.conv[c].revision
  PROVE  /\ Good(m) /\ Before(Withdrawn, mem, m)
         /\ \A x \in DOMAIN m.tasks : m.tasks[x].status \in Running => x = turn.task
         /\ m.conv[ConvOf(m, turn.task)].revision = m.revision
<1>1. /\ Good(mem) /\ service # "down" /\ turn.task \in DOMAIN mem.tasks
      /\ ConvOf(mem, turn.task) \in Convs
  BY ActiveFacts DEF Busy, Launching
<1>2. Good(m) /\ Before(Withdrawn, mem, m)
  BY <1>1, MovesGood
<1>3. /\ DOMAIN m.tasks = DOMAIN mem.tasks
      /\ \A x \in DOMAIN mem.tasks : /\ m.tasks[x].status = mem.tasks[x].status
                                     /\ m.tasks[x].conv = mem.tasks[x].conv
  BY DEF Moves
<1>4. ConvOf(m, turn.task) = ConvOf(mem, turn.task)
  BY <1>1, <1>3 DEF ConvOf
<1> QED
  BY <1>1, <1>2, <1>3, <1>4 DEF PocInv, TurnHolds

LEMMA BindSessionStep ==
  ASSUME PocInv, BindSession
  PROVE  PocInv'
<1> USE DEF None
<1> DEFINE k == ConvOf(mem, turn.task)
           s == IF mem.conv[k].session = 0 THEN mem.revision + 1 ELSE mem.conv[k].session
           v == [mem.conv[k] EXCEPT !.session = s]
           f == [mem.conv EXCEPT ![k] = v]
           m == [mem EXCEPT !.conv[ConvOf(mem, turn.task)].session =
                              IF @ = None THEN mem.revision + 1 ELSE @]
<1>1. Reporting /\ Report("binding", m) /\ turn' = turn /\ turn.at = "running"
  BY DEF BindSession, Reporting
<1>2. turn.at \in Busy
  BY <1>1 DEF Busy
<1>3. /\ Good(mem) /\ mem \in Stored /\ k \in Convs /\ mem.conv[k].revision = mem.revision
      /\ mem.conv \in [Convs -> Conversations] /\ mem.revision \in 0..MaxRevision
      /\ mem.conv[k].session \in 0..MaxRevision + 1
  BY <1>1, <1>2, ActiveFacts, StoredFacts DEF PocInv, TurnHolds
<1>4. s \in 0..MaxRevision + 1 /\ (s # 0 => s = mem.conv[k].revision + 1)
  BY <1>3 DEF Good
<1>5. m = [mem EXCEPT !.conv = f]
  BY <1>3
<1> HIDE DEF s, m
<1>6. /\ v \in Conversations
      /\ v.exists = mem.conv[k].exists /\ v.archived = mem.conv[k].archived
      /\ v.revision = mem.conv[k].revision /\ v.session = s
  BY <1>3, <1>4 DEF Conversations
<1> HIDE DEF v, k
<1>7. f \in [Convs -> Conversations] /\ \A c \in Convs : f[c] = IF c = k THEN v ELSE mem.conv[c]
  BY <1>3, <1>6
<1> HIDE DEF f
<1>8. m \in Stored /\ m.tasks = mem.tasks /\ m.conv = f /\ m.revision = mem.revision
  BY <1>3, <1>5, <1>7 DEF Stored, Tasks, Conversations, Statuses
<1>9. \A c \in Convs :
         /\ f[c].exists = mem.conv[c].exists /\ f[c].archived = mem.conv[c].archived
         /\ f[c].revision = mem.conv[c].revision
         /\ f[c].session # 0 => f[c].session = f[c].revision + 1
  BY <1>3, <1>4, <1>6, <1>7 DEF Good
<1>10. Moves(mem, m, {})
  BY <1>8, <1>9 DEF Moves
<1>11. /\ Good(m) /\ Before(Withdrawn, mem, m)
       /\ \A x \in DOMAIN m.tasks : m.tasks[x].status \in Running => x = turn.task
       /\ m.conv[ConvOf(m, turn.task)].revision = m.revision
  BY <1>2, <1>8, <1>9, <1>10, StillHolds
<1>12. turn' \in Turns
  BY <1>1 DEF PocInv, PocTypes
<1> QED
  BY <1>1, <1>8, <1>11, <1>12, ReportHolds

\* The turn record after a report of its end.
LEMMA ReportedTurn ==
  ASSUME PocInv, turn' = [turn EXCEPT !.terminal = TRUE] \/ turn' = [turn EXCEPT !.done = TRUE]
  PROVE  turn' \in Turns /\ turn'.at = turn.at /\ turn'.task = turn.task
         /\ turn'.resumed = turn.resumed
BY DEF PocInv, PocTypes, Turns

LEMMA ReportLostStep ==
  ASSUME PocInv, NEW s \in {"failed", "cancelled"}, ReportLost(s)
  PROVE  PocInv'
<1> DEFINE m == Lose(mem, turn.task, s)
<1>1. Reporting /\ turn.at = "running" /\ turn' = [turn EXCEPT !.terminal = TRUE]
      /\ Report("outcome", m)
  BY DEF ReportLost, Reporting
<1>2. s \in Statuses /\ s # "queued" /\ s \notin Running /\ turn.at \in Busy /\ turn.at # "idle"
  BY <1>1 DEF Statuses, Settled, Running, Busy
<1>3. /\ Good(m) /\ Before(Withdrawn, mem, m) /\ m.revision = mem.revision
      /\ \A x \in DOMAIN m.tasks : m.tasks[x].status \in Running => x = turn.task
      /\ m.conv[ConvOf(m, turn.task)].revision = m.revision
  BY <1>2, TurnMoves
<1> HIDE DEF m
<1> QED
  BY <1>1, <1>3, ReportedTurn, ReportHolds

LEMMA ReportCompletedStep ==
  ASSUME PocInv, ReportCompleted
  PROVE  PocInv'
<1>1. /\ turn.at = "running" /\ child' = [child EXCEPT !.says = "promoting"]
      /\ mem' = SetStatus(mem, turn.task, "completed")
      /\ UNCHANGED <<service, saves, turn, disk, storeFailed, admission, stop, pendingCancel>>
      /\ UNCHANGED historyVars /\ UNCHANGED <<acked, stopped, requested, starts>>
  BY DEF ReportCompleted, Reporting, historyVars
<1>2. /\ "completed" \in Statuses /\ "completed" # "queued" /\ "completed" \notin Running
      /\ turn.at \in Busy \ {"start"} /\ turn.at # "idle" /\ turn.at \notin Launching
  BY <1>1 DEF Statuses, Settled, Running, Busy, Launching
<1>3. /\ Good(mem') /\ Before(Withdrawn, mem, mem') /\ mem'.revision = mem.revision
      /\ \A x \in DOMAIN mem'.tasks : mem'.tasks[x].status \in Running => x = turn.task
      /\ mem'.conv[ConvOf(mem', turn.task)].revision = mem'.revision
  BY <1>1, <1>2, TurnMoves
<1>4. /\ Chain(Withdrawn, disk', saves, mem) /\ Before(Withdrawn, disk, disk') /\ OnFile(disk')
      /\ Only(saves, "admission", AdmissionTexts) /\ Only(saves, "stop", StopTexts)
      /\ Only(saves, "turn", {})
  BY <1>1, <1>2, NothingAnswered
<1>5. Chain(Withdrawn, disk', saves, mem')
  BY <1>3, <1>4, ChainMoves
<1>6. ChainHolds' /\ WaitsHold' /\ AnswersHold' /\ TurnHolds'
  BY <1>1, <1>2, <1>3, <1>4, <1>5, BusyStep
<1>7. child' \in Children /\ child'.cancel = child.cancel
  BY <1>1 DEF PocInv, PocTypes, Children
<1>8. RunHolds'
  BY <1>1, <1>3, <1>7 DEF PocInv, RunHolds
<1>9. PocTypes'
  BY <1>1, <1>7 DEF PocInv, PocTypes
<1> QED
  BY <1>6, <1>8, <1>9 DEF PocInv

LEMMA PromoteWorkspaceStep ==
  ASSUME PocInv, PromoteWorkspace
  PROVE  PocInv'
<1> DEFINE t == turn.task
           r == [mem.tasks[t] EXCEPT !.promoted = TRUE]
           q == [mem.tasks EXCEPT ![t] = r]
           m == [mem EXCEPT !.tasks[turn.task].promoted = TRUE]
<1>1. Reporting /\ turn.at = "running" /\ turn' = [turn EXCEPT !.terminal = TRUE]
      /\ Report("outcome", m)
  BY DEF PromoteWorkspace, Reporting
<1>2. /\ Good(mem) /\ mem \in Stored /\ t \in DOMAIN mem.tasks /\ mem.tasks \in Seq(Tasks)
      /\ Len(mem.tasks) \in Nat /\ DOMAIN mem.tasks = 1..Len(mem.tasks)
      /\ mem.tasks[t] \in Tasks
  BY <1>1, ActiveFacts, StoredFacts
<1>3. /\ r \in Tasks /\ r.key = mem.tasks[t].key /\ r.conv = mem.tasks[t].conv
      /\ r.status = mem.tasks[t].status
  BY <1>2 DEF Tasks
<1>4. m = [mem EXCEPT !.tasks = q]
  OBVIOUS
<1> HIDE DEF r, m
<1>5. /\ q \in Seq(Tasks) /\ Len(q) = Len(mem.tasks) /\ DOMAIN q = DOMAIN mem.tasks
      /\ \A x \in DOMAIN mem.tasks : q[x] = IF x = t THEN r ELSE mem.tasks[x]
  BY <1>2, <1>3, ExceptSeq, LenProperties
<1> HIDE DEF q
<1>6. m \in Stored /\ m.tasks = q /\ m.conv = mem.conv /\ m.revision = mem.revision
  BY <1>2, <1>4, <1>5 DEF Stored, Tasks, Conversations, Statuses
<1>7. \A x \in DOMAIN mem.tasks :
         /\ q[x].key = mem.tasks[x].key /\ q[x].conv = mem.tasks[x].conv
         /\ q[x].status = mem.tasks[x].status
  BY <1>3, <1>5
<1>8. Moves(mem, m, {})
  <2>1. \A c \in Convs :
           mem.conv[c].session # None => mem.conv[c].session = mem.conv[c].revision + 1
    BY <1>2 DEF Good
  <2> QED
    BY <1>5, <1>6, <1>7, <2>1 DEF Moves
<1>9. /\ Good(m) /\ Before(Withdrawn, mem, m)
      /\ \A x \in DOMAIN m.tasks : m.tasks[x].status \in Running => x = turn.task
      /\ m.conv[ConvOf(m, turn.task)].revision = m.revision
  <2>1. turn.at \in Busy
    BY <1>1 DEF Busy
  <2> QED
    BY <1>6, <1>8, <2>1, StillHolds
<1> QED
  BY <1>1, <1>6, <1>9, ReportedTurn, ReportHolds

LEMMA PromoteFailsStep ==
  ASSUME PocInv, PromoteFails
  PROVE  PocInv'
<1>1. /\ turn.at = "running" /\ FailTurn(child, saves)
      /\ UNCHANGED <<service, disk, storeFailed, admission, stop, historyVars>>
  BY DEF PromoteFails, Reporting
<1>2. child \in Children /\ storeFailed' \in BOOLEAN
  BY <1>1 DEF PocInv, PocTypes
<1>3. turn.at \in Busy \ {"start"}
  BY <1>1 DEF Busy, Launching
<1> QED
  BY <1>1, <1>2, <1>3, NothingAnswered, FailHolds

LEMMA ReportTerminatedStep ==
  ASSUME PocInv, NEW cleanupOk \in BOOLEAN, ReportTerminated(cleanupOk)
  PROVE  PocInv'
<1> DEFINE m == IF turn.terminal /\ cleanupOk THEN mem ELSE Lose(mem, turn.task, "failed")
<1>1. Reporting /\ turn.at = "running" /\ turn' = [turn EXCEPT !.done = TRUE]
      /\ Report("terminated", m)
  BY DEF ReportTerminated, Reporting
<1>2. /\ "failed" \in Statuses /\ "failed" # "queued" /\ "failed" \notin Running
      /\ turn.at \in Busy /\ turn.at # "idle"
  BY <1>1 DEF Statuses, Settled, Running, Busy
<1>3. /\ Good(m) /\ Before(Withdrawn, mem, m) /\ m.revision = mem.revision
      /\ \A x \in DOMAIN m.tasks : m.tasks[x].status \in Running => x = turn.task
      /\ m.conv[ConvOf(m, turn.task)].revision = m.revision
  <2>1. CASE turn.terminal /\ cleanupOk
    <3>1. m = mem
      BY <2>1
    <3>2. Good(mem) /\ mem \in Stored /\ service # "down"
      BY <1>2, ActiveFacts
    <3> QED
      BY <1>2, <3>1, <3>2, BeforeSelf DEF PocInv, TurnHolds
  <2>2. CASE ~(turn.terminal /\ cleanupOk)
    <3>1. m = Lose(mem, turn.task, "failed")
      BY <2>2
    <3> HIDE DEF m
    <3> QED
      BY <1>2, <3>1, TurnMoves
  <2> QED
    BY <2>1, <2>2
<1> HIDE DEF m
<1> QED
  BY <1>1, <1>3, ReportedTurn, ReportHolds

-----------------------------------------------------------------------------
(* The theorems.                                                            *)

LEMMA SameStep ==
  ASSUME PocInv, UNCHANGED vars
  PROVE  PocInv'
<1>1. UNCHANGED <<service, mem, saves, turn, disk, storeFailed, admission, stop,
                  pendingCancel, historyVars>> /\ child' = child
  BY DEF vars, serverVars
<1>2. child' \in Children
  BY <1>1 DEF PocInv, PocTypes
<1> QED
  BY <1>1, <1>2, ChildStep

LEMMA InvStep == PocInv /\ [Next]_vars => PocInv'
<1> SUFFICES ASSUME PocInv, [Next]_vars PROVE PocInv'
  OBVIOUS
<1>1. CASE Boot \/ BootSaved \/ Crash
  BY <1>1, BootStep, BootSavedStep, CrashStep
<1>2. CASE Shutdown \/ ShutdownThrows \/ ShutdownSaves \/ ShutdownEnds
  BY <1>2, ShutdownStep, CrashStep, ShutdownSavesStep, ShutdownEndsStep
<1>3. CASE Requests
  BY <1>3, PostTaskStep, EditProfileStep, SetArchivedStep, PostStopStep DEF Requests
<1>4. CASE Storage
  BY <1>4, AdmissionSavedStep, StopSavedStep, TurnSavedStep, ReportSavedStep,
     UnawaitedSavedStep, TurnEndsStep DEF Storage
<1>5. CASE Runner
  BY <1>5, SpawnStep, FinishStep, HelloStep, HelloTimeoutStep, EndStep DEF Runner
<1>6. CASE Worker
  BY <1>6, BindSessionStep, ReportCompletedStep, PromoteWorkspaceStep, PromoteFailsStep,
     ReportLostStep, ReportTerminatedStep DEF Worker
<1>7. CASE Deaths
  BY <1>7, EndStep, ExitStep DEF Deaths
<1>8. CASE UNCHANGED vars
  BY <1>8, SameStep
<1> QED
  BY <1>1, <1>2, <1>3, <1>4, <1>5, <1>6, <1>7, <1>8 DEF Next

\* The invariant holds of every behaviour of the service: the file, the saves
\* and the memory stand in the order they were asked for, and what was answered
\* is in the file (apps/poc/server.mjs, conversations.mjs, supervisor.mjs).
THEOREM ServiceInvariant == Spec => []PocInv
<1>1. PocInit => PocInv
  BY InitStep
<1>2. PocInv /\ [Next]_vars => PocInv'
  BY InvStep
<1> QED
  BY <1>1, <1>2, PTL DEF Spec

\* A request answered 202 is in the file under its key for ever, and no retry
\* has added a second turn to it (conversations.mjs admit and save).
THEOREM AcknowledgedIsKept == Spec => []AcknowledgedKept
<1>1. PocInv => AcknowledgedKept
  <2> SUFFICES ASSUME PocInv, NEW k \in Keys
               PROVE  /\ Cardinality(acked[k]) <= 1
                      /\ \A t \in acked[k] : t \in DOMAIN disk.tasks /\ disk.tasks[t].key = k
    BY DEF AcknowledgedKept
  <2>1. \A t \in acked[k] : t \in DOMAIN disk.tasks /\ disk.tasks[t].key = k
    BY DEF PocInv, AnswersHold, OnFile
  <2>2. \A s, t \in acked[k] : s = t
    BY <2>1 DEF PocInv, ChainHolds, Chain, Good
  <2>3. Cardinality(acked[k]) <= 1
    <3>1. CASE acked[k] = {}
      BY <3>1, FS_EmptySet
    <3>2. CASE acked[k] # {}
      <4>1. PICK t \in acked[k] : TRUE
        BY <3>2
      <4>2. acked[k] = {t}
        BY <2>2, <4>1
      <4>3. Cardinality({t}) = 1
        BY FS_Singleton
      <4> QED
        BY <4>2, <4>3
    <3> QED
      BY <3>1, <3>2
  <2> QED
    BY <2>1, <2>3
<1> QED
  BY <1>1, ServiceInvariant, PTL

\* A turn resumes a provider thread of the current profile or none: an edit of
\* the profile reaches every later turn (server.mjs pump, supervisor.mjs runTurn).
THEOREM SessionIsFresh == Spec => []SessionFresh
<1>1. PocInv => SessionFresh
  BY DEF PocInv, RunHolds, SessionFresh
<1> QED
  BY <1>1, ServiceInvariant, PTL

\* A stop answered {requested: true} is armed, or the worker of its turn has it
\* (server.mjs /api/stop, supervisor.mjs cancelActiveTurn).
THEOREM StopIsKept == Spec => []StopNotLost
<1>1. PocInv => StopNotLost
  BY DEF PocInv, RunHolds, StopNotLost, Launching
<1> QED
  BY <1>1, ServiceInvariant, PTL

\* Only the active turn is ever under way (server.mjs pump).
THEOREM OneTurnAtATime == Spec => []SingleTurn
<1>1. PocInv => SingleTurn
  BY DEF PocInv, TurnHolds, SingleTurn
<1> QED
  BY <1>1, ServiceInvariant, PTL

\* A turn is sent to a worker once, whatever crashes (conversations.mjs openStore).
THEOREM SentOnce == Spec => []StartedOnce
<1>1. PocInv => StartedOnce
  <2> SUFFICES ASSUME PocInv, NEW t \in TaskIds PROVE starts[t] <= 1
    BY DEF StartedOnce
  <2>1. starts[t] = 0 \/ starts[t] = 1
    BY DEF PocInv, AnswersHold, OnFile
  <2> QED
    BY <2>1
<1> QED
  BY <1>1, ServiceInvariant, PTL

\* A turn whose stop was answered {stopped: true} never runs, in this life of
\* the service or in a later one (server.mjs /api/stop).
THEOREM StoppedForGood == Spec => []StoppedNeverStarts
<1>1. PocInv => StoppedNeverStarts
  BY DEF PocInv, AnswersHold, OnFile, Withdrawn, StoppedNeverStarts
<1> QED
  BY <1>1, ServiceInvariant, PTL

\* Work that is queued or under way is in no archived conversation
\* (server.mjs POST /api/conversations, conversations.mjs updateConversation).
THEOREM NoWorkArchived == Spec => []ArchivedIsIdle
<1>1. PocInv => ArchivedIsIdle
  BY DEF PocInv, ChainHolds, Chain, Good, ArchivedIsIdle, Working
<1> QED
  BY <1>1, ServiceInvariant, PTL

\* Only the handshake sends a turn, and its conversation has lost none before
\* (server.mjs pump, conversations.mjs).
THEOREM LostIsNotResumed == Spec => NoTurnAfterLoss
<1> DEFINE Kept == \A t \in TaskIds : starts'[t] > starts[t] => mem.conv[ConvOf(mem, t)].ready
<1>1. PocInv /\ [Next]_vars => [Kept]_vars
  <2> SUFFICES ASSUME PocInv, Next, NEW t \in TaskIds, starts'[t] > starts[t]
               PROVE  mem.conv[ConvOf(mem, t)].ready
    OBVIOUS
  <2>1. starts[t] \in Nat
    BY DEF PocInv, PocTypes
  <2>2. starts' # starts
    BY <2>1
  <2>3. Hello
    <3>1. CASE Boot \/ BootSaved \/ Crash
      BY <2>2, <3>1 DEF Boot, BootSaved, Crash, historyVars
    <3>2. CASE Shutdown \/ ShutdownThrows \/ ShutdownSaves \/ ShutdownEnds
      BY <2>2, <3>2 DEF Shutdown, ShutdownThrows, ShutdownSaves, ShutdownEnds, historyVars
    <3>3. CASE Requests
      BY <2>2, <3>3 DEF Requests, PostTask, EditProfile, SetArchived, PostStop, Admit, historyVars
    <3>4. CASE Storage
      BY <2>2, <3>4 DEF Storage, AdmissionSaved, StopSaved, TurnSaved, ReportSaved,
         UnawaitedSaved, TurnEnds, historyVars
    <3>5. CASE Runner
      BY <2>2, <3>5 DEF Runner, Spawn, BindingFails, HelloTimeout, KillInReap, Reaped, historyVars
    <3>6. CASE Worker
      BY <2>2, <3>6 DEF Worker, BindSession, ReportCompleted, PromoteWorkspace, PromoteFails,
         ReportLost, ReportTerminated, Report, historyVars
    <3>7. CASE Deaths
      BY <2>2, <3>7 DEF Deaths, WorkerEnds, ExitEvent, SocketCloses, historyVars
    <3> QED
      BY <3>1, <3>2, <3>3, <3>4, <3>5, <3>6, <3>7 DEF Next
  <2>4. turn.task = t
    BY <2>1, <2>3 DEF Hello, PocInv, PocTypes
  <2> QED
    BY <2>3, <2>4 DEF Hello, PocInv, TurnHolds, Launching
<1>2. NoTurnAfterLoss <=> [][Kept]_vars
  BY DEF NoTurnAfterLoss
<1> QED
  BY <1>1, <1>2, ServiceInvariant, PTL DEF Spec

=============================================================================
