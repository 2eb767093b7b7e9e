-------------------------- MODULE SharedBrowserProofs --------------------------
(***************************************************************************)
(* Theorems about the shared browser, for every number of inputs, hands,   *)
(* journal lines and failing writes: no picture taken while the screen was *)
(* private reaches the page, a private screen shows none, agent and human  *)
(* never have their hands in the browser at the other's time, and a viewer *)
(* that was cut off stays out.                                             *)
(***************************************************************************)
EXTENDS SharedBrowser, SequenceTheorems, TLAPS

USE JournalAssumption, LinkAssumption, BrowserAssumption

-----------------------------------------------------------------------------
(* The invariant.                                                          *)

Modes == {"agent", "awaiting_approval", "pausing", "human", "resuming", "paused", "cancelled"}
Shots == {"none", "clear", "secret"}
Asked0 == Requests \cup {NoRequest}

Snapshot ==
    [seq: Nat, gen: Nat, mode: Modes, private: BOOLEAN, decision: {"none", "allow", "deny"},
     pending: Nat, scope: Asked0, required: BOOLEAN, dispatched: BOOLEAN, uncertain: BOOLEAN,
     approval: [id: Nat, gen: Nat, req: Asked0, keep: BOOLEAN], requests: SUBSET Requests,
     results: SUBSET [ticket: Nat, req: Asked0],
     resolutions: SUBSET [ticket: Nat, req: Requests, outcome: STRING]]

Operations ==
    [op: {"click", "input", "ready", "state", "observe", "frame"}, gen: Nat,
     who: {"agent", "cmd", "frame", "none"}, ticket: Nat, shot: Shots,
     at: {"queued", "admitted", "acting", "acted", "failing", "observe", "shot"}]

Views == [mode: Modes \cup {"unknown", "unavailable"}, gen: Nat, private: BOOLEAN, shot: Shots]
Orders == {"takeover", "hide", "show", "resume", "disconnect", "input"}
Commands == [op: Orders \cup {"none"}, gen: Nat, reply: Views,
             at: {"idle", "body", "called", "ok", "failed"}]
Refreshes == [at: {"idle", "called", "got"}, got: Views, current: BOOLEAN]
Pages == [mode: Modes \cup {"unknown", "unavailable"}, gen: Nat, private: BOOLEAN,
          screen: Shots, busy: BOOLEAN, stopped: BOOLEAN]
Actors == {"none", "agent", "human"}

\* The process, its link and the browser, and apart from them the two ends.
LinkTypes ==
    /\ mem \in Snapshot /\ ~mem.uncertain /\ dead \in BOOLEAN /\ poisoned \in BOOLEAN
    /\ gen \in Nat
BrowserTypes ==
    /\ LinkTypes
    /\ queue \in Seq(Operations)
    /\ acting \in Actors /\ broken \in BOOLEAN /\ lease \in {"held", "cut"}
    /\ cmd \in Commands /\ view \in Refreshes /\ page \in Pages

\* What an operation in the queue is, and who waits for it.
Fits(o) ==
    /\ o.op = "observe" => o.who = "cmd"
    /\ o.op = "frame" <=> o.who = "frame"
    /\ o.shot # "none" => o.op \in {"frame", "observe"} /\ o.at # "queued"
    /\ o.at = "admitted" => o.ticket # 0
    /\ o.who = "cmd" => cmd.at = "called"
    /\ o.who = "frame" => view.at = "called"

\* A frame allowed before the screen went private bears an older generation.
\* What is observed for a hand-back is seen while the screen is not private.
Discreet(o) ==
    /\ o.op = "observe" => ~mem.private /\ o.shot # "secret"
    /\ o.op = "frame" /\ o.at \in {"observe", "shot"} =>
          /\ o.gen <= mem.gen
          /\ mem.private \/ o.shot = "secret" => o.gen < mem.gen

\* Only the first operation runs, and each who waits does so for one of them.
QueueHolds ==
    /\ \A i \in 1..Len(queue) :
          Fits(queue[i]) /\ Discreet(queue[i]) /\ (i # 1 => queue[i].at = "queued")
    /\ \A i, j \in 1..Len(queue) :
          queue[i].who = queue[j].who /\ queue[i].who \in {"cmd", "frame"} => i = j

\* Input under way is pending in the journal, which nothing but its own
\* settlement clears.
Hand(a, s) ==
    /\ a # "none" => s.pending # 0 /\ s.dispatched
    /\ a = "agent" => s.mode \notin {"human", "resuming"}
    /\ a = "human" => s.mode # "agent"

\* No other operation is admitted meanwhile, nor is its ticket settled.
HandsHold ==
    /\ Hand(acting, mem)
    /\ queue # <<>> /\ Head(queue).at \in {"admitted", "acted"} => acting = "none"

\* What has left the queue was no secret.
PicturesHold ==
    /\ view.got.shot # "secret" /\ cmd.reply.shot # "secret"
    /\ cmd.at = "ok" /\ cmd.reply.shot # "none" => ~mem.private

\* A refresh that is current knows whether the screen is private, since only a
\* command changes that, and a command makes it stale.
PageHolds ==
    /\ page.busy <=> cmd.at # "idle"
    /\ page.busy /\ view.at # "idle" => ~view.current
    /\ view.at # "idle" /\ view.current => view.got.private = mem.private
    /\ view.at = "called" => ~view.got.private
    /\ view.at = "got" /\ view.got.private => view.got.shot = "none"
    /\ cmd.at # "idle" /\ cmd.op \in {"hide", "show"} => page.screen = "none"
    /\ cmd.at # "idle" => cmd.op # "none"
    /\ mem.private => page.screen = "none"

BrowserInv ==
    BrowserTypes /\ QueueHolds /\ HandsHold /\ PicturesHold /\ PageHolds /\ CutOffStays

-----------------------------------------------------------------------------
(* Sequences.                                                              *)

LEMMA TailFacts ==
    ASSUME NEW S, NEW s \in Seq(S), s # <<>>
    PROVE  /\ Len(s) \in Nat \ {0} /\ Head(s) = s[1] /\ s[1] \in S
           /\ Tail(s) \in Seq(S) /\ Len(Tail(s)) = Len(s) - 1
           /\ \A i \in 1..Len(s) - 1 : i + 1 \in 1..Len(s) /\ Tail(s)[i] = s[i + 1]
<1>1. Len(s) \in Nat \ {0}
    BY EmptySeq
<1> QED
    BY <1>1, HeadTailProperties, ElementOfSeq

LEMMA AppendFacts ==
    ASSUME NEW S, NEW s \in Seq(S), NEW e \in S
    PROVE  /\ Append(s, e) \in Seq(S) /\ Len(Append(s, e)) = Len(s) + 1 /\ Len(s) \in Nat
           /\ \A i \in 1..Len(s) : i \in 1..Len(s) + 1 /\ Append(s, e)[i] = s[i]
           /\ Append(s, e)[Len(s) + 1] = e
    BY AppendProperties, LenProperties

\* The head of a sequence, replaced.
LEMMA HeadFacts ==
    ASSUME NEW S, NEW s \in Seq(S), s # <<>>, NEW e \in S
    PROVE  LET t == [s EXCEPT ![1] = e]
           IN  /\ t \in Seq(S) /\ Len(t) = Len(s) /\ t # <<>> /\ t[1] = e /\ Head(t) = e
               /\ \A i \in 1..Len(s) : i # 1 => t[i] = s[i]
<1>1. Len(s) \in Nat \ {0} /\ 1 \in 1..Len(s) /\ DOMAIN s = 1..Len(s)
    BY EmptySeq, LenProperties
<1> DEFINE t == [s EXCEPT ![1] = e]
<1>2. t \in Seq(S) /\ Len(t) = Len(s) /\ t[1] = e /\ \A i \in 1..Len(s) : i # 1 => t[i] = s[i]
    BY <1>1, ExceptSeq
<1> HIDE DEF t
<1>3. t # <<>>
    BY <1>1, <1>2, EmptySeq
<1>4. Head(t) = t[1]
    BY <1>2, <1>3, TailFacts
<1> QED
    BY <1>2, <1>3, <1>4 DEF t

-----------------------------------------------------------------------------
(* A line of the journal.                                                  *)

\* What the queue and the page depend on, from one snapshot to a later one.
Follows(s, t) ==
    /\ t \in Snapshot /\ ~t.uncertain /\ s.gen <= t.gen
    /\ t.private # s.private => s.gen < t.gen

Kept(s, t) == t.private = s.private /\ t.pending = s.pending /\ t.dispatched = s.dispatched

LEMMA BumpedFacts ==
    ASSUME NEW s \in Snapshot
    PROVE  /\ Bumped(s) \in Snapshot /\ Bumped(s).gen = s.gen + 1 /\ Kept(s, Bumped(s))
           /\ Bumped(s).uncertain = s.uncertain /\ Bumped(s).mode = s.mode
<1>1. s.gen \in Nat /\ s.gen + 1 \in Nat
    BY DEF Snapshot
<1>2. Bumped(s) \in Snapshot
    BY <1>1 DEF Bumped, Snapshot
<1> QED
    BY <1>2 DEF Bumped, Snapshot, Kept

LEMMA WrittenFacts ==
    ASSUME NEW s \in Snapshot
    PROVE  /\ Written(s) \in Snapshot /\ Written(s).gen = s.gen /\ Kept(s, Written(s))
           /\ Written(s).uncertain = s.uncertain /\ Written(s).mode = s.mode
<1>1. s.seq \in Nat /\ s.seq + 1 \in Nat
    BY DEF Snapshot
<1>2. Written(s) \in Snapshot
    BY <1>1 DEF Written, Snapshot
<1> QED
    BY <1>2 DEF Written, Snapshot, Kept

LEMMA ClearedFacts ==
    ASSUME NEW s \in Snapshot
    PROVE  /\ Cleared(s) \in Snapshot /\ Cleared(s).gen = s.gen
           /\ Cleared(s).private = s.private /\ ~Cleared(s).dispatched
           /\ Cleared(s).uncertain = s.uncertain /\ Cleared(s).mode = s.mode
<1>1. Cleared(s) \in Snapshot
    BY DEF Cleared, Snapshot, Asked0
<1> QED
    BY <1>1 DEF Cleared, Snapshot

LEMMA NoApprovalType == NoApproval \in [id: Nat, gen: Nat, req: Asked0, keep: BOOLEAN]
    BY DEF NoApproval, Asked0

LEMMA RevokedFacts ==
    ASSUME NEW s \in Snapshot
    PROVE  LET t == revoke_undispatched(s)
           IN  /\ t \in Snapshot /\ t.gen = s.gen /\ t.private = s.private
               /\ t.uncertain = s.uncertain /\ t.mode = s.mode
               /\ s.dispatched => Kept(s, t)
<1> DEFINE t == [s EXCEPT !.approval = NoApproval]
<1>1. t \in Snapshot
    BY NoApprovalType DEF Snapshot
<1>2. /\ t.gen = s.gen /\ t.private = s.private /\ t.uncertain = s.uncertain /\ t.mode = s.mode
      /\ t.dispatched = s.dispatched /\ Kept(s, t)
    BY DEF Snapshot, Kept
<1>3. revoke_undispatched(s) = IF s.dispatched \/ s.uncertain THEN t ELSE Cleared(t)
    BY DEF revoke_undispatched
<1> HIDE DEF t
<1> QED
    BY <1>1, <1>2, <1>3, ClearedFacts

Line(s, c) == Written(Effect(s, c))

LEMMA LineFacts ==
    ASSUME NEW s \in Snapshot, NEW c, Effect(s, c) \in Snapshot
    PROVE  LET e == Effect(s, c)
               t == Line(s, c)
           IN  /\ t \in Snapshot /\ t.gen = e.gen /\ t.private = e.private /\ t.mode = e.mode
               /\ t.pending = e.pending /\ t.dispatched = e.dispatched
               /\ t.uncertain = e.uncertain
    BY WrittenFacts DEF Line, Kept

\* An action is admitted when none is pending, dispatched when it is the one
\* that is, and its settlement clears it.
LEMMA AdmitLine ==
    ASSUME NEW s \in Snapshot, ~s.uncertain, NEW c, c.op = "admit", Permits(s, c)
    PROVE  LET t == Line(s, c)
           IN  Follows(s, t) /\ t.private = s.private /\ t.mode = s.mode
               /\ s.pending = 0 /\ t.pending \in Nat \ {0}
<1> DEFINE E == Effect(s, c)
<1>1. s.seq + 1 \in Nat \ {0} /\ s.pending = 0 /\ s.gen \in Nat
    BY DEF Permits, Snapshot
<1>2. E = [s EXCEPT !.pending = s.seq + 1, !.dispatched = FALSE]
    BY DEF Effect
<1>3. E \in Snapshot
    BY <1>1, <1>2 DEF Snapshot
<1>4. /\ E.gen = s.gen /\ E.private = s.private /\ E.mode = s.mode /\ E.pending = s.seq + 1
      /\ E.uncertain = s.uncertain
    BY <1>2 DEF Snapshot
<1> HIDE DEF E
<1> QED
    BY <1>1, <1>3, <1>4, LineFacts DEF Follows, E

LEMMA DispatchLine ==
    ASSUME NEW s \in Snapshot, ~s.uncertain, NEW c, c.op = "dispatch", c.ticket # 0,
           Permits(s, c)
    PROVE  LET t == Line(s, c)
           IN  Follows(s, t) /\ t.private = s.private /\ Hand(c.actor, t) /\ t.mode = s.mode
<1> DEFINE E == Effect(s, c)
<1>1. s.pending # 0 /\ s.mode = c.actor /\ s.gen \in Nat
    BY DEF Permits, Current, Snapshot
<1>2. E = [s EXCEPT !.dispatched = TRUE]
    BY DEF Effect
<1>3. E \in Snapshot
    BY <1>2 DEF Snapshot
<1>4. /\ E.gen = s.gen /\ E.private = s.private /\ E.mode = s.mode /\ E.pending = s.pending
      /\ E.dispatched = TRUE /\ E.uncertain = s.uncertain
    BY <1>2 DEF Snapshot
<1> HIDE DEF E
<1> QED
    BY <1>1, <1>3, <1>4, LineFacts DEF Follows, Hand, E

LEMMA SettleLine ==
    ASSUME NEW s \in Snapshot, ~s.uncertain, NEW c, c.op = "settle", c.result = FALSE,
           Permits(s, c)
    PROVE  LET t == Line(s, c)
           IN  Follows(s, t) /\ t.private = s.private /\ t.mode = s.mode
<1> DEFINE E == Effect(s, c)
<1>1. E = Cleared(s) /\ s.gen \in Nat
    BY DEF Effect, Snapshot
<1> HIDE DEF E
<1> QED
    BY <1>1, ClearedFacts, LineFacts DEF Follows, E

\* What hands the browser over, or takes it away, leaves input under way as it
\* is: nobody gets the browser before it has settled.
Rest == {"paused", "cancelled"}
Handovers == {"human_ready", "observed", "resume", "takeover", "private_begin", "private_end",
              "disconnect", "cancel"}

HandedOver(s, c, t) ==
    /\ Follows(s, t)
    /\ \A a \in Actors : Hand(a, s) => Hand(a, t)
    /\ c.op \notin {"private_begin", "private_end"} => t.private = s.private
    /\ c.op = "resume" => ~t.private
    /\ c.op = "takeover" => ~(s.mode \in {"human", "resuming"})
    /\ c.op \in {"disconnect", "cancel"} => t.mode \in Rest
    /\ s.mode \in Rest /\ c.op \in {"human_ready", "observed"} => FALSE

LEMMA ReadyLine ==
    ASSUME NEW s \in Snapshot, ~s.uncertain, NEW c, c.op \in {"human_ready", "observed"},
           Permits(s, c)
    PROVE  HandedOver(s, c, Line(s, c))
<1> DEFINE E == Effect(s, c)
<1>1. s.pending = 0 /\ s.mode \in {"pausing", "resuming"} /\ s.gen \in Nat
    BY DEF Permits, Quiesced, Current, Snapshot
<1>2. PICK m \in {"human", "agent"} : E = [s EXCEPT !.mode = m]
    BY DEF Effect
<1>3. E \in Snapshot
    BY <1>2 DEF Snapshot, Modes
<1>4. /\ E.gen = s.gen /\ E.private = s.private /\ E.pending = s.pending
      /\ E.dispatched = s.dispatched /\ E.uncertain = s.uncertain
    BY <1>2 DEF Snapshot
<1> HIDE DEF E
<1> DEFINE t == Line(s, c)
<1>5. /\ t \in Snapshot /\ t.gen = s.gen /\ t.private = s.private /\ t.pending = s.pending
      /\ ~t.uncertain
    BY <1>3, <1>4, LineFacts DEF E
<1>6. \A a \in Actors : Hand(a, s) => Hand(a, t)
    BY <1>1 DEF Hand, Actors
<1> HIDE DEF t
<1> QED
    BY <1>1, <1>5, <1>6 DEF HandedOver, Follows, Rest, t

LEMMA ResumeLine ==
    ASSUME NEW s \in Snapshot, ~s.uncertain, NEW c, c.op = "resume", Permits(s, c)
    PROVE  HandedOver(s, c, Line(s, c))
<1> DEFINE E == Effect(s, c)
           X == [s EXCEPT !.mode = "resuming"]
<1>1. s.mode = "human" /\ s.gen \in Nat /\ ~s.private
    BY DEF Permits, Current, Snapshot
<1>2. E = Bumped(X)
    BY DEF Effect
<1>3. X \in Snapshot
    BY DEF Snapshot, Modes
<1>4. /\ X.gen = s.gen /\ Kept(s, X) /\ X.uncertain = s.uncertain /\ X.mode = "resuming"
    BY DEF Snapshot, Kept
<1> HIDE DEF E, X
<1> DEFINE t == Line(s, c)
<1>5. E \in Snapshot /\ E.gen = s.gen + 1 /\ Kept(s, E) /\ ~E.uncertain /\ E.mode = "resuming"
    BY <1>2, <1>3, <1>4, BumpedFacts DEF Kept
<1>6. t \in Snapshot /\ t.gen = s.gen + 1 /\ Kept(s, t) /\ ~t.uncertain /\ t.mode = "resuming"
    BY <1>5, LineFacts DEF E, Kept
<1> HIDE DEF t
<1>7. \A a \in Actors : Hand(a, s) => Hand(a, t)
    BY <1>1, <1>6 DEF Hand, Actors, Kept
<1> QED
    BY <1>1, <1>6, <1>7 DEF HandedOver, Follows, Kept, t

LEMMA PrivateLine ==
    ASSUME NEW s \in Snapshot, ~s.uncertain, NEW c, c.op \in {"private_begin", "private_end"},
           Permits(s, c)
    PROVE  HandedOver(s, c, Line(s, c))
<1> DEFINE E == Effect(s, c)
<1>1. s.mode = "human" /\ s.gen \in Nat /\ s.pending = 0
    BY DEF Permits, Current, Snapshot
<1>2. PICK p \in BOOLEAN : E = Bumped([s EXCEPT !.private = p])
    BY DEF Effect
<1> DEFINE X == [s EXCEPT !.private = p]
<1>3. X \in Snapshot
    BY DEF Snapshot
<1>4. /\ X.gen = s.gen /\ X.pending = s.pending /\ X.dispatched = s.dispatched
      /\ X.uncertain = s.uncertain /\ X.mode = s.mode
    BY DEF Snapshot
<1> HIDE DEF E, X
<1> DEFINE t == Line(s, c)
<1>5. /\ E \in Snapshot /\ E.gen = s.gen + 1 /\ ~E.uncertain /\ E.mode = s.mode
      /\ E.pending = s.pending /\ E.dispatched = s.dispatched
    BY <1>2, <1>3, <1>4, BumpedFacts DEF Kept, X
<1>6. /\ t \in Snapshot /\ t.gen = s.gen + 1 /\ ~t.uncertain /\ t.mode = s.mode
      /\ t.pending = s.pending /\ t.dispatched = s.dispatched
    BY <1>5, LineFacts DEF E
<1> HIDE DEF t
<1>7. \A a \in Actors : Hand(a, s) => Hand(a, t)
    BY <1>1, <1>6 DEF Hand, Actors
<1> QED
    BY <1>1, <1>6, <1>7 DEF HandedOver, Follows, t

LEMMA InterruptLine ==
    ASSUME NEW s \in Snapshot, ~s.uncertain, NEW c,
           c.op \in {"takeover", "disconnect", "cancel"}, Permits(s, c)
    PROVE  HandedOver(s, c, Line(s, c))
<1> DEFINE E == Effect(s, c)
<1>g. s.gen \in Nat /\ s.gen + 1 \in Nat
    BY DEF Snapshot
<1>1. /\ E \in Snapshot /\ E.gen = s.gen + 1 /\ E.private = s.private /\ ~E.uncertain
      /\ s.dispatched => Kept(s, E)
      /\ E.mode \in {"pausing", "paused", "cancelled"}
      /\ c.op # "takeover" => E.mode \in Rest
      /\ c.op = "takeover" => s.mode \notin {"human", "resuming"}
  <2>1. CASE c.op = "takeover"
    <3> DEFINE X == revoke_undispatched(Bumped(s))
    <3>1. E = [X EXCEPT !.mode = "pausing"] /\ s.mode \notin {"human", "resuming"}
        BY <2>1 DEF Effect, Permits
    <3>2. /\ X \in Snapshot /\ X.gen = s.gen + 1 /\ X.private = s.private /\ ~X.uncertain
          /\ s.dispatched => Kept(s, X)
        BY BumpedFacts, RevokedFacts DEF Kept
    <3> HIDE DEF X, E
    <3>3. E \in Snapshot /\ E.mode = "pausing"
        BY <3>1, <3>2 DEF Snapshot, Modes
    <3>4. /\ E.gen = X.gen /\ E.private = X.private /\ E.uncertain = X.uncertain
          /\ Kept(X, E)
        BY <3>1, <3>2 DEF Snapshot, Kept
    <3> QED
        BY <2>1, <3>1, <3>2, <3>3, <3>4 DEF Kept
  <2>2. CASE c.op \in {"disconnect", "cancel"}
    <3> DEFINE X == Bumped(revoke_undispatched(s))
               m == IF c.op = "cancel" \/ X.mode = "cancelled" THEN "cancelled" ELSE "paused"
    <3>1. E = [X EXCEPT !.mode = m]
        BY <2>2 DEF Effect
    <3>2. /\ X \in Snapshot /\ X.gen = s.gen + 1 /\ X.private = s.private /\ ~X.uncertain
          /\ s.dispatched => Kept(s, X)
        BY BumpedFacts, RevokedFacts DEF Kept
    <3>m. m \in Rest
        BY DEF Rest
    <3> HIDE DEF X, E, m
    <3>3. E \in Snapshot /\ E.mode = m
        BY <3>1, <3>2, <3>m DEF Snapshot, Modes, Rest
    <3>4. /\ E.gen = X.gen /\ E.private = X.private /\ E.uncertain = X.uncertain
          /\ Kept(X, E)
        BY <3>1, <3>2 DEF Snapshot, Kept
    <3> QED
        BY <2>2, <3>2, <3>3, <3>4, <3>m DEF Kept, Rest
  <2> QED
      BY <2>1, <2>2
<1> HIDE DEF E
<1> DEFINE t == Line(s, c)
<1>5. /\ t \in Snapshot /\ t.gen = s.gen + 1 /\ t.private = s.private /\ ~t.uncertain
      /\ s.dispatched => Kept(s, t)
      /\ t.mode = E.mode
    BY <1>1, LineFacts DEF E, Kept
<1> HIDE DEF t
<1>6. \A a \in Actors : Hand(a, s) => Hand(a, t)
    BY <1>1, <1>5 DEF Hand, Actors, Kept, Rest
<1> QED
    BY <1>1, <1>5, <1>6, <1>g DEF HandedOver, Follows, t

LEMMA HandoverLine ==
    ASSUME NEW s \in Snapshot, ~s.uncertain, NEW c, c.op \in Handovers, Permits(s, c)
    PROVE  HandedOver(s, c, Line(s, c))
<1>1. CASE c.op \in {"human_ready", "observed"}
    BY <1>1, ReadyLine
<1>2. CASE c.op = "resume"
    BY <1>2, ResumeLine
<1>3. CASE c.op \in {"private_begin", "private_end"}
    BY <1>3, PrivateLine
<1>4. CASE c.op \in {"takeover", "disconnect", "cancel"}
    BY <1>4, InterruptLine
<1> QED
    BY <1>1, <1>2, <1>3, <1>4 DEF Handovers

-----------------------------------------------------------------------------
(* A command and its answer.                                               *)

\* The process wrote its line, or nothing moved and it may now be poisoned.
\* Only a dead link or a poisoned process can fail a command it permits.
Heeded(c, ok) ==
    /\ LinkTypes'
    /\ dead' = dead /\ (poisoned => poisoned')
    /\ \/ ok /\ Permits(mem, c) /\ mem' = Line(mem, c) /\ mem' \in Snapshot
       \/ ~ok /\ mem' = mem /\ (Permits(mem, c) => ~Readable')

LEMMA HeardIsHeeded ==
    ASSUME LinkTypes, NEW c, c.op \in Handovers \cup {"admit", "dispatch", "settle"},
           c.op = "dispatch" => c.ticket # 0, c.op = "settle" => c.result = FALSE,
           NEW r \in Heard(c), Hears(r)
    PROVE  Heeded(c, r.ok) /\ r.ok \in BOOLEAN /\ r.mem = mem' /\ pipe' = pipe /\ call' = call
<1> DEFINE s == Line(mem, c)
           refused == Result(FALSE, mem, disk, poisoned, 0)
<1>s. Permits(mem, c) => s \in Snapshot /\ ~s.uncertain
  <2>1. CASE c.op = "admit"
      BY <2>1, AdmitLine DEF LinkTypes, Follows
  <2>2. CASE c.op = "dispatch"
      BY <2>2, DispatchLine DEF LinkTypes, Follows
  <2>3. CASE c.op = "settle"
      BY <2>3, SettleLine DEF LinkTypes, Follows
  <2>4. CASE c.op \in Handovers
      BY <2>4, HandoverLine DEF LinkTypes, Follows, HandedOver
  <2> QED
      BY <2>1, <2>2, <2>3, <2>4
<1>n. c.op # "state"
    BY DEF Handovers
<1> HIDE DEF s
<1>2. \/ r = refused /\ (dead \/ poisoned \/ ~Permits(mem, c))
      \/ ~poisoned /\ r = [refused EXCEPT !.poisoned = TRUE]
      \/ ~poisoned /\ Permits(mem, c) /\ r = Result(TRUE, s, s, FALSE, 0)
      \/ ~poisoned /\ Permits(mem, c) /\ \E file \in {disk, s} : r = Result(FALSE, mem, file, TRUE, 1)
    BY <1>n DEF Heard, Results, s, Line
<1>h. /\ mem' = r.mem /\ poisoned' = r.poisoned /\ dead' = dead /\ pipe' = pipe /\ call' = call
      /\ gen' = IF r.ok THEN r.mem.gen ELSE gen
    BY DEF Hears, Becomes
<1>3. CASE r = refused /\ (dead \/ poisoned \/ ~Permits(mem, c))
  <2>1. r.ok = FALSE /\ r.mem = mem /\ r.poisoned = poisoned
      BY <1>3 DEF Result
  <2> QED
      BY <1>h, <1>3, <2>1 DEF Heeded, LinkTypes, Readable
<1>4. CASE ~poisoned /\ r = [refused EXCEPT !.poisoned = TRUE]
  <2>1. r.ok = FALSE /\ r.mem = mem /\ r.poisoned = TRUE
      BY <1>4 DEF Result
  <2> QED
      BY <1>h, <1>4, <2>1 DEF Heeded, LinkTypes, Readable
<1>5. CASE ~poisoned /\ Permits(mem, c) /\ r = Result(TRUE, s, s, FALSE, 0)
  <2>1. r.ok = TRUE /\ r.mem = s /\ r.poisoned = FALSE
      BY <1>5 DEF Result
  <2>2. s \in Snapshot /\ ~s.uncertain /\ s.gen \in Nat
      BY <1>5, <1>s DEF Snapshot
  <2> QED
      BY <1>h, <1>5, <2>1, <2>2 DEF Heeded, LinkTypes, s
<1>6. CASE /\ ~poisoned /\ Permits(mem, c)
           /\ \E file \in {disk, s} : r = Result(FALSE, mem, file, TRUE, 1)
  <2>1. r.ok = FALSE /\ r.mem = mem /\ r.poisoned = TRUE
      BY <1>6 DEF Result
  <2> QED
      BY <1>h, <1>6, <2>1 DEF Heeded, LinkTypes, Readable
<1> QED
    BY <1>2, <1>3, <1>4, <1>5, <1>6

-----------------------------------------------------------------------------
(* The queue.                                                              *)

\* An operation that waits is not disturbed by a line of the journal; only a
\* command that has not been called yet hides the screen.
LEMMA Carried ==
    ASSUME BrowserTypes, NEW o \in Operations, Fits(o), Discreet(o), Follows(mem, mem'),
           o.who = "cmd" => cmd'.at = "called", o.who = "frame" => view'.at = "called",
           mem'.private = mem.private \/ cmd.at # "called"
    PROVE  Fits(o)' /\ Discreet(o)'
<1>1. Fits(o)'
    BY DEF Fits
<1>2. mem.gen \in Nat /\ mem'.gen \in Nat /\ o.gen \in Nat
    BY DEF BrowserTypes, LinkTypes, Follows, Snapshot, Operations
<1>3. o.op = "observe" => ~mem'.private /\ o.shot # "secret"
    BY DEF Fits, Discreet
<1>4. ASSUME o.op = "frame" /\ o.at \in {"observe", "shot"}
      PROVE  /\ o.gen <= mem'.gen
             /\ mem'.private \/ o.shot = "secret" => o.gen < mem'.gen
  <2>1. /\ o.gen <= mem.gen /\ mem.gen <= mem'.gen
        /\ mem.private \/ o.shot = "secret" => o.gen < mem.gen
        /\ mem'.private # mem.private => mem.gen < mem'.gen
      BY <1>4 DEF Discreet, Follows
  <2> QED
      BY <1>2, <2>1
<1> QED
    BY <1>1, <1>3, <1>4 DEF Discreet

LEMMA QueueElements ==
    ASSUME BrowserTypes, QueueHolds
    PROVE  \A i \in 1..Len(queue) :
              queue[i] \in Operations /\ Fits(queue[i]) /\ Discreet(queue[i])
    BY ElementOfSeq DEF BrowserTypes, QueueHolds

LEMMA TailKeeps ==
    ASSUME BrowserTypes, QueueHolds, queue # <<>>, queue' = Tail(queue), Follows(mem, mem'),
           mem'.private = mem.private,
           cmd'.at = cmd.at \/ Head(queue).who = "cmd",
           view'.at = view.at \/ Head(queue).who = "frame"
    PROVE  /\ queue' \in Seq(Operations) /\ QueueHolds'
           /\ queue' # <<>> => Head(queue').at = "queued"
<1>1. /\ Len(queue) \in Nat \ {0} /\ Head(queue) = queue[1]
      /\ queue' \in Seq(Operations) /\ Len(queue') = Len(queue) - 1
      /\ \A i \in 1..Len(queue') : i + 1 \in 1..Len(queue) /\ queue'[i] = queue[i + 1]
    BY TailFacts DEF BrowserTypes
<1>2. ASSUME NEW i \in 1..Len(queue')
      PROVE  Fits(queue[i])' /\ Discreet(queue[i])' /\ queue'[i].at = "queued"
  <2> DEFINE o == queue[i + 1]
  <2>1. i + 1 \in 1..Len(queue) /\ i + 1 # 1 /\ queue'[i] = o /\ 1 \in 1..Len(queue)
      BY <1>1
  <2>2. o \in Operations /\ Fits(o) /\ Discreet(o) /\ o.at = "queued"
      BY <2>1, QueueElements DEF QueueHolds
  <2>3. o.who \in {"cmd", "frame"} => o.who # Head(queue).who
      BY <2>1, <1>1 DEF QueueHolds
  <2>4. (o.who = "cmd" => cmd'.at = "called") /\ (o.who = "frame" => view'.at = "called")
      BY <2>2, <2>3 DEF Fits
  <2>5. PICK x : x = o
      OBVIOUS
  <2>6. Fits(x)' /\ Discreet(x)'
      BY <2>2, <2>4, <2>5, Carried
  <2> QED
      BY <2>1, <2>2, <2>5, <2>6 DEF Fits, Discreet
<1>3. \A i, j \in 1..Len(queue') :
         queue'[i].who = queue'[j].who /\ queue'[i].who \in {"cmd", "frame"} => i = j
  <2> SUFFICES ASSUME NEW i \in 1..Len(queue'), NEW j \in 1..Len(queue'),
                      queue'[i].who = queue'[j].who, queue'[i].who \in {"cmd", "frame"}
               PROVE  i = j
      OBVIOUS
  <2>1. i + 1 = j + 1
      BY <1>1 DEF QueueHolds
  <2> QED
      BY <2>1, <1>1
<1>4. QueueHolds'
    BY <1>2, <1>3 DEF QueueHolds
<1>5. ASSUME queue' # <<>>
      PROVE  Head(queue').at = "queued"
  <2>1. Head(queue') = queue'[1] /\ 1 \in 1..Len(queue')
      BY <1>1, <1>5, TailFacts
  <2>2. queue'[1].at = "queued"
      BY <1>2, <2>1
  <2> QED
      BY <2>1, <2>2
<1> QED
    BY <1>1, <1>4, <1>5

LEMMA AppendKeeps ==
    ASSUME BrowserTypes, QueueHolds, Follows(mem, mem'),
           NEW o \in Operations, queue' = Append(queue, o), Fits(o)', Discreet(o)',
           o.at = "queued",
           mem'.private = mem.private \/ cmd.at # "called",
           cmd.at = "called" => cmd'.at = "called" /\ o.who # "cmd",
           view.at = "called" => view'.at = "called" /\ o.who # "frame"
    PROVE  /\ queue' \in Seq(Operations) /\ QueueHolds'
           /\ queue' # <<>> /\ Head(queue').at \in {"admitted", "acted"} =>
                 queue # <<>> /\ Head(queue).at = Head(queue').at
<1> DEFINE n == Len(queue) + 1
<1>1. /\ queue' \in Seq(Operations) /\ Len(queue') = n /\ Len(queue) \in Nat
      /\ \A i \in 1..Len(queue) : i \in 1..n /\ queue'[i] = queue[i]
      /\ queue'[n] = o
    BY AppendFacts DEF BrowserTypes
<1>e. \A i \in 1..n : i \in 1..Len(queue) \/ i = n
    BY <1>1
<1>w. \A i \in 1..Len(queue) : /\ queue[i].who = "cmd" => cmd.at = "called"
                               /\ queue[i].who = "frame" => view.at = "called"
    BY DEF QueueHolds, Fits
<1>2. ASSUME NEW i \in 1..n
      PROVE  Fits(queue[i])' /\ Discreet(queue[i])' /\ (i # 1 => queue'[i].at = "queued")
  <2>1. CASE i = n
      BY <2>1, <1>1 DEF Fits, Discreet
  <2>2. CASE i \in 1..Len(queue)
    <3>1. PICK x : x = queue[i]
        OBVIOUS
    <3>2. x \in Operations /\ Fits(x) /\ Discreet(x) /\ (i # 1 => x.at = "queued")
        BY <2>2, <3>1, QueueElements DEF QueueHolds
    <3>3. Fits(x)' /\ Discreet(x)'
        BY <3>2, Carried DEF Fits
    <3> QED
        BY <3>1, <3>2, <3>3, <2>2, <1>1 DEF Fits, Discreet
  <2> QED
      BY <2>1, <2>2, <1>e
<1>3. \A i, j \in 1..n :
         queue'[i].who = queue'[j].who /\ queue'[i].who \in {"cmd", "frame"} => i = j
    BY <1>1, <1>e, <1>w DEF QueueHolds
<1>4. QueueHolds'
    BY <1>1, <1>2, <1>3 DEF QueueHolds
<1>5. ASSUME queue' # <<>>, Head(queue').at \in {"admitted", "acted"}
      PROVE  queue # <<>> /\ Head(queue).at = Head(queue').at
  <2>1. Head(queue') = queue'[1] /\ 1 \in 1..n
      BY <1>1, <1>5, TailFacts
  <2>2. 1 # n
      BY <1>1, <1>5, <2>1
  <2>3. 1 \in 1..Len(queue) /\ queue # <<>>
      BY <2>1, <2>2, <1>e, EmptySeq
  <2>4. Head(queue) = queue[1]
      BY <2>3, TailFacts DEF BrowserTypes
  <2> QED
      BY <2>1, <2>3, <2>4, <1>1
<1> QED
    BY <1>1, <1>4, <1>5

LEMMA HeadKeeps ==
    ASSUME BrowserTypes, QueueHolds, Follows(mem, mem'), mem'.private = mem.private,
           queue # <<>>, NEW o \in Operations, queue' = [queue EXCEPT ![1] = o],
           Fits(o)', Discreet(o)', o.who = Head(queue).who,
           cmd'.at = cmd.at, view'.at = view.at
    PROVE  queue' \in Seq(Operations) /\ QueueHolds' /\ queue' # <<>> /\ Head(queue') = o
<1>1. /\ queue' \in Seq(Operations) /\ Len(queue') = Len(queue) /\ queue' # <<>>
      /\ queue'[1] = o /\ Head(queue') = o
      /\ \A i \in 1..Len(queue) : i # 1 => queue'[i] = queue[i]
    BY HeadFacts DEF BrowserTypes
<1>h. Head(queue) = queue[1] /\ Len(queue) \in Nat \ {0}
    BY TailFacts DEF BrowserTypes
<1>2. ASSUME NEW i \in 1..Len(queue)
      PROVE  Fits(queue[i])' /\ Discreet(queue[i])' /\ (i # 1 => queue'[i].at = "queued")
  <2>1. CASE i = 1
      BY <2>1, <1>1 DEF Fits, Discreet
  <2>2. CASE i # 1
    <3>1. PICK x : x = queue[i]
        OBVIOUS
    <3>2. x \in Operations /\ Fits(x) /\ Discreet(x) /\ (i # 1 => x.at = "queued")
        BY <2>2, <3>1, QueueElements DEF QueueHolds
    <3>3. Fits(x)' /\ Discreet(x)'
        BY <3>2, Carried DEF Fits
    <3> QED
        BY <3>1, <3>2, <3>3, <2>2, <1>1 DEF Fits, Discreet
  <2> QED
      BY <2>1, <2>2
<1>3. \A i \in 1..Len(queue) : queue'[i].who = queue[i].who
    BY <1>1, <1>h
<1>4. QueueHolds'
    BY <1>1, <1>2, <1>3 DEF QueueHolds
<1> QED
    BY <1>1, <1>4

LEMMA SameQueue ==
    ASSUME BrowserTypes, QueueHolds, Follows(mem, mem'), queue' = queue,
           mem'.private = mem.private \/ cmd.at # "called",
           cmd.at = "called" => cmd'.at = "called",
           view.at = "called" => view'.at = "called"
    PROVE  queue' \in Seq(Operations) /\ QueueHolds'
<1>1. ASSUME NEW i \in 1..Len(queue)
      PROVE  Fits(queue[i])' /\ Discreet(queue[i])'
  <2>1. PICK x : x = queue[i]
      OBVIOUS
  <2>2. x \in Operations /\ Fits(x) /\ Discreet(x)
      BY <2>1, QueueElements
  <2>3. Fits(x)' /\ Discreet(x)'
      BY <2>2, Carried DEF Fits
  <2> QED
      BY <2>1, <2>3 DEF Fits, Discreet
<1>2. QueueHolds'
    BY <1>1 DEF QueueHolds
<1> QED
    BY <1>2 DEF BrowserTypes

-----------------------------------------------------------------------------
(* The end of an operation, and the two who may wait for it.               *)

LEMMA ViewType ==
    ASSUME NEW s \in Snapshot, NEW shot \in Shots
    PROVE  View(s, shot) \in Views /\ View(s, shot).shot = shot
           /\ View(s, shot).private = s.private
    BY DEF View, Views, Snapshot

LEMMA HeadElement ==
    ASSUME BrowserTypes, QueueHolds, queue # <<>>
    PROVE  Head(queue) \in Operations /\ Fits(Head(queue)) /\ Discreet(Head(queue))
           /\ queue[1] = Head(queue)
<1>1. Head(queue) = queue[1] /\ 1 \in 1..Len(queue)
    BY TailFacts DEF BrowserTypes
<1> QED
    BY <1>1, QueueElements

\* The page has not heard of it: it only matters whether the screen is private.
LEMMA SamePage ==
    ASSUME BrowserTypes, PicturesHold, PageHolds, UNCHANGED pageVars,
           mem'.private = mem.private
    PROVE  PicturesHold' /\ PageHolds' /\ cmd' \in Commands /\ view' \in Refreshes /\ page' \in Pages
           /\ cmd'.at = cmd.at /\ view'.at = view.at
    BY DEF BrowserTypes, PicturesHold, PageHolds, pageVars

LEMMA EndsPage ==
    ASSUME BrowserTypes, QueueHolds, PicturesHold, PageHolds, queue # <<>>,
           NEW ok \in BOOLEAN, NEW s \in Snapshot, Ends(ok, s), mem'.private = mem.private,
           ok /\ Head(queue).op = "frame" => Head(queue).shot # "secret"
    PROVE  /\ PicturesHold' /\ PageHolds'
           /\ cmd' \in Commands /\ view' \in Refreshes /\ page' \in Pages
           /\ cmd'.at = cmd.at \/ Head(queue).who = "cmd"
           /\ view'.at = view.at \/ Head(queue).who = "frame"
<1> DEFINE o == Head(queue)
           reply == View(s, o.shot)
<1>1. /\ page' = page
      /\ cmd' = IF o.who = "cmd"
                THEN [cmd EXCEPT !.at = IF ok THEN "ok" ELSE "failed", !.reply = reply]
                ELSE cmd
      /\ view' = IF o.who = "frame"
                 THEN IF ok THEN [view EXCEPT !.at = "got", !.got.shot = o.shot]
                            ELSE [view EXCEPT !.at = "idle"]
                 ELSE view
    BY DEF Ends
<1>2. o \in Operations /\ Fits(o) /\ Discreet(o) /\ o.shot \in Shots
    BY HeadElement DEF Operations
<1>3. reply \in Views /\ reply.shot = o.shot
    BY <1>2, ViewType
<1>t. cmd \in Commands /\ view \in Refreshes /\ page \in Pages
    BY DEF BrowserTypes
<1> HIDE DEF o, reply
<1>4. CASE o.who = "cmd"
  <2>1. /\ cmd' = [cmd EXCEPT !.at = IF ok THEN "ok" ELSE "failed", !.reply = reply]
        /\ view' = view
      BY <1>1, <1>4
  <2>2. /\ cmd' \in Commands
        /\ cmd'.at = IF ok THEN "ok" ELSE "failed"
        /\ cmd'.reply = reply /\ cmd'.op = cmd.op
      BY <1>t, <1>3, <2>1 DEF Commands
  <2>3. cmd.at = "called" /\ o.op # "frame"
      BY <1>2, <1>4 DEF Fits
  <2>4. o.shot # "none" => ~mem.private /\ o.shot # "secret"
      BY <1>2, <2>3 DEF Fits, Discreet
  <2>5. PicturesHold'
      BY <2>1, <2>2, <2>4, <1>3 DEF PicturesHold
  <2>6. PageHolds'
      BY <2>1, <2>2, <2>3, <1>1 DEF PageHolds
  <2> QED
      BY <2>1, <2>2, <2>5, <2>6, <1>1, <1>t, <1>4 DEF o
<1>5. CASE o.who = "frame"
  <2>1. cmd' = cmd /\ o.op = "frame" /\ view.at = "called"
      BY <1>1, <1>2, <1>5 DEF Fits
  <2>2. CASE ok
    <3>1. view' = [view EXCEPT !.at = "got", !.got.shot = o.shot]
        BY <1>1, <1>5, <2>2
    <3>2. view.got \in Views /\ view.current \in BOOLEAN
        BY <1>t DEF Refreshes
    <3>3. view'.at = "got" /\ view'.got = [view.got EXCEPT !.shot = o.shot]
          /\ view'.current = view.current
        BY <1>t, <3>1 DEF Refreshes
    <3>4. [view.got EXCEPT !.shot = o.shot] \in Views
        BY <3>2, <1>2 DEF Views
    <3>5. view'.got.shot = o.shot /\ view'.got.private = view.got.private
        BY <3>2, <3>3 DEF Views
    <3>6. view' \in Refreshes
        BY <1>t, <3>1, <3>4 DEF Refreshes
    <3>7. o.shot # "secret"
        BY <2>1, <2>2 DEF o
    <3>8. PicturesHold'
        BY <2>1, <3>5, <3>7 DEF PicturesHold
    <3>9. PageHolds'
        BY <2>1, <3>3, <3>5, <1>1 DEF PageHolds
    <3> QED
        BY <2>1, <3>6, <3>8, <3>9, <1>1, <1>t, <1>5 DEF o
  <2>3. CASE ~ok
    <3>1. view' = [view EXCEPT !.at = "idle"]
        BY <1>1, <1>5, <2>3
    <3>2. /\ view' \in Refreshes /\ view'.at = "idle" /\ view'.got = view.got
          /\ view'.current = view.current
        BY <1>t, <3>1 DEF Refreshes
    <3>3. PicturesHold'
        BY <2>1, <3>2 DEF PicturesHold
    <3>4. PageHolds'
        BY <2>1, <3>2, <1>1 DEF PageHolds
    <3> QED
        BY <2>1, <3>2, <3>3, <3>4, <1>1, <1>t, <1>5 DEF o
  <2> QED
      BY <2>2, <2>3
<1>6. CASE o.who \notin {"cmd", "frame"}
  <2>1. UNCHANGED pageVars
      BY <1>1, <1>6 DEF pageVars
  <2> QED
      BY <2>1, SamePage
<1> QED
    BY <1>4, <1>5, <1>6

-----------------------------------------------------------------------------
(* Steps of the queue.                                                     *)

\* The link as a step leaves it, when the screen stays as private as it was.
Continues ==
    /\ LinkTypes' /\ dead' = dead /\ (poisoned => poisoned')
    /\ Follows(mem, mem') /\ mem'.private = mem.private
    /\ Readable' /\ mem.mode \in Rest => mem'.mode \in Rest

Bystanders == acting' \in Actors /\ broken' \in BOOLEAN /\ lease' \in {"held", "cut"}

LEMMA CutKeeps ==
    ASSUME CutOffStays, Continues, lease' = lease
    PROVE  CutOffStays'
    BY DEF CutOffStays, Continues, Readable, Rest

LEMMA Unmoved ==
    ASSUME LinkTypes, UNCHANGED linkVars
    PROVE  Continues /\ mem' = mem /\ (Readable' <=> Readable)
    BY DEF LinkTypes, linkVars, Continues, Follows, Readable, Snapshot

\* An operation ends: who acts next is for the one behind it to say.
LEMMA EndsStep ==
    ASSUME BrowserInv, queue # <<>>, NEW ok \in BOOLEAN, NEW s \in Snapshot, Ends(ok, s),
           Continues, Bystanders, lease' = lease, Hand(acting', mem'),
           ok /\ Head(queue).op = "frame" => Head(queue).shot # "secret"
    PROVE  BrowserInv'
<1>1. /\ PicturesHold' /\ PageHolds'
      /\ cmd' \in Commands /\ view' \in Refreshes /\ page' \in Pages
      /\ cmd'.at = cmd.at \/ Head(queue).who = "cmd"
      /\ view'.at = view.at \/ Head(queue).who = "frame"
    BY EndsPage DEF BrowserInv, Continues
<1>2. queue' = Tail(queue)
    BY DEF Ends
<1>3. /\ queue' \in Seq(Operations) /\ QueueHolds'
      /\ queue' # <<>> => Head(queue').at = "queued"
    BY <1>1, <1>2, TailKeeps DEF BrowserInv, Continues
<1>4. HandsHold'
    BY <1>3 DEF HandsHold
<1>5. BrowserTypes'
    BY <1>1, <1>3 DEF BrowserTypes, Continues, Bystanders
<1> QED
    BY <1>1, <1>3, <1>4, <1>5, CutKeeps DEF BrowserInv

\* An operation goes on.
LEMMA HeadStep ==
    ASSUME BrowserInv, queue # <<>>, NEW o \in Operations, queue' = [queue EXCEPT ![1] = o],
           o.who = Head(queue).who, Fits(o), Discreet(o)', UNCHANGED pageVars,
           Continues, Bystanders, lease' = lease, Hand(acting', mem'),
           o.at \in {"admitted", "acted"} => acting' = "none"
    PROVE  BrowserInv'
<1>1. /\ PicturesHold' /\ PageHolds' /\ cmd'.at = cmd.at /\ view'.at = view.at
      /\ cmd' \in Commands /\ view' \in Refreshes /\ page' \in Pages
    BY SamePage DEF BrowserInv, Continues
<1>2. Fits(o)'
    BY <1>1 DEF Fits
<1>3. queue' \in Seq(Operations) /\ QueueHolds' /\ queue' # <<>> /\ Head(queue') = o
    BY <1>1, <1>2, HeadKeeps DEF BrowserInv, Continues
<1>4. HandsHold'
    BY <1>3 DEF HandsHold
<1>5. BrowserTypes'
    BY <1>1, <1>3 DEF BrowserTypes, Continues, Bystanders
<1> QED
    BY <1>1, <1>3, <1>4, <1>5, CutKeeps DEF BrowserInv

LEMMA Heeds ==
    ASSUME LinkTypes, NEW c, NEW ok, Heeded(c, ok),
           c.op \in {"admit", "dispatch", "settle", "human_ready", "observed", "disconnect", "cancel"},
           c.op = "dispatch" => c.ticket # 0 /\ c.actor \in {"agent", "human"},
           c.op = "settle" => c.result = FALSE
    PROVE  /\ Continues
           /\ c.op # "settle" => \A a \in Actors : Hand(a, mem) => Hand(a, mem')
           /\ c.op = "dispatch" /\ ok => Hand(c.actor, mem')
           /\ c.op = "admit" /\ ok => mem.pending = 0 /\ mem'.pending \in Nat \ {0}
           /\ c.op \in {"disconnect", "cancel"} /\ Readable' => mem'.mode \in Rest
<1>1. CASE ~ok
  <2>1. mem' = mem /\ (Permits(mem, c) => ~Readable')
      BY <1>1 DEF Heeded
  <2>2. c.op \in {"disconnect", "cancel"} => Permits(mem, c)
      BY DEF Permits
  <2>3. Continues
      BY <2>1 DEF Heeded, Continues, LinkTypes, Follows, Snapshot
  <2> QED
      BY <1>1, <2>1, <2>2, <2>3
<1>2. CASE ok
  <2> DEFINE t == Line(mem, c)
  <2>1. Permits(mem, c) /\ mem' = t /\ mem \in Snapshot /\ ~mem.uncertain
      BY <1>2 DEF Heeded, LinkTypes
  <2> HIDE DEF t
  <2>2. ASSUME Follows(mem, t), t.private = mem.private,
               t.mode = mem.mode \/ mem.mode \notin Rest \/ t.mode \in Rest
        PROVE  Continues
      BY <2>1, <2>2 DEF Continues, Heeded
  <2>3. CASE c.op = "admit"
    <3>1. /\ Follows(mem, t) /\ t.private = mem.private /\ t.mode = mem.mode
          /\ mem.pending = 0 /\ t.pending \in Nat \ {0}
        BY <2>1, <2>3, AdmitLine DEF t
    <3>2. \A a \in Actors : Hand(a, mem) => Hand(a, t)
        BY <3>1 DEF Hand, Actors
    <3> QED
        BY <2>1, <2>2, <2>3, <3>1, <3>2
  <2>4. CASE c.op = "dispatch"
    <3>1. Follows(mem, t) /\ t.private = mem.private /\ Hand(c.actor, t) /\ t.mode = mem.mode
        BY <2>1, <2>4, DispatchLine DEF t
    <3>2. \A a \in Actors : Hand(a, mem) => Hand(a, t)
        BY <2>4, <3>1 DEF Hand, Actors
    <3> QED
        BY <2>1, <2>2, <2>4, <3>1, <3>2
  <2>5. CASE c.op = "settle"
    <3>1. Follows(mem, t) /\ t.private = mem.private /\ t.mode = mem.mode
        BY <2>1, <2>5, SettleLine DEF t
    <3> QED
        BY <2>1, <2>2, <2>5, <3>1
  <2>6. CASE c.op \in {"human_ready", "observed", "disconnect", "cancel"}
    <3>1. HandedOver(mem, c, t)
        BY <2>1, <2>6, HandoverLine DEF t, Handovers
    <3>2. /\ Follows(mem, t) /\ t.private = mem.private
          /\ mem.mode \notin Rest \/ t.mode \in Rest
          /\ \A a \in Actors : Hand(a, mem) => Hand(a, t)
          /\ c.op \in {"disconnect", "cancel"} => t.mode \in Rest
        BY <2>6, <3>1 DEF HandedOver
    <3> QED
        BY <2>1, <2>2, <2>6, <3>2
  <2> QED
      BY <2>3, <2>4, <2>5, <2>6
<1>3. ok \in BOOLEAN \/ ~ok \/ ok
    OBVIOUS
<1> QED
    BY <1>1, <1>2

LEMMA RunningHead ==
    ASSUME BrowserInv, NEW op, NEW at, Running(op, at)
    PROVE  /\ queue # <<>> /\ Head(queue) \in Operations /\ Fits(Head(queue))
           /\ Discreet(Head(queue)) /\ queue[1] = Head(queue)
           /\ Head(queue).op \in op /\ Head(queue).at = at
    BY HeadElement DEF BrowserInv, Running

LEMMA ToIsMoved ==
    ASSUME BrowserInv, queue # <<>>, NEW at, To(at)
    PROVE  queue' = [queue EXCEPT ![1] = [Head(queue) EXCEPT !.at = at]]
<1>1. queue[1] = Head(queue)
    BY HeadElement DEF BrowserInv
<1> QED
    BY <1>1 DEF To

\* An input that goes on is no picture.
LEMMA InputMoves ==
    ASSUME BrowserInv, NEW at \in {"acting", "acted", "failing"}, To(at), queue # <<>>,
           Head(queue).op \in {"click", "input"}, UNCHANGED pageVars, Continues, Bystanders,
           lease' = lease, Hand(acting', mem'), at = "acted" => acting' = "none"
    PROVE  BrowserInv'
<1> DEFINE o == Head(queue)
           p == [o EXCEPT !.at = at]
<1>1. o \in Operations /\ Fits(o)
    BY HeadElement DEF BrowserInv
<1>2. queue' = [queue EXCEPT ![1] = p]
    BY ToIsMoved
<1>3. /\ p \in Operations /\ p.at = at /\ p.op = o.op /\ p.who = o.who /\ p.shot = o.shot
      /\ p.ticket = o.ticket
    BY <1>1 DEF Operations
<1>o. o.op \in {"click", "input"}
    OBVIOUS
<1> HIDE DEF p
<1>4. Fits(p)
    BY <1>1, <1>3, <1>o DEF Fits
<1>5. PICK x : x = p
    OBVIOUS
<1>6. Discreet(x)'
    BY <1>3, <1>5, <1>o DEF Discreet
<1> QED
    BY <1>2, <1>3, <1>4, <1>5, <1>6, HeadStep

LEMMA InvFacts ==
    ASSUME BrowserInv
    PROVE  /\ LinkTypes /\ Hand(acting, mem) /\ acting \in Actors /\ broken \in BOOLEAN
           /\ lease \in {"held", "cut"} /\ mem \in Snapshot
           /\ queue # <<>> /\ Head(queue).at \in {"admitted", "acted"} => acting = "none"
    BY DEF BrowserInv, BrowserTypes, HandsHold, LinkTypes

LEMMA NoHand == \A s : Hand("none", s)
    BY DEF Hand

LEMMA AdmitStep == ASSUME BrowserInv, Admit PROVE BrowserInv'
<1> DEFINE o == Head(queue)
           c == [op |-> "admit", actor |-> actor(o), gen |-> o.gen]
<1>1. queue # <<>> /\ o \in Operations /\ Fits(o) /\ o.op \in {"click", "input"} /\ o.at = "queued"
      /\ queue[1] = o
    BY RunningHead DEF Admit
<1>2. PICK r \in Heard(c) :
         /\ Hears(r)
         /\ IF r.ok
            THEN /\ queue' = [queue EXCEPT ![1].at = "admitted", ![1].ticket = r.mem.pending]
                 /\ UNCHANGED pageVars
            ELSE Ends(FALSE, mem)
    BY DEF Admit
<1>3. UNCHANGED <<acting, broken, clicks, lease>> /\ Bystanders /\ LinkTypes
    BY InvFacts DEF Admit, Bystanders
<1>c. c.op = "admit"
    OBVIOUS
<1> HIDE DEF c
<1>4. Heeded(c, r.ok) /\ r.ok \in BOOLEAN /\ r.mem = mem'
    BY <1>2, <1>3, <1>c, HeardIsHeeded
<1>5. /\ Continues /\ Hand(acting', mem')
      /\ r.ok => mem.pending = 0 /\ mem'.pending \in Nat \ {0}
    BY <1>3, <1>4, <1>c, Heeds, InvFacts
<1>6. CASE r.ok
  <2> DEFINE p == [o EXCEPT !.at = "admitted", !.ticket = mem'.pending]
  <2>1. queue' = [queue EXCEPT ![1] = p]
      BY <1>1, <1>2, <1>4, <1>6
  <2>2. /\ p \in Operations /\ p.at = "admitted" /\ p.op = o.op /\ p.who = o.who
        /\ p.shot = o.shot /\ p.ticket # 0
      BY <1>1, <1>5, <1>6 DEF Operations
  <2>3. acting' = "none"
      BY <1>3, <1>5, <1>6, InvFacts DEF Hand
  <2> HIDE DEF p
  <2>4. Fits(p)
      BY <1>1, <2>2 DEF Fits
  <2>5. PICK x : x = p
      OBVIOUS
  <2>6. Discreet(x)'
      BY <1>1, <2>2, <2>5 DEF Discreet
  <2> QED
      BY <1>1, <1>2, <1>3, <1>5, <1>6, <2>1, <2>2, <2>3, <2>4, <2>5, <2>6, HeadStep
<1>7. CASE ~r.ok
    BY <1>1, <1>2, <1>3, <1>5, <1>7, InvFacts, EndsStep
<1> QED
    BY <1>4, <1>6, <1>7

LEMMA DispatchStep == ASSUME BrowserInv, Dispatch PROVE BrowserInv'
<1> DEFINE o == Head(queue)
           c == [op |-> "dispatch", actor |-> actor(o), gen |-> o.gen, ticket |-> o.ticket]
<1>1. queue # <<>> /\ o \in Operations /\ Fits(o) /\ o.op \in {"click", "input"} /\ o.at = "admitted"
    BY RunningHead DEF Dispatch
<1>2. PICK r \in Heard(c) :
         /\ Hears(r)
         /\ IF r.ok
            THEN /\ To("acting") /\ UNCHANGED pageVars
                 /\ acting' = IF broken THEN acting ELSE actor(o)
            ELSE Ends(FALSE, mem) /\ UNCHANGED acting
    BY DEF Dispatch
<1>a. actor(o) \in {"agent", "human"} /\ o.ticket # 0 /\ acting = "none"
    BY <1>1, InvFacts DEF actor, Fits
<1>3. UNCHANGED <<broken, clicks, lease>> /\ LinkTypes
    BY InvFacts DEF Dispatch
<1>b. Bystanders
    BY <1>2, <1>3, <1>a, InvFacts DEF Bystanders, Actors
<1>c. c.op = "dispatch" /\ c.ticket # 0 /\ c.actor = actor(o)
    BY <1>a
<1> HIDE DEF c
<1>4. Heeded(c, r.ok) /\ r.ok \in BOOLEAN /\ r.mem = mem'
    BY <1>2, <1>3, <1>c, HeardIsHeeded
<1>5. Continues /\ (r.ok => Hand(actor(o), mem'))
    BY <1>3, <1>4, <1>a, <1>c, Heeds
<1>6. Hand(acting', mem')
    BY <1>2, <1>5, <1>a, NoHand
<1>7. CASE r.ok
    BY <1>1, <1>2, <1>3, <1>5, <1>6, <1>7, <1>b, InputMoves
<1>8. CASE ~r.ok
    BY <1>1, <1>2, <1>3, <1>5, <1>6, <1>8, <1>b, InvFacts, EndsStep
<1> QED
    BY <1>4, <1>7, <1>8

LEMMA ActedStep == ASSUME BrowserInv, Acted PROVE BrowserInv'
<1>1. queue # <<>> /\ Head(queue).op \in {"click", "input"}
    BY RunningHead DEF Acted
<1>2. Continues
    BY Unmoved, InvFacts DEF Acted
<1>3. Bystanders /\ Hand(acting', mem') /\ lease' = lease /\ acting' = "none"
    BY InvFacts, NoHand DEF Acted, Bystanders, Actors
<1> QED
    BY <1>1, <1>2, <1>3, InputMoves DEF Acted

LEMMA ActFailsStep == ASSUME BrowserInv, ActFails PROVE BrowserInv'
<1>1. queue # <<>> /\ Head(queue).op \in {"click", "input"}
    BY RunningHead DEF ActFails
<1>2. Continues /\ mem' = mem
    BY Unmoved, InvFacts DEF ActFails
<1>3. Bystanders /\ Hand(acting', mem') /\ lease' = lease
    BY <1>2, InvFacts, NoHand DEF ActFails, Bystanders, Actors
<1> QED
    BY <1>1, <1>2, <1>3, InputMoves DEF ActFails

LEMMA SettleStep == ASSUME BrowserInv, Settle PROVE BrowserInv'
<1> DEFINE c == [op |-> "settle", ticket |-> Head(queue).ticket, result |-> FALSE]
<1>1. queue # <<>> /\ Head(queue).op # "frame" /\ acting = "none"
    BY RunningHead, InvFacts DEF Settle
<1>2. PICK r \in Heard(c) : Hears(r) /\ Ends(r.ok, r.mem)
    BY DEF Settle
<1>3. UNCHANGED <<acting, broken, clicks, lease>> /\ Bystanders /\ LinkTypes
    BY InvFacts DEF Settle, Bystanders
<1>c. c.op = "settle" /\ c.result = FALSE
    OBVIOUS
<1> HIDE DEF c
<1>4. Heeded(c, r.ok) /\ r.ok \in BOOLEAN /\ r.mem = mem'
    BY <1>2, <1>3, <1>c, HeardIsHeeded
<1>5. Continues /\ mem' \in Snapshot
    BY <1>3, <1>4, <1>c, Heeds DEF Heeded, LinkTypes
<1>6. Hand(acting', mem')
    BY <1>1, <1>3, NoHand
<1> QED
    BY <1>1, <1>2, <1>3, <1>4, <1>5, <1>6, EndsStep

LEMMA AbandonStep == ASSUME BrowserInv, Abandon PROVE BrowserInv'
<1> DEFINE c == [op |-> "disconnect"]
<1>e. Ends(FALSE, mem)
    BY DEF Abandon
<1>1. queue # <<>> /\ Head(queue).op # "frame"
    BY RunningHead DEF Abandon
<1>3. UNCHANGED <<acting, broken, clicks, lease>> /\ Bystanders /\ LinkTypes /\ mem \in Snapshot
    BY InvFacts DEF Abandon, Bystanders
<1>5. Continues /\ Hand(acting', mem')
  <2>1. CASE UNCHANGED linkVars
      BY <1>3, <2>1, Unmoved, InvFacts
  <2>2. CASE Asks(c)
    <3>c. c.op = "disconnect"
        OBVIOUS
    <3>1. PICK r \in Heard(c) : Hears(r)
        BY <2>2 DEF Asks
    <3> HIDE DEF c
    <3>2. Heeded(c, r.ok)
        BY <3>1, <3>c, <1>3, HeardIsHeeded DEF Handovers
    <3> QED
        BY <3>2, <3>c, <1>3, Heeds, InvFacts
  <2> QED
      BY <2>1, <2>2 DEF Abandon
<1> QED
    BY <1>1, <1>e, <1>3, <1>5, EndsStep

LEMMA HumanReadyStep == ASSUME BrowserInv, HumanReady PROVE BrowserInv'
<1> DEFINE c == [op |-> "human_ready", gen |-> Head(queue).gen]
<1>1. queue # <<>> /\ Head(queue).op # "frame"
    BY RunningHead DEF HumanReady
<1>2. PICK r \in Heard(c) : Hears(r) /\ Ends(r.ok, r.mem)
    BY DEF HumanReady
<1>3. UNCHANGED <<acting, broken, clicks, lease>> /\ Bystanders /\ LinkTypes
    BY InvFacts DEF HumanReady, Bystanders
<1>c. c.op = "human_ready"
    OBVIOUS
<1> HIDE DEF c
<1>4. Heeded(c, r.ok) /\ r.ok \in BOOLEAN /\ r.mem = mem'
    BY <1>2, <1>3, <1>c, HeardIsHeeded DEF Handovers
<1>5. Continues /\ mem' \in Snapshot /\ Hand(acting', mem')
    BY <1>3, <1>4, <1>c, Heeds, InvFacts DEF Heeded, LinkTypes
<1> QED
    BY <1>1, <1>2, <1>3, <1>4, <1>5, EndsStep

LEMMA StateStep == ASSUME BrowserInv, State PROVE BrowserInv'
<1>e. Ends(TRUE, mem)
    BY DEF State
<1>1. queue # <<>> /\ Head(queue).op # "frame"
    BY RunningHead DEF State
<1>2. Continues /\ mem' = mem
    BY Unmoved, InvFacts DEF State
<1>3. Bystanders /\ Hand(acting', mem') /\ lease' = lease /\ mem \in Snapshot
    BY <1>2, InvFacts DEF State, Bystanders
<1> QED
    BY <1>1, <1>e, <1>2, <1>3, EndsStep

\* A frame is allowed while the screen is not private, and given out while its
\* generation is still the current one.
LEMMA FrameAllowedStep == ASSUME BrowserInv, FrameAllowed PROVE BrowserInv'
<1> DEFINE o == Head(queue)
<1>1. /\ queue # <<>> /\ o \in Operations /\ Fits(o) /\ o.op = "frame" /\ o.at = "queued"
      /\ queue[1] = o
    BY RunningHead DEF FrameAllowed
<1>2. Continues /\ mem' = mem
    BY Unmoved, InvFacts DEF FrameAllowed
<1>3. Bystanders /\ Hand(acting', mem') /\ lease' = lease /\ acting' = acting /\ mem \in Snapshot
    BY <1>2, InvFacts DEF FrameAllowed, Bystanders
<1>4. CASE Readable /\ ~mem.private /\ mem.mode \in {"agent", "human", "paused"}
  <2> DEFINE p == [o EXCEPT !.at = "observe", !.gen = mem.gen]
  <2>1. queue' = [queue EXCEPT ![1] = p] /\ UNCHANGED pageVars
      BY <1>1, <1>4 DEF FrameAllowed
  <2>2. mem.gen \in Nat
      BY <1>3 DEF Snapshot
  <2>3. /\ p \in Operations /\ p.at = "observe" /\ p.op = "frame" /\ p.who = o.who
        /\ p.shot = o.shot /\ p.gen = mem.gen
      BY <1>1, <2>2 DEF Operations
  <2> HIDE DEF p
  <2>4. Fits(p) /\ p.shot = "none"
      BY <1>1, <2>3 DEF Fits
  <2>5. PICK x : x = p
      OBVIOUS
  <2>6. Discreet(x)'
      BY <1>2, <1>4, <2>2, <2>3, <2>4, <2>5 DEF Discreet
  <2> QED
      BY <1>1, <1>2, <1>3, <2>1, <2>3, <2>4, <2>5, <2>6, HeadStep
<1>5. CASE ~(Readable /\ ~mem.private /\ mem.mode \in {"agent", "human", "paused"})
  <2>1. Ends(FALSE, mem)
      BY <1>5 DEF FrameAllowed
  <2> QED
      BY <1>1, <1>2, <1>3, <2>1, EndsStep
<1> QED
    BY <1>4, <1>5

LEMMA ObservingHead ==
    ASSUME BrowserInv, Observing
    PROVE  LET o == Head(queue)
           IN  /\ queue # <<>> /\ o \in Operations /\ Fits(o) /\ Discreet(o) /\ queue[1] = o
               /\ \/ o.op = "frame" /\ o.at = "observe"
                  \/ o.op = "observe" /\ o.at = "queued"
<1>1. CASE Running({"frame"}, "observe")
    BY <1>1, RunningHead
<1>2. CASE Running({"observe"}, "queued")
    BY <1>2, RunningHead
<1> QED
    BY <1>1, <1>2 DEF Observing

LEMMA ObserveStep == ASSUME BrowserInv, Observe PROVE BrowserInv'
<1> DEFINE o == Head(queue)
           shot == IF mem.private THEN "secret" ELSE "clear"
           p == [o EXCEPT !.at = "shot", !.shot = shot]
<1>1. /\ queue # <<>> /\ o \in Operations /\ Fits(o) /\ Discreet(o) /\ queue[1] = o
      /\ \/ o.op = "frame" /\ o.at = "observe"
         \/ o.op = "observe" /\ o.at = "queued"
    BY ObservingHead DEF Observe
<1>2. Continues /\ mem' = mem
    BY Unmoved, InvFacts DEF Observe
<1>3. Bystanders /\ Hand(acting', mem') /\ lease' = lease /\ acting' = acting /\ mem \in Snapshot
    BY <1>2, InvFacts DEF Observe, Bystanders
<1>4. queue' = [queue EXCEPT ![1] = p] /\ UNCHANGED pageVars
    BY <1>1 DEF Observe
<1>5. shot \in {"secret", "clear"} /\ (shot = "secret" => mem.private)
    OBVIOUS
<1> HIDE DEF shot
<1>6. /\ p \in Operations /\ p.at = "shot" /\ p.op = o.op /\ p.who = o.who
      /\ p.shot = shot /\ p.gen = o.gen
    BY <1>1, <1>5 DEF Operations, Shots
<1> HIDE DEF p
<1>7. Fits(p)
    BY <1>1, <1>6 DEF Fits
<1>8. PICK x : x = p
    OBVIOUS
<1>9. Discreet(x)'
    BY <1>1, <1>2, <1>5, <1>6, <1>8 DEF Discreet
<1> QED
    BY <1>1, <1>2, <1>3, <1>4, <1>6, <1>7, <1>8, <1>9, HeadStep

\* An observation that fails leaves the hand-back to be undone.
LEMMA LooksAway ==
    ASSUME BrowserInv, queue # <<>>, Head(queue).op = "observe", To("failing"),
           UNCHANGED pageVars, Continues, Bystanders, lease' = lease, Hand(acting', mem')
    PROVE  BrowserInv'
<1> DEFINE o == Head(queue)
           p == [o EXCEPT !.at = "failing"]
<1>1. o \in Operations /\ Fits(o) /\ Discreet(o)
    BY HeadElement DEF BrowserInv
<1>2. queue' = [queue EXCEPT ![1] = p]
    BY ToIsMoved
<1>3. /\ p \in Operations /\ p.at = "failing" /\ p.op = "observe" /\ p.who = o.who
      /\ p.shot = o.shot
    BY <1>1 DEF Operations
<1>o. o.op = "observe"
    OBVIOUS
<1> HIDE DEF p
<1>4. Fits(p)
    BY <1>1, <1>3, <1>o DEF Fits
<1>5. PICK x : x = p
    OBVIOUS
<1>6. Discreet(x)'
    BY <1>1, <1>3, <1>5, <1>o DEF Discreet, Continues
<1> QED
    BY <1>2, <1>3, <1>4, <1>5, <1>6, HeadStep

LEMMA ObserveFailsStep == ASSUME BrowserInv, ObserveFails PROVE BrowserInv'
<1> DEFINE o == Head(queue)
<1>1. queue # <<>> /\ o.op \in {"frame", "observe"}
    BY ObservingHead DEF ObserveFails
<1>2. Continues /\ mem' = mem
    BY Unmoved, InvFacts DEF ObserveFails
<1>3. Bystanders /\ Hand(acting', mem') /\ lease' = lease /\ mem \in Snapshot
    BY <1>2, InvFacts DEF ObserveFails, Bystanders
<1>4. CASE o.op = "frame"
  <2>1. Ends(FALSE, mem)
      BY <1>4 DEF ObserveFails
  <2> QED
      BY <1>1, <1>2, <1>3, <2>1, EndsStep
<1>5. CASE o.op # "frame"
  <2>1. To("failing") /\ UNCHANGED pageVars
      BY <1>5 DEF ObserveFails
  <2> QED
      BY <1>1, <1>2, <1>3, <1>5, <2>1, LooksAway
<1> QED
    BY <1>4, <1>5

LEMMA FrameStep == ASSUME BrowserInv, Frame PROVE BrowserInv'
<1> DEFINE o == Head(queue)
<1>1. /\ queue # <<>> /\ o \in Operations /\ Discreet(o) /\ o.op = "frame" /\ o.at = "shot"
    BY RunningHead DEF Frame
<1>2. Continues /\ mem' = mem
    BY Unmoved, InvFacts DEF Frame
<1>3. Bystanders /\ Hand(acting', mem') /\ lease' = lease /\ mem \in Snapshot
    BY <1>2, InvFacts DEF Frame, Bystanders
<1>4. Ends(/\ Readable /\ ~mem.private /\ mem.gen = o.gen
           /\ lease = "held", mem)
    BY DEF Frame
<1>5. PICK ok \in BOOLEAN : ok = (Readable /\ ~mem.private /\ mem.gen = o.gen /\ lease = "held")
    OBVIOUS
<1>6. Ends(ok, mem)
    BY <1>4, <1>5
<1>7. ok => o.shot # "secret"
  <2>1. mem.gen \in Nat /\ o.gen \in Nat
      BY <1>1, <1>3 DEF Snapshot, Operations
  <2>2. ok => mem.gen = o.gen
      BY <1>5
  <2>3. o.shot = "secret" => o.gen < mem.gen
      BY <1>1 DEF Discreet
  <2> QED
      BY <2>1, <2>2, <2>3
<1> QED
    BY <1>1, <1>2, <1>3, <1>6, <1>7, EndsStep

LEMMA ObservedStep == ASSUME BrowserInv, Observed PROVE BrowserInv'
<1> DEFINE c == [op |-> "observed", gen |-> Head(queue).gen]
<1>1. queue # <<>> /\ Head(queue).op = "observe"
    BY RunningHead DEF Observed
<1>2. PICK r \in Heard(c) :
         /\ Hears(r)
         /\ IF r.ok THEN Ends(TRUE, r.mem) ELSE To("failing") /\ UNCHANGED pageVars
    BY DEF Observed
<1>3. UNCHANGED <<acting, broken, clicks, lease>> /\ Bystanders /\ LinkTypes
    BY InvFacts DEF Observed, Bystanders
<1>c. c.op = "observed"
    OBVIOUS
<1> HIDE DEF c
<1>4. Heeded(c, r.ok) /\ r.ok \in BOOLEAN /\ r.mem = mem'
    BY <1>2, <1>3, <1>c, HeardIsHeeded DEF Handovers
<1>5. Continues /\ mem' \in Snapshot /\ Hand(acting', mem')
    BY <1>3, <1>4, <1>c, Heeds, InvFacts DEF Heeded, LinkTypes
<1>6. CASE r.ok
    BY <1>1, <1>2, <1>3, <1>4, <1>5, <1>6, EndsStep
<1>7. CASE ~r.ok
    BY <1>1, <1>2, <1>3, <1>5, <1>7, LooksAway
<1> QED
    BY <1>4, <1>6, <1>7

-----------------------------------------------------------------------------
(* Who joins the queue, and the browser that acts late.                    *)

LEMMA OpType ==
    ASSUME NEW op \in {"click", "input", "ready", "state", "observe", "frame"}, NEW g \in Nat,
           NEW who \in {"agent", "cmd", "frame", "none"}
    PROVE  /\ Op(op, g, who) \in Operations /\ Op(op, g, who).op = op
           /\ Op(op, g, who).who = who /\ Op(op, g, who).at = "queued"
           /\ Op(op, g, who).shot = "none"
    BY DEF Op, Operations, Shots

\* Nobody waits for it.
LEMMA JoinsStep ==
    ASSUME BrowserInv, NEW op \in {"click", "state"}, NEW g \in Nat, NEW who \in {"agent", "none"},
           queue' = Append(queue, Op(op, g, who)), UNCHANGED pageVars,
           Continues, Bystanders, Hand(acting', mem'), acting' \in {acting, "none"}, CutOffStays'
    PROVE  BrowserInv'
<1> PICK o : o = Op(op, g, who)
    OBVIOUS
<1>1. /\ o \in Operations /\ o.op = op /\ o.who = who /\ o.at = "queued" /\ o.shot = "none"
      /\ queue' = Append(queue, o)
    BY OpType
<1>2. Fits(o)' /\ Discreet(o)'
    BY <1>1 DEF Fits, Discreet
<1>3. /\ PicturesHold' /\ PageHolds' /\ cmd'.at = cmd.at /\ view'.at = view.at
      /\ cmd' \in Commands /\ view' \in Refreshes /\ page' \in Pages
    BY SamePage DEF BrowserInv, Continues
<1>4. /\ queue' \in Seq(Operations) /\ QueueHolds'
      /\ queue' # <<>> /\ Head(queue').at \in {"admitted", "acted"} =>
            queue # <<>> /\ Head(queue).at = Head(queue').at
    BY <1>1, <1>2, <1>3, AppendKeeps DEF BrowserInv, Continues
<1>5. HandsHold'
    BY <1>4, InvFacts DEF HandsHold
<1>6. BrowserTypes'
    BY <1>3, <1>4 DEF BrowserTypes, Continues, Bystanders
<1> QED
    BY <1>3, <1>4, <1>5, <1>6 DEF BrowserInv

LEMMA AgentClickStep == ASSUME BrowserInv, AgentClick PROVE BrowserInv'
<1>1. Continues /\ mem' = mem
    BY Unmoved, InvFacts DEF AgentClick
<1>2. Bystanders /\ Hand(acting', mem') /\ lease' = lease /\ acting' = acting
    BY <1>1, InvFacts DEF AgentClick, Bystanders
<1>3. CutOffStays'
    BY <1>1, <1>2, CutKeeps DEF BrowserInv
<1>4. gen \in Nat
    BY InvFacts DEF LinkTypes
<1> QED
    BY <1>1, <1>2, <1>3, <1>4, JoinsStep DEF AgentClick

LEMMA ActsLateStep == ASSUME BrowserInv, ActsLate PROVE BrowserInv'
<1>1. Continues /\ mem' = mem
    BY Unmoved, InvFacts DEF ActsLate
<1>2. Bystanders /\ lease' = lease /\ acting' = "none" /\ UNCHANGED pageVars /\ queue' = queue
    BY InvFacts DEF ActsLate, Bystanders, Actors
<1>3. /\ PicturesHold' /\ PageHolds' /\ cmd'.at = cmd.at /\ view'.at = view.at
      /\ cmd' \in Commands /\ view' \in Refreshes /\ page' \in Pages
    BY <1>1, <1>2, SamePage DEF BrowserInv, Continues
<1>4. queue' \in Seq(Operations) /\ QueueHolds'
    BY <1>1, <1>2, <1>3, SameQueue DEF BrowserInv, Continues
<1>5. HandsHold'
    BY <1>2, NoHand DEF HandsHold
<1>6. CutOffStays'
    BY <1>1, <1>2, CutKeeps DEF BrowserInv
<1>7. BrowserTypes'
    BY <1>1, <1>2, <1>3, <1>4 DEF BrowserTypes, Continues, Bystanders
<1> QED
    BY <1>3, <1>4, <1>5, <1>6, <1>7 DEF BrowserInv

\* Disconnecting and cancelling leave a pause, if the journal can be read at all.
LEMMA AsksRest ==
    ASSUME BrowserInv, NEW c, c.op \in {"disconnect", "cancel"}, Asks(c), lease' \in {"held", "cut"}
    PROVE  Continues /\ Hand(acting, mem') /\ CutOffStays'
<1>1. PICK r \in Heard(c) : Hears(r)
    BY DEF Asks
<1>2. Heeded(c, r.ok) /\ LinkTypes
    BY <1>1, HeardIsHeeded, InvFacts DEF Handovers
<1>3. Continues /\ Hand(acting, mem') /\ (Readable' => mem'.mode \in Rest)
    BY <1>2, Heeds, InvFacts
<1> QED
    BY <1>3 DEF CutOffStays, Rest

LEMMA LapseStep == ASSUME BrowserInv, Lapse PROVE BrowserInv'
<1> DEFINE c == [op |-> "disconnect"]
<1>1. Asks(c) /\ lease' = "cut" /\ UNCHANGED <<acting, broken, clicks, pageVars>>
    BY DEF Lapse
<1>2. c.op = "disconnect"
    OBVIOUS
<1> HIDE DEF c
<1>3. Continues /\ Hand(acting', mem') /\ CutOffStays'
    BY <1>1, <1>2, AsksRest
<1>4. Bystanders
    BY <1>1, InvFacts DEF Bystanders
<1>5. queue' = Append(queue, Op("state", 0, "none"))
    BY DEF Lapse
<1> QED
    BY <1>1, <1>3, <1>4, <1>5, JoinsStep

LEMMA CancelStep == ASSUME BrowserInv, Cancel PROVE BrowserInv'
<1> DEFINE c == [op |-> "cancel"]
<1>1. Asks(c) /\ UNCHANGED <<clicks, lease, pageVars>>
    BY DEF Cancel
<1>2. c.op = "cancel"
    OBVIOUS
<1> HIDE DEF c
<1>3. Continues /\ Hand(acting, mem') /\ CutOffStays'
    BY <1>1, <1>2, AsksRest, InvFacts
<1>4. Bystanders /\ acting' \in {acting, "none"} /\ Hand(acting', mem')
    BY <1>1, <1>3, InvFacts, NoHand DEF Cancel, Bystanders, Actors
<1>5. queue' = Append(queue, Op("state", 0, "none"))
    BY DEF Cancel
<1> QED
    BY <1>1, <1>3, <1>4, <1>5, JoinsStep

-----------------------------------------------------------------------------
(* The viewer's commands.                                                  *)

\* The command moves on while the page waits for it.
LEMMA CommandMoves ==
    ASSUME BrowserTypes, PicturesHold, PageHolds, cmd.at = "body",
           NEW at \in {"called", "failed"}, cmd' = [cmd EXCEPT !.at = at],
           view' = view, page' = page,
           mem'.private = mem.private \/ cmd.op \in {"hide", "show"}
    PROVE  PicturesHold' /\ PageHolds' /\ cmd' \in Commands /\ cmd'.at = at
<1>1. /\ cmd' \in Commands /\ cmd'.at = at /\ cmd'.op = cmd.op /\ cmd'.reply = cmd.reply
    BY DEF BrowserTypes, Commands
<1>2. PicturesHold'
    BY <1>1 DEF PicturesHold
<1>3. PageHolds'
    BY <1>1 DEF PageHolds
<1> QED
    BY <1>1, <1>2, <1>3

LEMMA CommandFails ==
    ASSUME BrowserInv, cmd.at = "body", Fails410, queue' = queue, view' = view, page' = page,
           LinkTypes', Bystanders, acting' = acting, mem' = mem, CutOffStays'
    PROVE  BrowserInv'
<1>1. PicturesHold' /\ PageHolds' /\ cmd' \in Commands
    BY CommandMoves DEF BrowserInv, Fails410
<1>2. Follows(mem, mem')
    BY InvFacts DEF LinkTypes, Follows, Snapshot
<1>3. queue' \in Seq(Operations) /\ QueueHolds'
    BY <1>2, SameQueue DEF BrowserInv
<1>4. HandsHold'
    BY DEF HandsHold, BrowserInv
<1>5. BrowserTypes'
    BY <1>1, <1>3 DEF BrowserInv, BrowserTypes, Bystanders
<1> QED
    BY <1>1, <1>3, <1>4, <1>5 DEF BrowserInv

LEMMA CommandCalled ==
    ASSUME BrowserInv, cmd.at = "body", cmd' = [cmd EXCEPT !.at = "called"],
           NEW op \in {"input", "ready", "state", "observe"}, NEW g \in Nat,
           queue' = Append(queue, Op(op, g, "cmd")), view' = view, page' = page,
           LinkTypes', Bystanders, acting' = acting, Follows(mem, mem'), Hand(acting', mem'),
           mem'.private = mem.private \/ cmd.op \in {"hide", "show"},
           op = "observe" => ~mem'.private, CutOffStays'
    PROVE  BrowserInv'
<1> PICK o : o = Op(op, g, "cmd")
    OBVIOUS
<1>1. /\ o \in Operations /\ o.op = op /\ o.who = "cmd" /\ o.at = "queued" /\ o.shot = "none"
      /\ queue' = Append(queue, o)
    BY OpType
<1>2. PicturesHold' /\ PageHolds' /\ cmd' \in Commands /\ cmd'.at = "called"
    BY CommandMoves DEF BrowserInv
<1>3. Fits(o)' /\ Discreet(o)'
    BY <1>1, <1>2 DEF Fits, Discreet
<1>4. /\ queue' \in Seq(Operations) /\ QueueHolds'
      /\ queue' # <<>> /\ Head(queue').at \in {"admitted", "acted"} =>
            queue # <<>> /\ Head(queue).at = Head(queue').at
    BY <1>1, <1>2, <1>3, AppendKeeps DEF BrowserInv
<1>5. HandsHold'
    BY <1>4, InvFacts DEF HandsHold
<1>6. BrowserTypes'
    BY <1>2, <1>4 DEF BrowserInv, BrowserTypes, Bystanders
<1> QED
    BY <1>2, <1>4, <1>5, <1>6 DEF BrowserInv

LEMMA JournalFacts ==
    ASSUME NEW op \in Orders \ {"input"}
    PROVE  /\ Journal[op] \in {"takeover", "private_begin", "private_end", "resume", "disconnect"}
           /\ Queued[op] \in {"ready", "state", "observe"}
           /\ Journal[op] \in {"private_begin", "private_end"} => op \in {"hide", "show"}
           /\ Queued[op] = "observe" => Journal[op] = "resume"
           /\ op = "disconnect" => Journal[op] = "disconnect"
    BY DEF Journal, Queued, Orders

LEMMA OrderedStep ==
    ASSUME BrowserInv, cmd.at = "body", cmd.op # "input", lease = "held", Accepts,
           UNCHANGED <<acting, broken, view, page>>
    PROVE  BrowserInv'
<1> DEFINE c == [op |-> Journal[cmd.op], gen |-> cmd.gen]
<1>1. cmd.op \in Orders \ {"input"}
    BY DEF BrowserInv, BrowserTypes, Commands, PageHolds
<1>2. /\ c.op \in {"takeover", "private_begin", "private_end", "resume", "disconnect"}
      /\ c.op \in {"private_begin", "private_end"} => cmd.op \in {"hide", "show"}
      /\ Queued[cmd.op] \in {"ready", "state", "observe"}
      /\ Queued[cmd.op] = "observe" => c.op = "resume"
      /\ cmd.op = "disconnect" => c.op = "disconnect"
    BY <1>1, JournalFacts
<1>3. PICK r \in Heard(c) :
         /\ Hears(r)
         /\ IF r.ok
            THEN /\ queue' = Append(queue, Op(Queued[cmd.op], r.mem.gen, "cmd"))
                 /\ cmd' = [cmd EXCEPT !.at = "called"]
            ELSE Fails410 /\ UNCHANGED queue
    BY DEF Accepts
<1>4. lease' = IF cmd.op = "disconnect" THEN "cut" ELSE lease
    BY DEF Accepts
<1> HIDE DEF c
<1>5. Bystanders
    BY <1>4, InvFacts DEF Bystanders
<1>6. Heeded(c, r.ok) /\ r.ok \in BOOLEAN /\ r.mem = mem'
    BY <1>2, <1>3, InvFacts, HeardIsHeeded DEF Handovers
<1>7. CASE ~r.ok
  <2>1. mem' = mem /\ LinkTypes' /\ (Permits(mem, c) => ~Readable')
      BY <1>6, <1>7 DEF Heeded
  <2>2. c.op = "disconnect" => Permits(mem, c)
      BY DEF Permits
  <2>3. CutOffStays'
      BY <1>2, <1>4, <2>1, <2>2 DEF CutOffStays
  <2> QED
      BY <1>3, <1>5, <1>7, <2>1, <2>3, CommandFails
<1>8. CASE r.ok
  <2>1. LinkTypes' /\ mem' = Line(mem, c) /\ Permits(mem, c) /\ mem' \in Snapshot
      BY <1>6, <1>8 DEF Heeded
  <2>2. HandedOver(mem, c, mem')
      BY <1>2, <2>1, InvFacts, HandoverLine DEF LinkTypes, Handovers
  <2>3. /\ Follows(mem, mem') /\ Hand(acting, mem')
        /\ mem'.private = mem.private \/ cmd.op \in {"hide", "show"}
        /\ Queued[cmd.op] = "observe" => ~mem'.private
        /\ cmd.op = "disconnect" => mem'.mode \in Rest
      BY <1>2, <2>2, InvFacts DEF HandedOver
  <2>4. CutOffStays'
      BY <1>4, <2>3 DEF CutOffStays, Rest
  <2>5. mem'.gen \in Nat
      BY <2>1 DEF Snapshot
  <2>6. PICK op \in {"ready", "state", "observe"} : op = Queued[cmd.op]
      BY <1>2
  <2>7. PICK g \in Nat : g = mem'.gen
      BY <2>5
  <2>8. queue' = Append(queue, Op(op, g, "cmd")) /\ cmd' = [cmd EXCEPT !.at = "called"]
      BY <1>3, <1>6, <1>8, <2>6, <2>7
  <2> QED
      BY <1>5, <2>1, <2>3, <2>4, <2>6, <2>8, CommandCalled
<1> QED
    BY <1>6, <1>7, <1>8

LEMMA BodyReadStep == ASSUME BrowserInv, BodyRead PROVE BrowserInv'
<1>1. cmd.at = "body" /\ UNCHANGED <<acting, broken, clicks, view, page>>
    BY DEF BodyRead
<1>2. CASE lease = "cut"
  <2>1. Fails410 /\ UNCHANGED <<linkVars, queue, lease>>
      BY <1>2 DEF BodyRead
  <2>2. Continues /\ mem' = mem
      BY <2>1, Unmoved, InvFacts
  <2>3. CutOffStays' /\ Bystanders /\ LinkTypes'
      BY <1>1, <2>1, <2>2, CutKeeps, InvFacts DEF BrowserInv, Bystanders, Continues
  <2> QED
      BY <1>1, <2>1, <2>2, <2>3, CommandFails
<1>3. CASE lease # "cut" /\ cmd.op = "input"
  <2>1. /\ queue' = Append(queue, Op("input", cmd.gen, "cmd"))
        /\ cmd' = [cmd EXCEPT !.at = "called"]
        /\ UNCHANGED <<linkVars, lease>>
      BY <1>3 DEF BodyRead, Accepts
  <2>2. Continues /\ mem' = mem
      BY <2>1, Unmoved, InvFacts
  <2>3. CutOffStays' /\ Bystanders /\ LinkTypes' /\ Hand(acting', mem')
      BY <1>1, <2>1, <2>2, CutKeeps, InvFacts DEF BrowserInv, Bystanders, Continues
  <2>4. cmd.gen \in Nat
      BY DEF BrowserInv, BrowserTypes, Commands
  <2>5. PICK g \in Nat : g = cmd.gen
      BY <2>4
  <2> QED
      BY <1>1, <2>1, <2>2, <2>3, <2>5, CommandCalled DEF Continues
<1>4. CASE lease # "cut" /\ cmd.op # "input"
  <2>1. lease = "held" /\ Accepts
      BY <1>4, InvFacts DEF BodyRead
  <2> QED
      BY <1>1, <1>4, <2>1, OrderedStep
<1> QED
    BY <1>2, <1>3, <1>4

-----------------------------------------------------------------------------
(* The page.                                                               *)

LEMMA CommandStep ==
    ASSUME BrowserInv, NEW op \in DOMAIN Journal \cup {"input"}, Command(op)
    PROVE  BrowserInv'
<1>1. op \in Orders
    BY DEF Journal, Orders
<1>2. Continues /\ mem' = mem
    BY Unmoved, InvFacts DEF Command
<1>3. /\ acting' = acting /\ broken' = broken /\ lease' = lease /\ queue' = queue
      /\ page' = [page EXCEPT !.busy = TRUE,
                              !.screen = IF op \in {"hide", "show"} THEN "none" ELSE @]
      /\ view' = [view EXCEPT !.current = FALSE]
      /\ cmd' = [op |-> op, gen |-> page.gen, reply |-> NoView,
                 at |-> IF lease = "cut" THEN "failed" ELSE "body"]
      /\ ~page.busy
    BY DEF Command
<1>4. Bystanders
    BY <1>3, InvFacts DEF Bystanders
<1>t. view \in Refreshes /\ page \in Pages
    BY DEF BrowserInv, BrowserTypes
<1>5. NoView \in Views /\ NoView.shot = "none"
    BY DEF NoView, Views, Shots
<1>6. /\ cmd' \in Commands /\ cmd'.op = op /\ cmd'.reply.shot = "none"
      /\ cmd'.at \in {"failed", "body"}
    BY <1>1, <1>3, <1>5, <1>t DEF Commands, Pages
<1>7. /\ view' \in Refreshes /\ view'.at = view.at /\ view'.got = view.got
      /\ ~view'.current
    BY <1>3, <1>t DEF Refreshes
<1>8. page' \in Pages
    BY <1>3, <1>t DEF Pages, Shots
<1>9. page'.busy = TRUE /\ page'.screen = IF op \in {"hide", "show"} THEN "none" ELSE page.screen
    BY <1>3, <1>t DEF Pages
<1>10. cmd.at = "idle"
    BY <1>3 DEF BrowserInv, PageHolds
<1>11. PicturesHold'
    BY <1>6, <1>7 DEF BrowserInv, PicturesHold
<1>12. PageHolds'
  <2>1. op # "none"
      BY <1>1 DEF Orders
  <2> QED
      BY <1>2, <1>6, <1>7, <1>9, <2>1 DEF BrowserInv, PageHolds
<1>13. queue' \in Seq(Operations) /\ QueueHolds'
    BY <1>2, <1>3, <1>7, <1>10, SameQueue DEF BrowserInv, Continues
<1>14. HandsHold' /\ CutOffStays'
    BY <1>2, <1>3, CutKeeps DEF BrowserInv, HandsHold
<1>15. BrowserTypes'
    BY <1>4, <1>6, <1>7, <1>8, <1>13, <1>2 DEF BrowserTypes, Bystanders, Continues
<1> QED
    BY <1>11, <1>12, <1>13, <1>14, <1>15 DEF BrowserInv

LEMMA ShownFacts ==
    ASSUME page \in Pages, NEW v \in Views
    PROVE  /\ Shown(v) \in Pages /\ Shown(v).busy = page.busy /\ Shown(v).stopped = page.stopped
           /\ Shown(v).screen = IF v.shot # "none" THEN v.shot
                                ELSE IF v.private THEN "none" ELSE page.screen
<1>1. v.shot \in Shots /\ v.gen \in Nat /\ v.private \in BOOLEAN
      /\ v.mode \in Modes \cup {"unknown", "unavailable"} /\ page.screen \in Shots
    BY DEF Views, Pages
<1> DEFINE screen == IF v.shot # "none" THEN v.shot ELSE IF v.private THEN "none" ELSE page.screen
<1>2. screen \in Shots
    BY <1>1 DEF Shots
<1>3. Shown(v) = [page EXCEPT !.mode = v.mode, !.gen = v.gen, !.private = v.private,
                              !.screen = screen]
    BY DEF Shown
<1>4. PICK z : z = screen
    OBVIOUS
<1> HIDE DEF screen
<1>5. Shown(v) \in Pages
    BY <1>1, <1>2, <1>3 DEF Pages
<1>6. Shown(v).busy = page.busy /\ Shown(v).stopped = page.stopped /\ Shown(v).screen = screen
    BY <1>3 DEF Pages
<1> QED
    BY <1>5, <1>6 DEF screen

\* The page hears something and may show it; the rest of the system stays.
LEMMA PageStep ==
    ASSUME BrowserInv, UNCHANGED <<linkVars, queue, acting, broken, lease>>,
           cmd' \in Commands, view' \in Refreshes, page' \in Pages,
           PicturesHold', PageHolds',
           cmd'.at = cmd.at \/ cmd.at # "called", view'.at = view.at \/ view.at # "called"
    PROVE  BrowserInv'
<1>1. Continues /\ mem' = mem
    BY Unmoved, InvFacts
<1>2. Bystanders
    BY InvFacts DEF Bystanders
<1>3. queue' \in Seq(Operations) /\ QueueHolds'
    BY <1>1, SameQueue DEF BrowserInv, Continues
<1>4. HandsHold' /\ CutOffStays'
    BY <1>1, CutKeeps DEF BrowserInv, HandsHold
<1>5. BrowserTypes'
    BY <1>1, <1>2, <1>3 DEF BrowserTypes, Bystanders, Continues
<1> QED
    BY <1>3, <1>4, <1>5 DEF BrowserInv

LEMMA CommandReturnsStep == ASSUME BrowserInv, CommandReturns PROVE BrowserInv'
<1> DEFINE p == IF cmd.at = "ok" THEN Shown(cmd.reply) ELSE page
           q == [p EXCEPT !.busy = FALSE]
<1>1. /\ cmd.at \in {"ok", "failed"} /\ cmd' = NoCmd /\ view' = view
      /\ UNCHANGED <<linkVars, queue, acting, broken, lease>>
      /\ page' = IF cmd.op = "disconnect" THEN [q EXCEPT !.stopped = TRUE, !.screen = "none"] ELSE q
    BY DEF CommandReturns
<1>t. cmd \in Commands /\ view \in Refreshes /\ page \in Pages /\ cmd.reply \in Views
    BY DEF BrowserInv, BrowserTypes, Commands
<1>m. mem' = mem
    BY <1>1 DEF linkVars
<1>2. p \in Pages /\ (mem.private => p.screen = "none")
  <2>1. mem.private => page.screen = "none"
      BY DEF BrowserInv, PageHolds
  <2>2. CASE cmd.at = "ok"
    <3>1. mem.private => cmd.reply.shot = "none"
        BY <2>2 DEF BrowserInv, PicturesHold
    <3>2. /\ Shown(cmd.reply) \in Pages
          /\ Shown(cmd.reply).screen = IF cmd.reply.shot # "none" THEN cmd.reply.shot
                                       ELSE IF cmd.reply.private THEN "none" ELSE page.screen
        BY <1>t, ShownFacts
    <3> QED
        BY <2>1, <2>2, <3>1, <3>2
  <2>3. CASE cmd.at # "ok"
      BY <2>1, <2>3, <1>t
  <2> QED
      BY <2>2, <2>3
<1> HIDE DEF p
<1>3. q \in Pages /\ q.busy = FALSE /\ q.screen = p.screen
    BY <1>2 DEF Pages
<1> HIDE DEF q
<1>4. page' \in Pages /\ page'.busy = FALSE /\ (mem.private => page'.screen = "none")
    BY <1>1, <1>2, <1>3 DEF Pages, Shots
<1>5. /\ NoCmd \in Commands /\ NoCmd.at = "idle" /\ NoCmd.reply.shot = "none"
    BY DEF NoCmd, Commands, NoView, Views, Shots, Orders
<1>6. PicturesHold'
    BY <1>1, <1>5 DEF BrowserInv, PicturesHold
<1>7. PageHolds'
    BY <1>1, <1>m, <1>4, <1>5 DEF BrowserInv, PageHolds
<1> QED
    BY <1>1, <1>t, <1>4, <1>5, <1>6, <1>7, PageStep

LEMMA RefreshStep == ASSUME BrowserInv, Refresh PROVE BrowserInv'
<1> DEFINE got == View(mem, "none")
<1>1. /\ view.at = "idle" /\ ~page.busy /\ cmd' = cmd /\ page' = page
      /\ UNCHANGED <<linkVars, acting, broken, lease>>
      /\ view' = [at |-> IF mem.private THEN "got" ELSE "called", got |-> got, current |-> TRUE]
      /\ queue' = IF mem.private THEN queue ELSE Append(queue, Op("frame", 0, "frame"))
    BY DEF Refresh
<1>t. cmd \in Commands /\ page \in Pages /\ mem \in Snapshot
    BY InvFacts DEF BrowserInv, BrowserTypes
<1>2. got \in Views /\ got.shot = "none" /\ got.private = mem.private
    BY <1>t, ViewType DEF Shots
<1> HIDE DEF got
<1>3. /\ view' \in Refreshes /\ view'.got = got
      /\ view'.at = IF mem.private THEN "got" ELSE "called"
    BY <1>1, <1>2 DEF Refreshes
<1>4. Continues /\ mem' = mem
    BY <1>1, Unmoved, InvFacts
<1>5. PicturesHold'
    BY <1>1, <1>2, <1>3, <1>4 DEF BrowserInv, PicturesHold
<1>6. PageHolds'
    BY <1>1, <1>2, <1>3, <1>4 DEF BrowserInv, PageHolds
<1>7. CASE mem.private
    BY <1>1, <1>t, <1>3, <1>5, <1>6, <1>7, PageStep
<1>8. CASE ~mem.private
  <2> PICK o : o = Op("frame", 0, "frame")
      OBVIOUS
  <2>1. /\ o \in Operations /\ o.op = "frame" /\ o.who = "frame" /\ o.at = "queued"
        /\ o.shot = "none" /\ queue' = Append(queue, o)
      BY <1>1, <1>8, OpType
  <2>2. Fits(o)' /\ Discreet(o)'
      BY <2>1, <1>3, <1>8 DEF Fits, Discreet
  <2>3. /\ queue' \in Seq(Operations) /\ QueueHolds'
        /\ queue' # <<>> /\ Head(queue').at \in {"admitted", "acted"} =>
              queue # <<>> /\ Head(queue).at = Head(queue').at
      BY <2>1, <2>2, <1>1, <1>4, AppendKeeps DEF BrowserInv, Continues
  <2>4. HandsHold'
      BY <2>3, <1>1, <1>4, InvFacts DEF HandsHold
  <2>5. CutOffStays'
      BY <1>1, <1>4, CutKeeps DEF BrowserInv
  <2>6. BrowserTypes'
      BY <2>3, <1>1, <1>t, <1>3, <1>4, InvFacts DEF BrowserTypes, Continues
  <2> QED
      BY <2>3, <2>4, <2>5, <2>6, <1>5, <1>6 DEF BrowserInv
<1> QED
    BY <1>7, <1>8

LEMMA RefreshReturnsStep == ASSUME BrowserInv, RefreshReturns PROVE BrowserInv'
<1>1. /\ view.at = "got" /\ view' = NoRefresh /\ cmd' = cmd
      /\ UNCHANGED <<linkVars, queue, acting, broken, lease>>
      /\ page' = IF ~page.stopped /\ ~page.busy /\ view.current THEN Shown(view.got) ELSE page
    BY DEF RefreshReturns
<1>t. cmd \in Commands /\ view \in Refreshes /\ page \in Pages /\ view.got \in Views
    BY DEF BrowserInv, BrowserTypes, Refreshes
<1>m. mem' = mem
    BY <1>1 DEF linkVars
<1>2. NoRefresh \in Refreshes /\ NoRefresh.at = "idle" /\ NoRefresh.got.shot = "none"
    BY DEF NoRefresh, Refreshes, NoView, Views, Shots
<1>3. /\ page' \in Pages /\ page'.busy = page.busy
      /\ mem.private => page'.screen = "none"
      /\ page.busy => page'.screen = page.screen
  <2>1. mem.private => page.screen = "none"
      BY DEF BrowserInv, PageHolds
  <2>2. CASE ~page.stopped /\ ~page.busy /\ view.current
    <3>1. /\ Shown(view.got) \in Pages /\ Shown(view.got).busy = page.busy
          /\ Shown(view.got).screen = IF view.got.shot # "none" THEN view.got.shot
                                      ELSE IF view.got.private THEN "none" ELSE page.screen
        BY <1>t, ShownFacts
    <3>2. mem.private => view.got.private /\ view.got.shot = "none"
        BY <1>1, <2>2 DEF BrowserInv, PageHolds
    <3> QED
        BY <1>1, <2>2, <3>1, <3>2
  <2>3. CASE ~(~page.stopped /\ ~page.busy /\ view.current)
      BY <1>1, <1>t, <2>1, <2>3
  <2> QED
      BY <2>2, <2>3
<1>4. PicturesHold'
    BY <1>1, <1>m, <1>2 DEF BrowserInv, PicturesHold
<1>5. PageHolds'
    BY <1>1, <1>m, <1>2, <1>3 DEF BrowserInv, PageHolds
<1> QED
    BY <1>1, <1>t, <1>2, <1>3, <1>4, <1>5, PageStep

-----------------------------------------------------------------------------
(* The theorems.                                                           *)

LEMMA BrowserInvInit == BrowserInit => BrowserInv
<1> SUFFICES ASSUME BrowserInit PROVE BrowserInv
    OBVIOUS
<1>1. /\ mem = Reopened(Blank) /\ dead = FALSE /\ poisoned = FALSE /\ gen = 0
      /\ queue = <<>> /\ acting = "none" /\ broken = FALSE /\ lease = "held"
      /\ cmd = NoCmd /\ view = NoRefresh
      /\ page = [mode |-> "unknown", gen |-> 0, private |-> FALSE, screen |-> "none",
                 busy |-> FALSE, stopped |-> FALSE]
    BY DEF BrowserInit, LinkInit
<1>2. Blank \in Snapshot /\ Blank.seq = 0 /\ ~Blank.uncertain /\ ~Blank.private
    BY NoApprovalType DEF Blank, Snapshot, Modes, Asked0
<1>3. Reopened(Blank) = Written(Blank)
    BY <1>2 DEF Reopened
<1>4. mem \in Snapshot /\ ~mem.uncertain /\ ~mem.private
    BY <1>1, <1>2, <1>3, WrittenFacts DEF Kept
<1>5. /\ cmd \in Commands /\ cmd.at = "idle" /\ cmd.reply.shot = "none"
    BY <1>1 DEF NoCmd, Commands, NoView, Views, Shots, Orders
<1>6. /\ view \in Refreshes /\ view.at = "idle" /\ view.got.shot = "none"
    BY <1>1 DEF NoRefresh, Refreshes, NoView, Views, Shots
<1>7. page \in Pages /\ page.busy = FALSE /\ page.screen = "none"
    BY <1>1 DEF Pages, Shots
<1>8. queue \in Seq(Operations) /\ Len(queue) = 0
    BY <1>1
<1>9. BrowserTypes
    BY <1>1, <1>4, <1>5, <1>6, <1>7, <1>8 DEF BrowserTypes, LinkTypes, Actors
<1>10. QueueHolds
    BY <1>8 DEF QueueHolds
<1>11. HandsHold
    BY <1>1, NoHand DEF HandsHold
<1>12. PicturesHold /\ PageHolds
    BY <1>4, <1>5, <1>6, <1>7 DEF PicturesHold, PageHolds
<1>13. CutOffStays
    BY <1>1 DEF CutOffStays
<1> QED
    BY <1>9, <1>10, <1>11, <1>12, <1>13 DEF BrowserInv

LEMMA NothingStep == ASSUME BrowserInv, UNCHANGED vars PROVE BrowserInv'
<1>1. UNCHANGED <<linkVars, queue, acting, broken, lease, cmd, view, page>>
    BY DEF vars, pageVars
<1>2. mem' = mem
    BY <1>1 DEF linkVars
<1>3. PicturesHold' /\ PageHolds' /\ cmd' \in Commands /\ view' \in Refreshes /\ page' \in Pages
    BY <1>1, <1>2, SamePage DEF BrowserInv, pageVars
<1> QED
    BY <1>1, <1>3, PageStep

LEMMA BrowserInvNext == BrowserInv /\ [Next]_vars => BrowserInv'
<1> SUFFICES ASSUME BrowserInv, [Next]_vars PROVE BrowserInv'
    OBVIOUS
<1>1. CASE AgentClick
    BY <1>1, AgentClickStep
<1>2. CASE ActsLate
    BY <1>2, ActsLateStep
<1>3. CASE Lapse
    BY <1>3, LapseStep
<1>4. CASE Cancel
    BY <1>4, CancelStep
<1>5. CASE Admit
    BY <1>5, AdmitStep
<1>6. CASE Dispatch
    BY <1>6, DispatchStep
<1>7. CASE Acted
    BY <1>7, ActedStep
<1>8. CASE ActFails
    BY <1>8, ActFailsStep
<1>9. CASE Settle
    BY <1>9, SettleStep
<1>10. CASE Abandon
    BY <1>10, AbandonStep
<1>11. CASE HumanReady
    BY <1>11, HumanReadyStep
<1>12. CASE State
    BY <1>12, StateStep
<1>13. CASE FrameAllowed
    BY <1>13, FrameAllowedStep
<1>14. CASE Observe
    BY <1>14, ObserveStep
<1>15. CASE ObserveFails
    BY <1>15, ObserveFailsStep
<1>16. CASE Frame
    BY <1>16, FrameStep
<1>17. CASE Observed
    BY <1>17, ObservedStep
<1>18. CASE BodyRead
    BY <1>18, BodyReadStep
<1>19. CASE \E op \in DOMAIN Journal \cup {"input"} : Command(op)
    BY <1>19, CommandStep
<1>20. CASE CommandReturns
    BY <1>20, CommandReturnsStep
<1>21. CASE Refresh
    BY <1>21, RefreshStep
<1>22. CASE RefreshReturns
    BY <1>22, RefreshReturnsStep
<1>23. CASE UNCHANGED vars
    BY <1>23, NothingStep
<1> QED
    BY <1>1, <1>2, <1>3, <1>4, <1>5, <1>6, <1>7, <1>8, <1>9, <1>10, <1>11, <1>12, <1>13,
       <1>14, <1>15, <1>16, <1>17, <1>18, <1>19, <1>20, <1>21, <1>22, <1>23 DEF Next

\* The queue of the browser, the journal's pending action, the page and the
\* hands in the browser stay in step.
THEOREM BrowserCorrect == Spec => []BrowserInv
<1> QED
    BY BrowserInvInit, BrowserInvNext, PTL DEF Spec

\* No picture taken while the screen was private leaves the host, and a page
\* whose command has been answered shows none while it is private: the frame
\* bears the generation it was allowed at, and the journal is asked again.
THEOREM PrivateStaysHidden == Spec => []PrivateIsHidden
<1>1. BrowserInv => PrivateIsHidden
    BY DEF BrowserInv, PicturesHold, PageHolds, PrivateIsHidden
<1> QED
    BY <1>1, BrowserCorrect, PTL

\* Agent and human do not act in the browser at the other's time, also when an
\* action has failed and goes on: its ticket stays pending until it is settled.
THEOREM OneHandAtATime == Spec => []OneHand
<1>1. BrowserInv => OneHand
    BY DEF BrowserInv, HandsHold, Hand, OneHand
<1> QED
    BY <1>1, BrowserCorrect, PTL

\* A viewer that was disconnected, or lapsed, never gets the browser back by a
\* request that was on its way.
THEOREM CutOffForGood == Spec => []CutOffStays
<1>1. BrowserInv => CutOffStays
    BY DEF BrowserInv
<1> QED
    BY <1>1, BrowserCorrect, PTL
=============================================================================
