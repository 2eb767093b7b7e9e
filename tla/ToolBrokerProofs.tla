-------------------------- MODULE ToolBrokerProofs --------------------------
(***************************************************************************)
(* Theorems about the tool path, for every set of requests and callers and *)
(* every bound on lines, hands and failures: a request is executed once at *)
(* most, never without a line of the journal to show for it, never while a *)
(* human has control and never after its outcome is on record.             *)
(***************************************************************************)
EXTENDS ToolBroker, TLAPS

USE JournalAssumption, LinkAssumption, BrokerAssumption

-----------------------------------------------------------------------------
(* Snapshots and the commands the host writes.                              *)

Modes == {"agent", "awaiting_approval", "pausing", "human", "resuming", "paused", "cancelled"}
Asked0 == Requests \cup {NoRequest}
Settlement == [ticket: Nat, req: Asked0]
Resolution == [ticket: Nat, req: Requests, outcome: Outcomes]

Snapshot ==
    [seq: Nat, gen: Nat, mode: Modes, private: BOOLEAN, decision: {"none", "allow", "deny"},
     pending: Nat, scope: Asked0, required: BOOLEAN, dispatched: BOOLEAN, uncertain: BOOLEAN,
     approval: [id: Nat, gen: Nat, req: Asked0, keep: BOOLEAN], requests: SUBSET Requests,
     results: SUBSET Settlement, resolutions: SUBSET Resolution]

Ended(s) == s.results \cup s.resolutions

\* A snapshot the journal can be in: an action that is pending has its own
\* line and no outcome yet, only a pending action is dispatched, and nothing
\* is pending while a human acts or an approval is awaited.
Sound(s) ==
    /\ s \in Snapshot
    /\ s.pending <= s.seq
    /\ s.dispatched => s.pending # 0
    /\ s.mode \in {"human", "awaiting_approval", "resuming"} => s.pending = 0
    /\ \A e \in Ended(s) : e.ticket # 0 /\ e.ticket <= s.seq /\ e.ticket # s.pending
    /\ \A e \in s.results, f \in s.resolutions : e.ticket # f.ticket

\* The journal can tell of a request that it may have had an effect.
Accounted(s, r) == (s.scope = r /\ s.dispatched) \/ \E e \in Ended(s) : e.req = r

Proposals   == [op: {"propose"}, gen: Nat, req: Requests, keep: BOOLEAN]
Decisions   == [op: {"decide"}, id: Nat, req: Requests, verdict: {"allow", "deny"}]
Dispatches  == [op: {"dispatch"}, actor: {"agent"}, gen: Nat, ticket: Nat \ {0}]
Settlements == [op: {"settle"}, ticket: Nat, result: {TRUE}]
Orders      == [op: Operations, gen: Nat]
Reviews     == [op: {"reconcile"}, ticket: Nat, req: Requests, seq: Nat, gen: Nat,
                absent: {TRUE}, outcome: Outcomes, result: BOOLEAN]

Commands == {Disconnect} \cup Proposals \cup Decisions \cup Dispatches
            \cup Settlements \cup Orders \cup Reviews

LEMMA ClearedFacts ==
    ASSUME NEW s \in Snapshot
    PROVE  /\ Cleared(s) \in Snapshot
           /\ Cleared(s).pending = 0 /\ Cleared(s).scope = NoRequest /\ ~Cleared(s).dispatched
           /\ Cleared(s).seq = s.seq /\ Cleared(s).gen = s.gen /\ Cleared(s).mode = s.mode
           /\ Cleared(s).requests = s.requests
           /\ Cleared(s).results = s.results /\ Cleared(s).resolutions = s.resolutions
    BY DEF Cleared, Snapshot, Asked0

LEMMA BumpedFacts ==
    ASSUME NEW s \in Snapshot
    PROVE  /\ Bumped(s) \in Snapshot
           /\ Bumped(s).pending = s.pending /\ Bumped(s).scope = s.scope
           /\ Bumped(s).dispatched = s.dispatched /\ Bumped(s).uncertain = s.uncertain
           /\ Bumped(s).seq = s.seq /\ Bumped(s).mode = s.mode
           /\ Bumped(s).requests = s.requests
           /\ Bumped(s).results = s.results /\ Bumped(s).resolutions = s.resolutions
    BY DEF Bumped, Snapshot

LEMMA WrittenFacts ==
    ASSUME NEW s \in Snapshot
    PROVE  /\ Written(s) \in Snapshot /\ Written(s).seq = s.seq + 1
           /\ Written(s).pending = s.pending /\ Written(s).scope = s.scope
           /\ Written(s).dispatched = s.dispatched /\ Written(s).decision = s.decision
           /\ Written(s).approval = s.approval /\ Written(s).mode = s.mode
           /\ Written(s).requests = s.requests
           /\ Written(s).results = s.results /\ Written(s).resolutions = s.resolutions
    BY DEF Written, Snapshot

LEMMA NoApprovalType == NoApproval \in [id: Nat, gen: Nat, req: Asked0, keep: BOOLEAN]
    BY DEF NoApproval, Asked0

LEMMA RevokedFacts ==
    ASSUME NEW s \in Snapshot
    PROVE  LET t == revoke_undispatched(s)
           IN  /\ t \in Snapshot
               /\ t.seq = s.seq /\ t.requests = s.requests /\ t.mode = s.mode
               /\ t.results = s.results /\ t.resolutions = s.resolutions
               /\ \/ t.pending = s.pending /\ t.scope = s.scope /\ t.dispatched = s.dispatched
                  \/ t.pending = 0 /\ ~t.dispatched /\ ~s.dispatched
<1> DEFINE t == [s EXCEPT !.approval = NoApproval]
<1>1. t \in Snapshot
    BY NoApprovalType DEF Snapshot
<1>2. /\ t.seq = s.seq /\ t.requests = s.requests /\ t.mode = s.mode
      /\ t.results = s.results /\ t.resolutions = s.resolutions
      /\ t.pending = s.pending /\ t.scope = s.scope /\ t.dispatched = s.dispatched
    BY DEF Snapshot
<1>3. revoke_undispatched(s) = IF s.dispatched \/ s.uncertain THEN t ELSE Cleared(t)
    BY DEF revoke_undispatched
<1> HIDE DEF t
<1> QED
    BY <1>1, <1>2, <1>3, ClearedFacts

LEMMA PendedFacts ==
    ASSUME NEW s \in Snapshot, NEW r \in Asked0, NEW keep \in BOOLEAN
    PROVE  /\ Pended(s, r, keep) \in Snapshot
           /\ Pended(s, r, keep).pending = s.seq + 1 /\ Pended(s, r, keep).scope = r
           /\ ~Pended(s, r, keep).dispatched
           /\ Pended(s, r, keep).seq = s.seq /\ Pended(s, r, keep).decision = s.decision
           /\ Pended(s, r, keep).mode = s.mode /\ Pended(s, r, keep).requests = s.requests
           /\ Pended(s, r, keep).results = s.results
           /\ Pended(s, r, keep).resolutions = s.resolutions
<1>1. s.seq \in Nat
    BY DEF Snapshot
<1>2. s.seq + 1 \in Nat
    BY <1>1
<1>3. Pended(s, r, keep) \in Snapshot
    BY <1>2 DEF Pended, Snapshot
<1>4. /\ Pended(s, r, keep).pending = s.seq + 1 /\ Pended(s, r, keep).scope = r
      /\ Pended(s, r, keep).dispatched = FALSE
      /\ Pended(s, r, keep).seq = s.seq /\ Pended(s, r, keep).decision = s.decision
      /\ Pended(s, r, keep).mode = s.mode /\ Pended(s, r, keep).requests = s.requests
      /\ Pended(s, r, keep).results = s.results
      /\ Pended(s, r, keep).resolutions = s.resolutions
    BY DEF Pended, Snapshot
<1> QED
    BY <1>3, <1>4

-----------------------------------------------------------------------------
(* What a line of the journal says of the line before it.                   *)

Receipt(s, c) == [ticket |-> c.ticket, req |-> s.scope]
Verdict(c) == [ticket |-> c.ticket, req |-> c.req, outcome |-> c.outcome]

Follows(s, c, t) ==
    /\ Sound(t) /\ t.seq = s.seq + 1 /\ s.requests \subseteq t.requests
    /\ \A r \in Requests : Accounted(s, r) => Accounted(t, r)
    /\ t.pending = 0 \/ t.pending = t.seq \/ (t.pending = s.pending /\ t.scope = s.scope)
    /\ \/ t.results = s.results
       \/ /\ c.op = "settle" /\ s.pending = c.ticket /\ s.dispatched
          /\ t.results = s.results \cup {Receipt(s, c)}
    /\ \/ t.resolutions = s.resolutions
       \/ c.op = "reconcile" /\ t.resolutions = s.resolutions \cup {Verdict(c)}

LEMMA ProposeFollows ==
    ASSUME NEW s, Sound(s), NEW c \in Proposals, Permits(s, c)
    PROVE  LET t == Written(Effect(s, c))
           IN  Follows(s, c, t) /\ c.req \notin s.requests /\ c.req \in t.requests
<1> DEFINE E == Effect(s, c)
<1>a. s \in Snapshot /\ s.seq \in Nat /\ s.seq + 1 \in Nat
    BY DEF Sound, Snapshot
<1>c. c.op = "propose" /\ c.gen \in Nat /\ c.req \in Requests /\ c.keep \in BOOLEAN
    BY DEF Proposals
<1>p. s.pending = 0 /\ c.req \notin s.requests
    BY <1>c DEF Permits, Proposable
<1> DEFINE A == [id |-> s.seq + 1, gen |-> c.gen, req |-> c.req, keep |-> c.keep]
           R == s.requests \cup {c.req}
<1>1. E = [s EXCEPT !.mode = "awaiting_approval", !.requests = R, !.decision = "none",
                    !.approval = A]
    BY <1>c DEF Effect
<1>2. A \in [id: Nat, gen: Nat, req: Asked0, keep: BOOLEAN] /\ R \in SUBSET Requests
    BY <1>a, <1>c DEF Asked0, Snapshot
<1> HIDE DEF A, E
<1>3. E \in Snapshot
  <2> HIDE DEF R
  <2> QED
    BY <1>1, <1>2, <1>a DEF Snapshot, Modes
<1>4. /\ E.seq = s.seq /\ E.pending = 0 /\ E.scope = s.scope /\ E.dispatched = s.dispatched
      /\ E.results = s.results /\ E.resolutions = s.resolutions
      /\ E.requests = s.requests \cup {c.req}
    BY <1>1, <1>a, <1>p DEF Snapshot
<1> HIDE DEF E
<1>5. /\ Written(E) \in Snapshot /\ Written(E).seq = s.seq + 1
      /\ Written(E).pending = 0 /\ Written(E).scope = s.scope
      /\ Written(E).dispatched = s.dispatched
      /\ Written(E).results = s.results /\ Written(E).resolutions = s.resolutions
      /\ Written(E).requests = s.requests \cup {c.req}
    BY <1>3, <1>4, WrittenFacts
<1> DEFINE t == Written(E)
<1> HIDE DEF t
<1>6. Sound(t)
    BY <1>5, <1>a, <1>p DEF Sound, Ended, t, Settlement, Resolution, Snapshot
<1>7. \A r \in Requests : Accounted(s, r) => Accounted(t, r)
    BY <1>5 DEF Accounted, Ended, t
<1> QED
    BY <1>5, <1>6, <1>7, <1>p DEF Follows, t, E


LEMMA DecideFollows ==
    ASSUME NEW s, Sound(s), NEW c \in Decisions, Permits(s, c)
    PROVE  LET t == Written(Effect(s, c))
           IN  /\ Follows(s, c, t) /\ t.decision = c.verdict
               /\ c.verdict = "allow" => t.pending = t.seq /\ t.scope = c.req
<1> DEFINE E == Effect(s, c)
           T == [s EXCEPT !.mode = "agent", !.approval = NoApproval, !.decision = c.verdict]
<1>a. s \in Snapshot /\ s.seq \in Nat /\ s.seq + 1 \in Nat
    BY DEF Sound, Snapshot
<1>c. c.op = "decide" /\ c.req \in Requests /\ c.verdict \in {"allow", "deny"}
    BY DEF Decisions
<1>p. s.pending = 0 /\ ~s.dispatched /\ s.approval.req = c.req /\ s.approval.keep \in BOOLEAN
  <2>1. s.approval.req = c.req /\ s.mode = "awaiting_approval"
      BY <1>c DEF Permits, Current
  <2>2. s.approval.keep \in BOOLEAN
      BY <1>a DEF Snapshot
  <2> QED
      BY <2>1, <2>2 DEF Sound
<1>1. E = IF c.verdict = "allow" THEN Pended(T, s.approval.req, s.approval.keep) ELSE T
    BY <1>c DEF Effect
<1>2. T \in Snapshot
    BY <1>a, <1>c, NoApprovalType DEF Snapshot, Modes
<1>3. /\ T.seq = s.seq /\ T.pending = 0 /\ T.scope = s.scope /\ T.dispatched = s.dispatched
      /\ T.results = s.results /\ T.resolutions = s.resolutions /\ T.requests = s.requests
      /\ T.decision = c.verdict /\ T.mode = "agent"
    BY <1>a, <1>p DEF Snapshot
<1> HIDE DEF T, E
<1>4. /\ E \in Snapshot /\ E.seq = s.seq /\ E.dispatched = FALSE /\ E.mode = "agent"
      /\ E.results = s.results /\ E.resolutions = s.resolutions /\ E.requests = s.requests
      /\ E.decision = c.verdict
      /\ \/ c.verdict = "allow" /\ E.pending = s.seq + 1 /\ E.scope = c.req
         \/ c.verdict # "allow" /\ E.pending = 0
  <2>1. CASE c.verdict = "allow"
    <3>1. c.req \in Asked0
        BY <1>c DEF Asked0
    <3>2. E = Pended(T, c.req, s.approval.keep)
        BY <1>1, <1>p, <2>1
    <3>3. Pended(T, c.req, s.approval.keep).dispatched \in BOOLEAN
        BY <3>1, <1>2, <1>p, PendedFacts DEF Snapshot
    <3> QED
        BY <3>1, <3>2, <3>3, <2>1, <1>2, <1>3, <1>p, PendedFacts
  <2>2. CASE c.verdict # "allow"
    <3>1. s.dispatched = FALSE
        BY <1>a, <1>p DEF Snapshot
    <3> QED
        BY <3>1, <2>2, <1>1, <1>2, <1>3
  <2> QED
      BY <2>1, <2>2
<1> DEFINE t == Written(E)
<1>5. /\ t \in Snapshot /\ t.seq = s.seq + 1 /\ t.dispatched = FALSE /\ t.mode = "agent"
      /\ t.results = s.results /\ t.resolutions = s.resolutions /\ t.requests = s.requests
      /\ t.decision = c.verdict
      /\ \/ c.verdict = "allow" /\ t.pending = t.seq /\ t.scope = c.req
         \/ c.verdict # "allow" /\ t.pending = 0
    BY <1>4, WrittenFacts
<1> HIDE DEF t
<1>6. Sound(t)
    BY <1>5, <1>a, <1>p DEF Sound, Ended, Settlement, Resolution, Snapshot
<1>7. \A r \in Requests : Accounted(s, r) => Accounted(t, r)
    BY <1>5, <1>p DEF Accounted, Ended
<1> QED
    BY <1>5, <1>6, <1>7 DEF Follows, t, E

LEMMA DispatchFollows ==
    ASSUME NEW s, Sound(s), NEW c \in Dispatches, Permits(s, c)
    PROVE  LET t == Written(Effect(s, c))
           IN  Follows(s, c, t) /\ s.pending = c.ticket /\ t.dispatched /\ t.scope = s.scope
<1> DEFINE E == Effect(s, c)
<1>a. s \in Snapshot /\ s.seq \in Nat /\ s.seq + 1 \in Nat
    BY DEF Sound, Snapshot
<1>c. c.op = "dispatch" /\ c.actor = "agent" /\ c.ticket \in Nat /\ c.ticket # 0
    BY DEF Dispatches
<1>p. s.pending = c.ticket /\ s.mode = "agent"
    BY <1>c DEF Permits, Current
<1>1. E = [s EXCEPT !.dispatched = TRUE]
    BY <1>c DEF Effect
<1>2. /\ E \in Snapshot /\ E.seq = s.seq /\ E.dispatched = TRUE /\ E.mode = s.mode
      /\ E.results = s.results /\ E.resolutions = s.resolutions /\ E.requests = s.requests
      /\ E.pending = s.pending /\ E.scope = s.scope
    BY <1>1, <1>a DEF Snapshot
<1> HIDE DEF E
<1> DEFINE t == Written(E)
<1>5. /\ t \in Snapshot /\ t.seq = s.seq + 1 /\ t.dispatched = TRUE /\ t.mode = "agent"
      /\ t.results = s.results /\ t.resolutions = s.resolutions /\ t.requests = s.requests
      /\ t.pending = s.pending /\ t.scope = s.scope
    BY <1>2, <1>p, WrittenFacts
<1> HIDE DEF t
<1>6. Sound(t)
    BY <1>5, <1>a, <1>p, <1>c DEF Sound, Ended, Settlement, Resolution, Snapshot
<1>7. \A r \in Requests : Accounted(s, r) => Accounted(t, r)
    BY <1>5 DEF Accounted, Ended
<1> QED
    BY <1>5, <1>6, <1>7, <1>p DEF Follows, t, E

LEMMA SettleFollows ==
    ASSUME NEW s, Sound(s), NEW c \in Settlements, Permits(s, c)
    PROVE  Follows(s, c, Written(Effect(s, c)))
<1> DEFINE E == Effect(s, c)
           R == s.results \cup {Receipt(s, c)}
           X == [s EXCEPT !.results = R]
<1>a. s \in Snapshot /\ s.seq \in Nat /\ s.seq + 1 \in Nat /\ s.pending \in Nat
    BY DEF Sound, Snapshot
<1>c. c.op = "settle" /\ c.ticket \in Nat /\ c.result
    BY DEF Settlements
<1>p. s.pending = c.ticket /\ s.dispatched /\ s.pending # 0 /\ s.pending <= s.seq
    BY <1>c DEF Permits, Sound
<1>1. E = Cleared(X)
    BY <1>c DEF Effect, Receipt
<1>2. R \in SUBSET Settlement
  <2>1. Receipt(s, c) \in Settlement
      BY <1>a, <1>c DEF Receipt, Settlement, Snapshot
  <2> QED
      BY <2>1, <1>a DEF Snapshot
<1>3. X \in Snapshot
  <2> HIDE DEF R
  <2> QED
      BY <1>2, <1>a DEF Snapshot
<1>4. /\ X.seq = s.seq /\ X.mode = s.mode /\ X.results = R /\ X.resolutions = s.resolutions
      /\ X.requests = s.requests
    BY <1>a DEF Snapshot
<1> HIDE DEF E, X
<1> DEFINE t == Written(E)
<1>5. /\ t \in Snapshot /\ t.seq = s.seq + 1 /\ ~t.dispatched /\ t.mode = s.mode
      /\ t.results = R /\ t.resolutions = s.resolutions /\ t.requests = s.requests
      /\ t.pending = 0
    BY <1>1, <1>3, <1>4, ClearedFacts, WrittenFacts
<1>r. Receipt(s, c).ticket = s.pending /\ Receipt(s, c).req = s.scope
    BY <1>p DEF Receipt
<1> HIDE DEF t
<1>6. Sound(t)
  <2>1. \A e \in Ended(s) : e.ticket \in Nat /\ e.ticket # 0 /\ e.ticket <= s.seq /\ e.ticket # s.pending
      BY <1>a DEF Sound, Ended, Settlement, Resolution, Snapshot
  <2>2. \A e \in Ended(t) : e \in Ended(s) \/ e = Receipt(s, c)
      BY <1>5 DEF Ended
  <2>3. \A e \in Ended(t) : e.ticket # 0 /\ e.ticket <= t.seq /\ e.ticket # t.pending
      BY <2>1, <2>2, <1>5, <1>r, <1>p, <1>a
  <2>4. \A e \in t.results, f \in t.resolutions : e.ticket # f.ticket
      BY <2>1, <1>5, <1>r DEF Sound, Ended
  <2> QED
      BY <2>3, <2>4, <1>5, <1>a DEF Sound
<1>7. \A r \in Requests : Accounted(s, r) => Accounted(t, r)
    BY <1>5, <1>r DEF Accounted, Ended
<1> QED
    BY <1>5, <1>6, <1>7, <1>p, <1>c DEF Follows, t, E

LEMMA ReconcileFollows ==
    ASSUME NEW s, Sound(s), NEW c \in Reviews, Permits(s, c)
    PROVE  Follows(s, c, Written(Effect(s, c)))
<1> DEFINE E == Effect(s, c)
           R == s.resolutions \cup {Verdict(c)}
           X == [s EXCEPT !.uncertain = FALSE, !.resolutions = R]
<1>a. s \in Snapshot /\ s.seq \in Nat /\ s.seq + 1 \in Nat /\ s.pending \in Nat
    BY DEF Sound, Snapshot
<1>c. c.op = "reconcile" /\ c.ticket \in Nat /\ c.req \in Requests /\ c.outcome \in Outcomes
    BY DEF Reviews
<1>p. /\ s.pending = c.ticket /\ s.dispatched /\ s.pending # 0 /\ s.pending <= s.seq
      /\ s.scope = c.req /\ s.mode \in {"paused", "cancelled"}
    BY <1>c DEF Permits, Resolvable, Sound
<1>1. E = Bumped(Cleared(X))
    BY <1>c DEF Effect, Verdict
<1>2. R \in SUBSET Resolution
  <2>1. Verdict(c) \in Resolution
      BY <1>c DEF Verdict, Resolution
  <2> QED
      BY <2>1, <1>a DEF Snapshot
<1>3. X \in Snapshot
  <2> HIDE DEF R
  <2> QED
      BY <1>2, <1>a DEF Snapshot
<1>4. /\ X.seq = s.seq /\ X.mode = s.mode /\ X.results = s.results /\ X.resolutions = R
      /\ X.requests = s.requests
    BY <1>a DEF Snapshot
<1> HIDE DEF E, X
<1>9. /\ E \in Snapshot /\ E.seq = s.seq /\ ~E.dispatched /\ E.mode = s.mode
      /\ E.results = s.results /\ E.resolutions = R /\ E.requests = s.requests
      /\ E.pending = 0
    BY <1>1, <1>3, <1>4, ClearedFacts, BumpedFacts
<1> DEFINE t == Written(E)
<1>5. /\ t \in Snapshot /\ t.seq = s.seq + 1 /\ ~t.dispatched /\ t.mode = s.mode
      /\ t.results = s.results /\ t.resolutions = R /\ t.requests = s.requests
      /\ t.pending = 0
    BY <1>9, WrittenFacts
<1>r. Verdict(c).ticket = s.pending /\ Verdict(c).req = s.scope
    BY <1>p DEF Verdict
<1> HIDE DEF t
<1>6. Sound(t)
  <2>1. \A e \in Ended(s) : e.ticket \in Nat /\ e.ticket # 0 /\ e.ticket <= s.seq /\ e.ticket # s.pending
      BY <1>a DEF Sound, Ended, Settlement, Resolution, Snapshot
  <2>2. \A e \in Ended(t) : e \in Ended(s) \/ e = Verdict(c)
      BY <1>5 DEF Ended
  <2>3. \A e \in Ended(t) : e.ticket # 0 /\ e.ticket <= t.seq /\ e.ticket # t.pending
      BY <2>1, <2>2, <1>5, <1>r, <1>p, <1>a
  <2>4. \A e \in t.results, f \in t.resolutions : e.ticket # f.ticket
      BY <2>1, <1>5, <1>r DEF Sound, Ended
  <2> QED
      BY <2>3, <2>4, <1>5, <1>a DEF Sound
<1>7. \A r \in Requests : Accounted(s, r) => Accounted(t, r)
    BY <1>5, <1>r DEF Accounted, Ended
<1> QED
    BY <1>5, <1>6, <1>7, <1>p, <1>c DEF Follows, t, E


LEMMA HandFollows ==
    ASSUME NEW s, Sound(s), NEW c, c.op \in {"human_ready", "resume", "observed"}, Permits(s, c)
    PROVE  Follows(s, c, Written(Effect(s, c)))
<1> DEFINE E == Effect(s, c)
<1>a. s \in Snapshot /\ s.seq \in Nat /\ s.seq + 1 \in Nat
    BY DEF Sound, Snapshot
<1>1. /\ E \in Snapshot /\ E.seq = s.seq /\ E.dispatched = s.dispatched
      /\ E.results = s.results /\ E.resolutions = s.resolutions /\ E.requests = s.requests
      /\ E.pending = s.pending /\ E.scope = s.scope /\ s.pending = 0
  <2>1. CASE c.op = "human_ready"
    <3>1. E = [s EXCEPT !.mode = "human"] /\ s.pending = 0
        BY <2>1 DEF Effect, Permits, Quiesced
    <3>2. [s EXCEPT !.mode = "human"] \in Snapshot
        BY <1>a DEF Snapshot, Modes
    <3> QED
        BY <3>1, <3>2, <1>a DEF Snapshot
  <2>2. CASE c.op = "resume"
    <3> DEFINE X == [s EXCEPT !.mode = "resuming"]
    <3>1. E = Bumped(X) /\ s.mode = "human"
        BY <2>2 DEF Effect, Permits, Current
    <3>2. X \in Snapshot
        BY <1>a DEF Snapshot, Modes
    <3>3. /\ X.seq = s.seq /\ X.dispatched = s.dispatched
          /\ X.results = s.results /\ X.resolutions = s.resolutions /\ X.requests = s.requests
          /\ X.pending = s.pending /\ X.scope = s.scope
        BY <1>a DEF Snapshot
    <3>4. s.pending = 0
        BY <3>1 DEF Sound
    <3> HIDE DEF X, E
    <3> QED
        BY <3>1, <3>2, <3>3, <3>4, BumpedFacts
  <2>3. CASE c.op = "observed"
    <3>1. E = [s EXCEPT !.mode = "agent"] /\ s.pending = 0
        BY <2>3 DEF Effect, Permits
    <3>2. [s EXCEPT !.mode = "agent"] \in Snapshot
        BY <1>a DEF Snapshot, Modes
    <3> QED
        BY <3>1, <3>2, <1>a DEF Snapshot
  <2> QED
      BY <2>1, <2>2, <2>3
<1> HIDE DEF E
<1> DEFINE t == Written(E)
<1>5. /\ t \in Snapshot /\ t.seq = s.seq + 1 /\ t.dispatched = s.dispatched
      /\ t.results = s.results /\ t.resolutions = s.resolutions /\ t.requests = s.requests
      /\ t.pending = 0 /\ t.scope = s.scope
    BY <1>1, WrittenFacts
<1> HIDE DEF t
<1>6. Sound(t)
    BY <1>5, <1>a, <1>1 DEF Sound, Ended, Settlement, Resolution, Snapshot
<1>7. \A r \in Requests : Accounted(s, r) => Accounted(t, r)
    BY <1>5 DEF Accounted, Ended
<1> QED
    BY <1>5, <1>6, <1>7 DEF Follows, t, E

\* Taking over, pausing and cancelling revoke what was not dispatched, and
\* leave an action that was dispatched as it is.
LEMMA InterruptFollows ==
    ASSUME NEW s, Sound(s), NEW c, c.op \in {"takeover", "disconnect", "cancel"}
    PROVE  Follows(s, c, Written(Effect(s, c)))
<1> DEFINE E == Effect(s, c)
<1>a. s \in Snapshot /\ s.seq \in Nat /\ s.seq + 1 \in Nat
    BY DEF Sound, Snapshot
<1>1. /\ E \in Snapshot /\ E.seq = s.seq /\ E.mode \in {"pausing", "paused", "cancelled"}
      /\ E.results = s.results /\ E.resolutions = s.resolutions /\ E.requests = s.requests
      /\ \/ E.pending = s.pending /\ E.scope = s.scope /\ E.dispatched = s.dispatched
         \/ E.pending = 0 /\ ~E.dispatched /\ ~s.dispatched
  <2>1. CASE c.op = "takeover"
    <3> DEFINE X == revoke_undispatched(Bumped(s))
    <3>1. E = [X EXCEPT !.mode = "pausing"]
        BY <2>1 DEF Effect
    <3>2. /\ X \in Snapshot /\ X.seq = s.seq
          /\ X.results = s.results /\ X.resolutions = s.resolutions /\ X.requests = s.requests
          /\ \/ X.pending = s.pending /\ X.scope = s.scope /\ X.dispatched = s.dispatched
             \/ X.pending = 0 /\ ~X.dispatched /\ ~s.dispatched
        BY <1>a, BumpedFacts, RevokedFacts
    <3> HIDE DEF X, E
    <3>3. E \in Snapshot /\ E.mode = "pausing"
        BY <3>1, <3>2 DEF Snapshot, Modes
    <3>4. /\ E.seq = X.seq /\ E.results = X.results /\ E.resolutions = X.resolutions
          /\ E.requests = X.requests /\ E.pending = X.pending /\ E.scope = X.scope
          /\ E.dispatched = X.dispatched
        BY <3>1, <3>2 DEF Snapshot
    <3> QED
        BY <3>2, <3>3, <3>4
  <2>2. CASE c.op \in {"disconnect", "cancel"}
    <3> DEFINE X == Bumped(revoke_undispatched(s))
               m == IF c.op = "cancel" \/ X.mode = "cancelled" THEN "cancelled" ELSE "paused"
    <3>1. E = [X EXCEPT !.mode = m]
        BY <2>2 DEF Effect
    <3>2. /\ X \in Snapshot /\ X.seq = s.seq
          /\ X.results = s.results /\ X.resolutions = s.resolutions /\ X.requests = s.requests
          /\ \/ X.pending = s.pending /\ X.scope = s.scope /\ X.dispatched = s.dispatched
             \/ X.pending = 0 /\ ~X.dispatched /\ ~s.dispatched
        BY <1>a, BumpedFacts, RevokedFacts
    <3>m. m \in {"paused", "cancelled"}
        OBVIOUS
    <3> HIDE DEF X, E, m
    <3>3. E \in Snapshot /\ E.mode = m
        BY <3>1, <3>2, <3>m DEF Snapshot, Modes
    <3>4. /\ E.seq = X.seq /\ E.results = X.results /\ E.resolutions = X.resolutions
          /\ E.requests = X.requests /\ E.pending = X.pending /\ E.scope = X.scope
          /\ E.dispatched = X.dispatched
        BY <3>1, <3>2 DEF Snapshot
    <3> QED
        BY <3>2, <3>3, <3>4, <3>m
  <2> QED
      BY <2>1, <2>2
<1> HIDE DEF E
<1> DEFINE t == Written(E)
<1>5. /\ t \in Snapshot /\ t.seq = s.seq + 1 /\ t.mode \in {"pausing", "paused", "cancelled"}
      /\ t.results = s.results /\ t.resolutions = s.resolutions /\ t.requests = s.requests
      /\ \/ t.pending = s.pending /\ t.scope = s.scope /\ t.dispatched = s.dispatched
         \/ t.pending = 0 /\ ~t.dispatched /\ ~s.dispatched
    BY <1>1, WrittenFacts
<1> HIDE DEF t
<1>6. Sound(t)
    BY <1>5, <1>a DEF Sound, Ended, Settlement, Resolution, Snapshot
<1>7. \A r \in Requests : Accounted(s, r) => Accounted(t, r)
    BY <1>5 DEF Accounted, Ended
<1> QED
    BY <1>5, <1>6, <1>7 DEF Follows, t, E

\* Every command the host writes.
LEMMA CommandFollows ==
    ASSUME NEW s, Sound(s), NEW c \in Commands, Permits(s, c)
    PROVE  Follows(s, c, Written(Effect(s, c)))
<1>1. CASE c \in Proposals
    BY <1>1, ProposeFollows
<1>2. CASE c \in Decisions
    BY <1>2, DecideFollows
<1>3. CASE c \in Dispatches
    BY <1>3, DispatchFollows
<1>4. CASE c \in Settlements
    BY <1>4, SettleFollows
<1>5. CASE c \in Reviews
    BY <1>5, ReconcileFollows
<1>6. CASE c \in Orders \cup {Disconnect}
  <2>1. c.op \in {"human_ready", "resume", "observed"} \cup {"takeover", "disconnect", "cancel"}
      BY <1>6 DEF Orders, Operations, Disconnect
  <2> QED
      BY <2>1, HandFollows, InterruptFollows
<1> QED
    BY <1>1, <1>2, <1>3, <1>4, <1>5, <1>6 DEF Commands

\* Opening the journal again forgets the approval, and nothing else.
LEMMA ReopenedFacts ==
    ASSUME NEW s, Sound(s)
    PROVE  LET t == Reopened(s)
           IN  /\ Sound(t) /\ t.seq = s.seq + 1 /\ t.requests = s.requests
               /\ t.results = s.results /\ t.resolutions = s.resolutions
               /\ t.pending = s.pending /\ t.scope = s.scope /\ t.dispatched = s.dispatched
<1> DEFINE B == Bumped(s)
           m == IF B.mode = "cancelled" THEN B.mode ELSE "paused"
           u == s.pending # 0
           O == [B EXCEPT !.mode = m, !.uncertain = u, !.approval = NoApproval]
           E == IF s.seq = 0 THEN s ELSE O
           t == Written(E)
<1>a. s \in Snapshot /\ s.seq \in Nat /\ s.seq + 1 \in Nat
    BY DEF Sound, Snapshot
<1>b. /\ B \in Snapshot /\ B.seq = s.seq /\ B.pending = s.pending /\ B.scope = s.scope
      /\ B.dispatched = s.dispatched /\ B.requests = s.requests
      /\ B.results = s.results /\ B.resolutions = s.resolutions
    BY <1>a, BumpedFacts
<1>r. Reopened(s) = t
    BY DEF Reopened
<1>m. m \in {"paused", "cancelled"} /\ u \in BOOLEAN
    OBVIOUS
<1> HIDE DEF B, m, u
<1>o. O \in Snapshot /\ O.mode = m
    BY <1>b, <1>m, NoApprovalType DEF Snapshot, Modes
<1>f. /\ O.seq = s.seq /\ O.pending = s.pending /\ O.scope = s.scope
      /\ O.dispatched = s.dispatched /\ O.requests = s.requests
      /\ O.results = s.results /\ O.resolutions = s.resolutions
    BY <1>b DEF Snapshot
<1> HIDE DEF O
<1>e. /\ E \in Snapshot /\ E.seq = s.seq /\ E.pending = s.pending /\ E.scope = s.scope
      /\ E.dispatched = s.dispatched /\ E.requests = s.requests
      /\ E.results = s.results /\ E.resolutions = s.resolutions
      /\ E.mode \in {s.mode, "paused", "cancelled"}
    BY <1>a, <1>o, <1>f, <1>m
<1> HIDE DEF E
<1>t. /\ t \in Snapshot /\ t.seq = s.seq + 1 /\ t.pending = s.pending /\ t.scope = s.scope
      /\ t.dispatched = s.dispatched /\ t.requests = s.requests
      /\ t.results = s.results /\ t.resolutions = s.resolutions
      /\ t.mode \in {s.mode, "paused", "cancelled"}
    BY <1>e, WrittenFacts
<1> HIDE DEF t
<1>s. Sound(t)
    BY <1>t, <1>a DEF Sound, Ended, Settlement, Resolution, Snapshot
<1> QED
    BY <1>r, <1>s, <1>t

-----------------------------------------------------------------------------
(* The inductive invariant.                                                 *)

Stages == {"idle", "decide", "dispatch", "execute", "archive", "settle", "disconnect"}
Calls == [at: {"idle", "sent", "served", "answered"}, cmd: Commands \cup {NoCommand},
          ok: BOOLEAN, state: Snapshot]
Plans == [req: Asked0, ticket: Nat, seq: Nat, gen: Nat, outcome: Outcomes \cup {"none"}]
Reviewing == [at: {"idle", "evidence", "recheck", "planned", "reconcile"}, plan: Plans,
              seq: Nat, gen: Nat, fit: BOOLEAN]

BrokerTypeOK ==
    /\ poisoned \in BOOLEAN /\ dead \in BOOLEAN /\ gen \in Nat
    /\ pipe \in Seq(Callers) /\ call \in [Callers -> Calls]
    /\ pending \in [req: Asked0, id: Nat, gen: Nat]
    /\ dec \in [at: Stages, req: Asked0, ticket: Nat, gen: Nat]
    /\ job \in Asked0 /\ ran \in [Requests -> Nat]
    /\ worker \in {"present", "absent"} /\ archive \subseteq Settlement
    /\ review \in Reviewing

\* What the process holds is what its file says, until a write fails; then
\* the file is at most one line ahead, and the process writes no more.
JournalHolds ==
    /\ Sound(mem) /\ Sound(disk)
    /\ ~poisoned => mem = disk
    /\ mem.requests \subseteq disk.requests /\ mem.seq <= disk.seq

\* The broker speaks to the journal as the state of its proposal and of its
\* decision say, and nobody else waits for an answer.
Proposing ==
    LET k == call["propose"]
    IN /\ k.at # "idle" => pending.id = 0 /\ pending.req \in Requests
       /\ k.at = "sent" => k.cmd \in Proposals /\ k.cmd.req = pending.req

Deciding ==
    LET k == call["decide"]
    IN /\ (k.at # "idle") = (dec.at \in {"decide", "dispatch", "settle", "disconnect"})
       /\ dec.at = "decide" /\ k.at = "sent" => k.cmd \in Decisions /\ k.cmd.req = dec.req
       /\ dec.at = "dispatch" /\ k.at = "sent" =>
             k.cmd \in Dispatches /\ k.cmd.ticket = dec.ticket
       /\ dec.at = "settle" /\ k.at = "sent" =>
             k.cmd \in Settlements /\ k.cmd.ticket = dec.ticket
       /\ dec.at = "disconnect" /\ k.at = "sent" => k.cmd = Disconnect

CallsMatch ==
    /\ \A b \in Callers : call[b].ok => call[b].at = "served"
    /\ \A b \in Callers \ {"propose", "decide"} : call[b].at = "idle"
    /\ Proposing /\ Deciding
    /\ pending.id # 0 => pending.req \in Requests
    /\ dec.at # "idle" => dec.req \in Requests

\* A ticket the broker holds is the line of its own request, or of nothing.
Held(m, d, t, r) ==
    /\ t # 0 /\ t <= d.seq
    /\ m.pending = t => m.scope = r
    /\ d.pending = t => d.scope = r

Allowed == dec.at = "decide" /\ call["decide"].ok /\ call["decide"].state.decision = "allow"

TicketsHold ==
    /\ dec.at \in {"dispatch", "execute", "archive", "settle"} => Held(mem, disk, dec.ticket, dec.req)
    /\ Allowed => Held(mem, disk, call["decide"].state.pending, dec.req)

\* Where the one execution of a request can be: in the answer to its
\* proposal, in its approval, in its decision, in the worker, or behind it.
InProposal(r) == call["propose"].ok /\ pending.req = r
InApproval(r) == pending.id # 0 /\ pending.req = r
InDecision(r) == dec.at \in {"decide", "dispatch"} /\ dec.req = r
InWorker(r) == job = r
Done(r) == ran[r] > 0

OneChance ==
    \A r \in Requests :
       /\ ran[r] <= 1
       /\ InProposal(r) => ~InDecision(r) /\ ~InWorker(r) /\ ~Done(r)
       /\ InApproval(r) => ~InDecision(r) /\ ~InWorker(r) /\ ~Done(r)
       /\ InDecision(r) => ~InWorker(r) /\ ~Done(r)
       /\ InWorker(r) => ~Done(r)
       /\ InProposal(r) \/ InApproval(r) \/ InDecision(r) \/ InWorker(r) \/ Done(r) =>
             r \in disk.requests

\* Nothing reaches the worker before its line says "dispatched".
DispatchHeard(r) == dec.at = "dispatch" /\ call["decide"].ok /\ dec.req = r

EffectsShown ==
    \A r \in Requests : InWorker(r) \/ Done(r) \/ DispatchHeard(r) =>
       Accounted(mem, r) /\ Accounted(disk, r)

Record(e) == [ticket |-> e.ticket, req |-> e.req]
SettledWell(e) == e.req \in Requests /\ ran[e.req] > 0 /\ e \in archive
ClosedWell(e) == worker = "absent" /\ (e.outcome = "accept_output" => Record(e) \in archive)

\* What is settled ran and is archived; what is closed was reviewed when no
\* worker was left.
EvidenceHolds ==
    /\ dec.at \in {"archive", "settle"} => ran[dec.req] > 0
    /\ dec.at = "settle" => [ticket |-> dec.ticket, req |-> dec.req] \in archive
    /\ job # NoRequest => worker = "present"
    /\ \A e \in mem.results \cup disk.results : SettledWell(e)
    /\ \A e \in mem.resolutions \cup disk.resolutions : ClosedWell(e)

ReviewHolds ==
    /\ review.at = "reconcile" => review.fit
    /\ review.at \in {"recheck", "reconcile"} /\ review.fit =>
          worker = "absent" /\ (review.plan.outcome = "accept_output" => Verified(review.plan))
    /\ review.at # "idle" => review.plan.req \in Requests /\ review.plan.outcome \in Outcomes

BrokerInv ==
    /\ BrokerTypeOK /\ JournalHolds /\ CallsMatch /\ TicketsHold /\ OneChance
    /\ EffectsShown /\ EvidenceHolds /\ ReviewHolds

-----------------------------------------------------------------------------
(* The journal's side of a step.                                            *)

LEMMA BlankType == Blank \in Snapshot
<1>1. NoApproval \in [id: Nat, gen: Nat, req: Asked0, keep: BOOLEAN]
    BY NoApprovalType
<1> QED
    BY <1>1 DEF Blank, Snapshot, Modes, Asked0

LEMMA NoCallType == NoCall \in Calls /\ NoCall.at = "idle" /\ ~NoCall.ok
    BY BlankType DEF NoCall, Calls

\* What a command does to the process and its file: nothing; or its line,
\* answered; or its line, with the answer lost and the process poisoned.
Moved(c, ok) ==
    /\ poisoned' \in BOOLEAN
    /\ \/ ~ok /\ mem' = mem /\ disk' = disk /\ (poisoned => poisoned')
       \/ /\ ~poisoned /\ Permits(mem, c) /\ disk' = Written(Effect(mem, c))
          /\ (ok /\ mem' = disk') \/ (~ok /\ poisoned' /\ mem' = mem)

LEMMA ResultMoves ==
    ASSUME poisoned \in BOOLEAN, NEW c \in Commands, NEW r \in Results(c), Becomes(r)
    PROVE  r.ok \in BOOLEAN /\ Moved(c, r.ok) /\ mem' = r.mem
<1> DEFINE s == Written(Effect(mem, c))
           refused == Result(FALSE, mem, disk, poisoned, 0)
<1>1. c.op # "state"
  <2>1. CASE c \in Proposals \cup Decisions \cup Dispatches
      BY <2>1 DEF Proposals, Decisions, Dispatches
  <2>2. CASE c \in Settlements \cup Reviews
      BY <2>2 DEF Settlements, Reviews
  <2>3. CASE c \in Orders \cup {Disconnect}
      BY <2>3 DEF Orders, Operations, Disconnect
  <2> QED
      BY <2>1, <2>2, <2>3 DEF Commands
<1> HIDE DEF s
<1>2. \/ r = refused
      \/ ~poisoned /\ r = [refused EXCEPT !.poisoned = TRUE]
      \/ ~poisoned /\ Permits(mem, c) /\ r = Result(TRUE, s, s, FALSE, 0)
      \/ ~poisoned /\ Permits(mem, c) /\ \E file \in {disk, s} : r = Result(FALSE, mem, file, TRUE, 1)
    BY <1>1 DEF Results, s
<1>3. CASE r = refused
    BY <1>3 DEF Becomes, Result, Moved
<1>4. CASE ~poisoned /\ r = [refused EXCEPT !.poisoned = TRUE]
    BY <1>4 DEF Becomes, Result, Moved
<1>5. CASE ~poisoned /\ Permits(mem, c) /\ r = Result(TRUE, s, s, FALSE, 0)
    BY <1>5 DEF Becomes, Result, Moved, s
<1>6. CASE /\ ~poisoned /\ Permits(mem, c)
           /\ \E file \in {disk, s} : r = Result(FALSE, mem, file, TRUE, 1)
    BY <1>6 DEF Becomes, Result, Moved, s
<1> QED
    BY <1>2, <1>3, <1>4, <1>5, <1>6

LEMMA JournalMoves ==
    ASSUME JournalHolds, poisoned \in BOOLEAN, NEW c \in Commands, NEW ok, Moved(c, ok)
    PROVE  /\ JournalHolds' /\ disk.requests \subseteq disk'.requests
           /\ ok => mem' = disk' /\ mem = disk /\ Permits(mem, c) /\ Sound(mem)
                       /\ disk' = Written(Effect(mem, c))
           /\ \A t, r : Held(mem, disk, t, r) /\ t \in Nat => Held(mem', disk', t, r)
           /\ \A r \in Requests : Accounted(mem, r) /\ Accounted(disk, r) =>
                 Accounted(mem', r) /\ Accounted(disk', r)
           /\ \A e \in mem'.results \cup disk'.results :
                 \/ e \in mem.results \cup disk.results
                 \/ c.op = "settle" /\ mem.pending = c.ticket /\ e = Receipt(mem, c)
           /\ \A e \in mem'.resolutions \cup disk'.resolutions :
                 \/ e \in mem.resolutions \cup disk.resolutions
                 \/ c.op = "reconcile" /\ e = Verdict(c)
<1>1. CASE ~ok /\ mem' = mem /\ disk' = disk /\ (poisoned => poisoned')
    BY <1>1 DEF JournalHolds
<1>2. ASSUME ~poisoned, Permits(mem, c), disk' = Written(Effect(mem, c)),
             (ok /\ mem' = disk') \/ (~ok /\ poisoned' /\ mem' = mem)
      PROVE  /\ JournalHolds' /\ disk.requests \subseteq disk'.requests
             /\ ok => mem' = disk' /\ mem = disk /\ Permits(mem, c) /\ Sound(mem)
                         /\ disk' = Written(Effect(mem, c))
             /\ \A t, r : Held(mem, disk, t, r) /\ t \in Nat => Held(mem', disk', t, r)
             /\ \A r \in Requests : Accounted(mem, r) /\ Accounted(disk, r) =>
                   Accounted(mem', r) /\ Accounted(disk', r)
             /\ \A e \in mem'.results \cup disk'.results :
                   \/ e \in mem.results \cup disk.results
                   \/ c.op = "settle" /\ mem.pending = c.ticket /\ e = Receipt(mem, c)
             /\ \A e \in mem'.resolutions \cup disk'.resolutions :
                   \/ e \in mem.resolutions \cup disk.resolutions
                   \/ c.op = "reconcile" /\ e = Verdict(c)
  <2>1. Sound(mem) /\ mem = disk /\ mem' \in {mem, disk'}
      BY <1>2 DEF JournalHolds
  <2>2. Follows(mem, c, disk')
      BY <2>1, <1>2, CommandFollows
  <2>3. mem.seq \in Nat /\ disk'.seq \in Nat /\ disk'.seq = mem.seq + 1
      BY <2>1, <2>2 DEF Follows, Sound, Snapshot
  <2>4. JournalHolds'
      BY <2>1, <2>2, <2>3, <1>2 DEF JournalHolds, Follows
  <2>5. \A t, r : Held(mem, disk, t, r) /\ t \in Nat => Held(mem', disk', t, r)
      BY <2>1, <2>2, <2>3 DEF Held, Follows
  <2>6. \A r \in Requests : Accounted(mem, r) /\ Accounted(disk, r) =>
           Accounted(mem', r) /\ Accounted(disk', r)
      BY <2>1, <2>2 DEF Follows
  <2>7. /\ \A e \in mem'.results \cup disk'.results :
              \/ e \in mem.results \cup disk.results
              \/ c.op = "settle" /\ mem.pending = c.ticket /\ e = Receipt(mem, c)
        /\ \A e \in mem'.resolutions \cup disk'.resolutions :
              \/ e \in mem.resolutions \cup disk.resolutions
              \/ c.op = "reconcile" /\ e = Verdict(c)
      BY <2>1, <2>2 DEF Follows
  <2>8. disk.requests \subseteq disk'.requests
      BY <2>1, <2>2 DEF Follows
  <2> QED
      BY <2>1, <2>4, <2>5, <2>6, <2>7, <2>8, <1>2
<1> QED
    BY <1>1, <1>2 DEF Moved


\* An answer: the caller is "propose" or "decide", and its command had the
\* effect the answer tells of.
LEMMA ServeMoves ==
    ASSUME BrokerTypeOK, JournalHolds, CallsMatch, Serve
    PROVE  \E b \in {"propose", "decide"}, ok \in BOOLEAN :
              /\ call[b].at = "sent" /\ call[b].cmd \in Commands /\ Moved(call[b].cmd, ok)
              /\ call' \in [Callers -> Calls] /\ call'[b].at = "served" /\ call'[b].ok = ok
              /\ mem' \in Snapshot /\ (ok => call'[b].state = mem')
              /\ \A a \in Callers \ {b} : call'[a] = call[a]
              /\ UNCHANGED <<dead, gen, pipe>>
<1>w. PICK i \in Waiting : \E r \in Results(call[pipe[i]].cmd) :
           /\ Becomes(r)
           /\ call' = [call EXCEPT ![pipe[i]] =
                         [@ EXCEPT !.at = "served", !.ok = r.ok,
                                   !.state = IF r.ok THEN r.mem ELSE Blank]]
    BY DEF Serve
<1>1. PICK r \in Results(call[pipe[i]].cmd) :
           /\ Becomes(r)
           /\ call' = [call EXCEPT ![pipe[i]] =
                         [@ EXCEPT !.at = "served", !.ok = r.ok,
                                   !.state = IF r.ok THEN r.mem ELSE Blank]]
    BY <1>w
<1> DEFINE b == pipe[i]
           c == call[b].cmd
           st == IF r.ok THEN r.mem ELSE Blank
           k == [call[b] EXCEPT !.at = "served", !.ok = r.ok, !.state = st]
<1>2. b \in Callers /\ call[b].at = "sent" /\ call[b] \in Calls
    BY <1>1 DEF Waiting, BrokerTypeOK
<1>3. b \in {"propose", "decide"}
    BY <1>2 DEF CallsMatch
<1>4. c \in Commands
  <2>1. CASE b = "propose"
      BY <2>1, <1>2 DEF CallsMatch, Proposing, Commands
  <2>2. CASE b = "decide"
    <3>1. dec.at \in {"decide", "dispatch", "settle", "disconnect"}
        BY <2>2, <1>2 DEF CallsMatch, Deciding
    <3> QED
        BY <2>2, <1>2, <3>1 DEF CallsMatch, Deciding, Commands
  <2> QED
      BY <1>3, <2>1, <2>2
<1>5. r.ok \in BOOLEAN /\ Moved(c, r.ok) /\ mem' = r.mem
    BY <1>1, <1>4, ResultMoves DEF BrokerTypeOK
<1>6. call' = [call EXCEPT ![b] = k]
    BY <1>1
<1> HIDE DEF b, c
<1>s. r.mem \in Snapshot
  <2>1. JournalHolds'
      BY <1>4, <1>5, JournalMoves DEF BrokerTypeOK
  <2>2. mem' \in Snapshot
      BY <2>1 DEF JournalHolds, Sound
  <2> QED
      BY <2>2, <1>5
<1>7. st \in Snapshot
    BY <1>s, BlankType
<1> HIDE DEF st
<1>8. k \in Calls /\ k.at = "served" /\ k.ok = r.ok /\ k.state = st
    BY <1>2, <1>5, <1>7 DEF Calls
<1> HIDE DEF k
<1>9. call' \in [Callers -> Calls] /\ call'[b] = k /\ \A a \in Callers \ {b} : call'[a] = call[a]
    BY <1>2, <1>6, <1>8 DEF BrokerTypeOK
<1> QED
    BY <1>2, <1>3, <1>4, <1>5, <1>8, <1>9, <1>s DEF st, c, Serve


\* The invariant when the process takes a command of the broker's.
LEMMA ServesStep ==
    ASSUME BrokerInv, LinkServes
    PROVE  BrokerInv'
<1> USE DEF BrokerInv
<1>1. PICK b \in {"propose", "decide"}, ok \in BOOLEAN :
              /\ call[b].at = "sent" /\ call[b].cmd \in Commands /\ Moved(call[b].cmd, ok)
              /\ call' \in [Callers -> Calls] /\ call'[b].at = "served" /\ call'[b].ok = ok
              /\ mem' \in Snapshot /\ (ok => call'[b].state = mem')
              /\ \A a \in Callers \ {b} : call'[a] = call[a]
              /\ UNCHANGED <<dead, gen, pipe>>
    BY ServeMoves DEF LinkServes
<1> DEFINE c == call[b].cmd
<1>2. /\ UNCHANGED <<pending, seen, dec, job, ran, cut, worker, revoked, stopping, archive, review>>
    BY DEF LinkServes, brokerVars, computerVars, workerVars
<1>3. b \in Callers /\ "propose" \in Callers /\ "decide" \in Callers
    BY <1>1
<1>4. poisoned \in BOOLEAN /\ poisoned' \in BOOLEAN
    BY <1>1 DEF BrokerTypeOK, Moved
<1>5. JournalHolds' /\ disk.requests \subseteq disk'.requests
    BY <1>1, <1>4, JournalMoves
<1>6. ok => /\ mem' = disk' /\ mem = disk /\ Permits(mem, c) /\ Sound(mem)
            /\ disk' = Written(Effect(mem, c))
    BY <1>1, <1>4, JournalMoves
<1>7. \A t, r : Held(mem, disk, t, r) /\ t \in Nat => Held(mem', disk', t, r)
    BY <1>1, <1>4, JournalMoves
<1>8. \A r \in Requests : Accounted(mem, r) /\ Accounted(disk, r) =>
         Accounted(mem', r) /\ Accounted(disk', r)
    BY <1>1, <1>4, JournalMoves
<1>9. /\ \A e \in mem'.results \cup disk'.results :
            \/ e \in mem.results \cup disk.results
            \/ c.op = "settle" /\ mem.pending = c.ticket /\ e = Receipt(mem, c)
      /\ \A e \in mem'.resolutions \cup disk'.resolutions :
            \/ e \in mem.resolutions \cup disk.resolutions
            \/ c.op = "reconcile" /\ e = Verdict(c)
    BY <1>1, <1>4, JournalMoves
<1>10. BrokerTypeOK'
    BY <1>1, <1>2, <1>4 DEF BrokerTypeOK
<1>11. CallsMatch'
  <2>1. \A a \in Callers : /\ (call'[a].at = "idle") = (call[a].at = "idle")
                           /\ (call'[a].at = "sent" => call'[a] = call[a])
                           /\ (call'[a].ok => call'[a].at = "served")
      BY <1>1 DEF CallsMatch
  <2>2. Proposing'
      BY <2>1, <1>2, <1>3 DEF CallsMatch, Proposing
  <2>3. Deciding'
      BY <2>1, <1>2, <1>3 DEF CallsMatch, Deciding
  <2> QED
      BY <2>1, <2>2, <2>3, <1>2 DEF CallsMatch
<1>12. CASE b = "propose"
  <2>1. c \in Proposals /\ c.req = pending.req /\ c.op = "propose" /\ pending.id = 0
      BY <1>1, <1>12, <1>3 DEF CallsMatch, Proposing, Proposals
  <2>2. call'["decide"] = call["decide"]
      BY <1>1, <1>3, <1>12
  <2>3. TicketsHold'
    <3>1. Allowed' = Allowed
        BY <2>2, <1>2 DEF Allowed
    <3>2. dec.ticket \in Nat /\ call["decide"].state.pending \in Nat
        BY <1>3 DEF BrokerTypeOK, Calls, Snapshot
    <3> QED
        BY <3>1, <3>2, <2>2, <1>2, <1>7 DEF TicketsHold
  <2>4. ok => c.req \notin disk.requests /\ c.req \in disk'.requests
      BY <2>1, <1>6, ProposeFollows
  <2>5. OneChance'
    <3> SUFFICES ASSUME NEW r \in Requests
                 PROVE  /\ ran'[r] <= 1
                        /\ InProposal(r)' => ~InDecision(r)' /\ ~InWorker(r)' /\ ~Done(r)'
                        /\ InApproval(r)' => ~InDecision(r)' /\ ~InWorker(r)' /\ ~Done(r)'
                        /\ InDecision(r)' => ~InWorker(r)' /\ ~Done(r)'
                        /\ InWorker(r)' => ~Done(r)'
                        /\ (InProposal(r) \/ InApproval(r) \/ InDecision(r) \/ InWorker(r) \/ Done(r))'
                              => r \in disk'.requests
        BY DEF OneChance
    <3>1. /\ InApproval(r)' = InApproval(r) /\ InDecision(r)' = InDecision(r)
          /\ InWorker(r)' = InWorker(r) /\ Done(r)' = Done(r) /\ ran'[r] = ran[r]
        BY <1>2 DEF InApproval, InDecision, InWorker, Done
    <3>2. InProposal(r)' => ok /\ r = c.req /\ ~InApproval(r)
        BY <2>1, <1>1, <1>2, <1>12 DEF InProposal, InApproval
    <3> QED
        BY <3>1, <3>2, <2>4, <1>5 DEF OneChance
  <2>6. EffectsShown'
      BY <2>2, <1>2, <1>8 DEF EffectsShown, InWorker, Done, DispatchHeard
  <2>7. EvidenceHolds'
      BY <2>1, <1>2, <1>9 DEF EvidenceHolds, SettledWell, ClosedWell
  <2> QED
      BY <2>3, <2>5, <2>6, <2>7, <1>2, <1>5, <1>10, <1>11 DEF ReviewHolds, Verified
<1>13. CASE b = "decide"
  <2>2. call'["propose"] = call["propose"]
      BY <1>1, <1>3, <1>13
  <2>a. /\ dec.at \in {"decide", "dispatch", "settle", "disconnect"} /\ dec.req \in Requests
        /\ dec.at = "decide" => c \in Decisions /\ c.req = dec.req
        /\ dec.at = "dispatch" => c \in Dispatches /\ c.ticket = dec.ticket
        /\ dec.at = "settle" => c \in Settlements /\ c.ticket = dec.ticket
        /\ dec.at = "disconnect" => c = Disconnect
      BY <1>1, <1>13, <1>3 DEF CallsMatch, Deciding
  <2>b. c.op # "reconcile" /\ (c.op = "settle" => dec.at = "settle")
    <3>1. CASE dec.at \in {"decide", "dispatch"}
        BY <2>a, <3>1 DEF Decisions, Dispatches
    <3>2. CASE dec.at = "settle"
        BY <2>a, <3>2 DEF Settlements
    <3>3. CASE dec.at = "disconnect"
      <4>1. c = Disconnect
          BY <2>a, <3>3
      <4> HIDE DEF c
      <4> QED
          BY <4>1 DEF Disconnect
    <3> QED
        BY <2>a, <3>1, <3>2, <3>3
  <2>3. TicketsHold'
    <3>1. ASSUME Allowed' PROVE Held(mem', disk', call'["decide"].state.pending, dec.req)
      <4>1. /\ dec.at = "decide" /\ ok /\ call'["decide"].state = mem'
            /\ mem'.decision = "allow"
          BY <3>1, <1>1, <1>2, <1>13 DEF Allowed
      <4>2. c \in Decisions /\ c.req = dec.req
          BY <4>1, <2>a
      <4>3. /\ mem'.decision = c.verdict /\ mem'.seq = mem.seq + 1 /\ Sound(mem)
            /\ c.verdict = "allow" => mem'.pending = mem'.seq /\ mem'.scope = c.req
          BY <4>1, <4>2, <1>6, DecideFollows DEF Follows
      <4>4. mem.seq \in Nat
          BY <4>3 DEF Sound, Snapshot
      <4> QED
          BY <4>1, <4>2, <4>3, <4>4, <1>6 DEF Held
    <3>2. dec.ticket \in Nat
        BY DEF BrokerTypeOK
    <3> QED
        BY <3>1, <3>2, <1>2, <1>7 DEF TicketsHold
  <2>5. OneChance'
    <3>1. \A r \in Requests :
            /\ InProposal(r)' = InProposal(r) /\ InApproval(r)' = InApproval(r)
            /\ InDecision(r)' = InDecision(r) /\ InWorker(r)' = InWorker(r)
            /\ Done(r)' = Done(r) /\ ran'[r] = ran[r]
        BY <2>2, <1>2 DEF InProposal, InApproval, InDecision, InWorker, Done
    <3> QED
        BY <3>1, <1>5 DEF OneChance
  <2>6. EffectsShown'
    <3> SUFFICES ASSUME NEW r \in Requests, InWorker(r)' \/ Done(r)' \/ DispatchHeard(r)'
                 PROVE  Accounted(mem', r) /\ Accounted(disk', r)
        BY DEF EffectsShown
    <3>1. CASE InWorker(r)' \/ Done(r)'
        BY <3>1, <1>2, <1>8 DEF EffectsShown, InWorker, Done
    <3>2. CASE DispatchHeard(r)'
      <4>1. dec.at = "dispatch" /\ ok /\ dec.req = r
          BY <3>2, <1>1, <1>2, <1>13 DEF DispatchHeard
      <4>2. mem'.dispatched /\ mem'.scope = mem.scope /\ mem.pending = dec.ticket
          BY <4>1, <2>a, <1>6, DispatchFollows
      <4>3. mem.scope = r
          BY <4>1, <4>2 DEF TicketsHold, Held
      <4> QED
          BY <4>1, <4>2, <4>3, <1>6 DEF Accounted
    <3> QED
        BY <3>1, <3>2
  <2>7. EvidenceHolds'
    <3>1. \A e \in mem'.results \cup disk'.results : SettledWell(e)
      <4> SUFFICES ASSUME NEW e, dec.at = "settle", mem.pending = dec.ticket, e = Receipt(mem, c)
                   PROVE  SettledWell(e)
          BY <2>a, <2>b, <1>9 DEF EvidenceHolds
      <4>1. mem.scope = dec.req /\ c.ticket = dec.ticket
          BY <2>a DEF TicketsHold, Held
      <4> QED
          BY <4>1, <2>a DEF EvidenceHolds, SettledWell, Receipt
    <3>2. \A e \in mem'.resolutions \cup disk'.resolutions : ClosedWell(e)
        BY <2>b, <1>9 DEF EvidenceHolds
    <3> QED
        BY <3>1, <3>2, <1>2 DEF EvidenceHolds, SettledWell, ClosedWell
  <2> QED
      BY <2>3, <2>5, <2>6, <2>7, <1>2, <1>5, <1>10, <1>11 DEF ReviewHolds, Verified
<1> QED
    BY <1>12, <1>13


LEMMA HeardMoves ==
    ASSUME BrokerTypeOK, JournalHolds, NEW c \in Commands, Asks(c)
    PROVE  \E ok \in BOOLEAN : Moved(c, ok) /\ gen' \in Nat /\ UNCHANGED <<dead, pipe, call>>
<1>1. PICK r \in Heard(c) : Hears(r)
    BY DEF Asks
<1>2. r.ok \in BOOLEAN /\ Moved(c, r.ok) /\ (r.ok => mem' = r.mem)
  <2>1. CASE dead
    <3>1. r = Result(FALSE, mem, disk, poisoned, 0)
        BY <1>1, <2>1 DEF Heard
    <3> QED
        BY <3>1, <1>1 DEF Hears, Becomes, Result, Moved, BrokerTypeOK
  <2>2. CASE ~dead
    <3>1. r \in Results(c)
        BY <1>1, <2>2 DEF Heard
    <3> QED
        BY <3>1, <1>1, ResultMoves DEF Hears, BrokerTypeOK
  <2> QED
      BY <2>1, <2>2
<1>3. gen' \in Nat
  <2>1. JournalHolds'
      BY <1>2, JournalMoves DEF BrokerTypeOK
  <2>2. mem'.gen \in Nat
      BY <2>1 DEF JournalHolds, Sound, Snapshot
  <2> QED
      BY <2>2, <1>1, <1>2 DEF Hears, BrokerTypeOK
<1> QED
    BY <1>1, <1>2, <1>3 DEF Hears

\* The invariant when the journal hears the operator or a review.
LEMMA AsksStep ==
    ASSUME BrokerInv, NEW c \in Orders \cup Reviews, Asks(c),
           c.op = "reconcile" => ClosedWell(Verdict(c)),
           UNCHANGED <<brokerVars, computerVars, workerVars, archive>>,
           review' \in Reviewing, ReviewHolds'
    PROVE  BrokerInv'
<1> USE DEF BrokerInv
<1>1. PICK ok \in BOOLEAN : Moved(c, ok) /\ gen' \in Nat /\ UNCHANGED <<dead, pipe, call>>
    BY HeardMoves DEF Commands
<1>2. UNCHANGED <<pending, dec, job, ran, worker, archive, call, pipe, dead>>
    BY <1>1 DEF brokerVars, computerVars, workerVars
<1>3. c \in Commands /\ c.op # "settle"
  <2>1. CASE c \in Orders
      BY <2>1 DEF Orders, Operations, Commands
  <2>2. CASE c \in Reviews
      BY <2>2 DEF Reviews, Commands
  <2> QED
      BY <2>1, <2>2
<1>4. poisoned \in BOOLEAN /\ poisoned' \in BOOLEAN
    BY <1>1 DEF BrokerTypeOK, Moved
<1>5. JournalHolds' /\ disk.requests \subseteq disk'.requests
    BY <1>1, <1>3, <1>4, JournalMoves
<1>7. \A t, r : Held(mem, disk, t, r) /\ t \in Nat => Held(mem', disk', t, r)
    BY <1>1, <1>3, <1>4, JournalMoves
<1>8. \A r \in Requests : Accounted(mem, r) /\ Accounted(disk, r) =>
         Accounted(mem', r) /\ Accounted(disk', r)
    BY <1>1, <1>3, <1>4, JournalMoves
<1>9. /\ \A e \in mem'.results \cup disk'.results : e \in mem.results \cup disk.results
      /\ \A e \in mem'.resolutions \cup disk'.resolutions :
            \/ e \in mem.resolutions \cup disk.resolutions
            \/ c.op = "reconcile" /\ e = Verdict(c)
    BY <1>1, <1>3, <1>4, JournalMoves
<1>10. BrokerTypeOK'
    BY <1>1, <1>2, <1>4 DEF BrokerTypeOK
<1>11. CallsMatch'
    BY <1>2 DEF CallsMatch, Proposing, Deciding
<1>12. TicketsHold'
  <2>1. Allowed' = Allowed
      BY <1>2 DEF Allowed
  <2>2. dec.ticket \in Nat /\ call["decide"].state.pending \in Nat
      BY DEF BrokerTypeOK, Calls, Snapshot
  <2> QED
      BY <2>1, <2>2, <1>2, <1>7 DEF TicketsHold
<1>13. OneChance'
  <2>1. \A r \in Requests :
          /\ InProposal(r)' = InProposal(r) /\ InApproval(r)' = InApproval(r)
          /\ InDecision(r)' = InDecision(r) /\ InWorker(r)' = InWorker(r)
          /\ Done(r)' = Done(r) /\ ran'[r] = ran[r]
      BY <1>2 DEF InProposal, InApproval, InDecision, InWorker, Done
  <2> QED
      BY <2>1, <1>5 DEF OneChance
<1>14. EffectsShown'
    BY <1>2, <1>8 DEF EffectsShown, InWorker, Done, DispatchHeard
<1>15. EvidenceHolds'
  <2>1. \A e \in mem'.results \cup disk'.results : SettledWell(e)
      BY <1>9 DEF EvidenceHolds
  <2>2. \A e \in mem'.resolutions \cup disk'.resolutions : ClosedWell(e)
      BY <1>9 DEF EvidenceHolds
  <2> QED
      BY <2>1, <2>2, <1>2 DEF EvidenceHolds, SettledWell, ClosedWell
<1> QED
    BY <1>5, <1>10, <1>11, <1>12, <1>13, <1>14, <1>15

LEMMA CommandStep ==
    ASSUME BrokerInv, NEW op \in Operations, Command(op)
    PROVE  BrokerInv'
<1> DEFINE c == [op |-> op, gen |-> gen]
<1>1. c \in Orders /\ c.op # "reconcile"
    BY DEF BrokerInv, BrokerTypeOK, Orders, Operations
<1>2. Asks(c) /\ UNCHANGED <<brokerVars, computerVars, workerVars, archive, review>>
    BY DEF Command
<1>3. review' \in Reviewing /\ ReviewHolds'
    BY <1>2 DEF BrokerInv, BrokerTypeOK, ReviewHolds, Verified, workerVars
<1> QED
    BY <1>1, <1>2, <1>3, AsksStep

\* What a review records was checked while no worker was left.
LEMMA ReconcileStep ==
    ASSUME BrokerInv, Reconcile
    PROVE  BrokerInv'
<1> DEFINE p == review.plan
           c == [op |-> "reconcile", ticket |-> p.ticket, req |-> p.req, seq |-> p.seq,
                 gen |-> p.gen, absent |-> TRUE, outcome |-> p.outcome,
                 result |-> p.outcome = "accept_output"]
<1>1. Asks(c) /\ UNCHANGED <<brokerVars, computerVars, workerVars, archive>> /\ review' = NoReview
    BY DEF Reconcile
<1>2. /\ review.at = "reconcile" /\ p.req \in Requests /\ p.outcome \in Outcomes
      /\ worker = "absent" /\ (p.outcome = "accept_output" => Verified(p))
    BY DEF BrokerInv, ReviewHolds, Reconcile
<1>3. p.ticket \in Nat /\ p.seq \in Nat /\ p.gen \in Nat
    BY DEF BrokerInv, BrokerTypeOK, Reviewing, Plans
<1>4. c \in Reviews
    BY <1>2, <1>3 DEF Reviews
<1>5. ClosedWell(Verdict(c))
    BY <1>2 DEF ClosedWell, Verdict, Record, Verified
<1>6. review' \in Reviewing /\ ReviewHolds'
  <2>1. NoPlan \in Plans
      BY DEF NoPlan, Plans, Asked0
  <2>2. NoReview \in Reviewing /\ NoReview.at = "idle"
      BY <2>1 DEF NoReview, Reviewing
  <2> QED
      BY <2>2, <1>1 DEF ReviewHolds
<1> HIDE DEF c
<1> QED
    BY <1>1, <1>4, <1>5, <1>6, AsksStep


-----------------------------------------------------------------------------
(* The broker's side of a step.                                             *)

\* Caller b asks for c, or has its answer and asks for nothing.
Talks(b, c) ==
    /\ gen' \in Nat /\ pipe' \in Seq(Callers) /\ call' \in [Callers -> Calls]
    /\ call'[b].at \in {"sent", "answered"} /\ ~call'[b].ok
    /\ call'[b].at = "sent" => call'[b].cmd = c
    /\ \A a \in Callers \ {b} : call'[a] = call[a]
    /\ UNCHANGED <<mem, disk, poisoned, dead>>

Rests(b) ==
    /\ gen' \in Nat /\ pipe' \in Seq(Callers) /\ call' \in [Callers -> Calls]
    /\ call'[b].at = "idle" /\ ~call'[b].ok
    /\ \A a \in Callers \ {b} : call'[a] = call[a]
    /\ UNCHANGED <<mem, disk, poisoned, dead>>

LEMMA LeftType ==
    ASSUME BrokerTypeOK, NEW b \in Callers, Answered(b)
    PROVE  Left(b) \in Seq(Callers)
<1>1. CASE call[b].at = "served"
    BY <1>1 DEF Left, Answered, BrokerTypeOK
<1>2. CASE call[b].at # "served"
    BY <1>2 DEF Left, BrokerTypeOK
<1> QED
    BY <1>1, <1>2

LEMMA SeenType ==
    ASSUME BrokerTypeOK, NEW b \in Callers, Seen(b)
    PROVE  gen' \in Nat
<1>1. call[b].state.gen \in Nat
    BY DEF BrokerTypeOK, Calls, Snapshot
<1> QED
    BY <1>1 DEF Seen, BrokerTypeOK

LEMMA AskedFacts ==
    ASSUME BrokerTypeOK, NEW b \in Callers, NEW c \in Commands, call' = Asked(call, b, c)
    PROVE  /\ call' \in [Callers -> Calls]
           /\ call'[b].at \in {"sent", "answered"} /\ ~call'[b].ok
           /\ call'[b].at = "sent" => call'[b].cmd = c
           /\ \A a \in Callers \ {b} : call'[a] = call[a]
<1> DEFINE k == IF dead THEN [NoCall EXCEPT !.at = "answered"]
                ELSE [NoCall EXCEPT !.at = "sent", !.cmd = c]
<1>1. k \in Calls
    BY NoCallType DEF Calls
<1>2. k.at \in {"sent", "answered"} /\ ~k.ok /\ (k.at = "sent" => k.cmd = c)
    BY NoCallType DEF Calls
<1>3. call' = [call EXCEPT ![b] = k]
    BY DEF Asked
<1> HIDE DEF k
<1>4. call' \in [Callers -> Calls] /\ call'[b] = k /\ \A a \in Callers \ {b} : call'[a] = call[a]
    BY <1>1, <1>3 DEF BrokerTypeOK
<1> QED
    BY <1>2, <1>4

LEMMA RequestTalks ==
    ASSUME BrokerTypeOK, NEW b \in Callers, NEW c \in Commands, request(b, c)
    PROVE  Talks(b, c)
<1>1. pipe' \in Seq(Callers)
    BY DEF request, BrokerTypeOK
<1> QED
    BY <1>1, AskedFacts DEF request, Talks, BrokerTypeOK

LEMMA ThenTalks ==
    ASSUME BrokerTypeOK, NEW b \in Callers, NEW c \in Commands, Answered(b), then(b, c)
    PROVE  Talks(b, c)
<1>1. pipe' \in Seq(Callers)
    BY LeftType DEF then
<1> QED
    BY <1>1, AskedFacts, SeenType DEF then, Talks

LEMMA DoneRests ==
    ASSUME BrokerTypeOK, NEW b \in Callers, Answered(b), done(b)
    PROVE  Rests(b)
<1>1. call' \in [Callers -> Calls] /\ call'[b] = NoCall /\ \A a \in Callers \ {b} : call'[a] = call[a]
    BY NoCallType DEF done, BrokerTypeOK
<1> QED
    BY <1>1, NoCallType, LeftType, SeenType DEF done, Rests

\* The parts of the invariant about the journal and its evidence, when the
\* broker does not touch them.
LEMMA KeptParts ==
    ASSUME BrokerInv, UNCHANGED <<mem, disk, poisoned, worker, archive, review, ran>>,
           job' \in {job, NoRequest},
           dec'.at \in {"archive", "settle"} => dec' = dec
    PROVE  JournalHolds' /\ EvidenceHolds' /\ ReviewHolds'
<1>1. JournalHolds'
    BY DEF BrokerInv, JournalHolds
<1>2. EvidenceHolds'
    BY DEF BrokerInv, EvidenceHolds, SettledWell, ClosedWell
<1>3. ReviewHolds'
    BY DEF BrokerInv, ReviewHolds, Verified
<1> QED
    BY <1>1, <1>2, <1>3


\* The broker gives up: whatever it was doing ends in a disconnect.
LEMMA GiveUpStep ==
    ASSUME BrokerInv, Talks("decide", Disconnect), dec.at # "idle",
           dec' = [dec EXCEPT !.at = "disconnect"],
           UNCHANGED <<pending, job, ran, worker, review>>,
           archive \subseteq archive', archive' \subseteq Settlement
    PROVE  BrokerInv'
<1> USE DEF BrokerInv
<1>1. /\ dec' \in [at: Stages, req: Asked0, ticket: Nat, gen: Nat]
      /\ dec'.at = "disconnect" /\ dec'.req = dec.req
    BY DEF BrokerTypeOK, Stages
<1>2. call'["propose"] = call["propose"] /\ ~call'["decide"].ok
    BY DEF Talks
<1>3. BrokerTypeOK'
    BY <1>1 DEF BrokerTypeOK, Talks
<1>4. JournalHolds' /\ ReviewHolds'
    BY DEF JournalHolds, ReviewHolds, Verified, Talks
<1>5. CallsMatch'
  <2>1. Proposing'
      BY <1>2 DEF CallsMatch, Proposing
  <2>2. Deciding'
      BY <1>1 DEF Talks, Deciding
  <2> QED
      BY <2>1, <2>2, <1>1 DEF CallsMatch, Talks
<1>6. TicketsHold'
    BY <1>1 DEF TicketsHold, Allowed
<1>7. OneChance'
  <2>1. \A r \in Requests :
          /\ InProposal(r)' = InProposal(r) /\ InApproval(r)' = InApproval(r)
          /\ ~InDecision(r)' /\ InWorker(r)' = InWorker(r)
          /\ Done(r)' = Done(r) /\ ran'[r] = ran[r]
      BY <1>1, <1>2 DEF InProposal, InApproval, InDecision, InWorker, Done
  <2> QED
      BY <2>1 DEF OneChance, Talks
<1>8. EffectsShown'
    BY <1>1 DEF EffectsShown, InWorker, Done, DispatchHeard, Talks
<1>9. EvidenceHolds'
    BY <1>1 DEF EvidenceHolds, SettledWell, ClosedWell, Talks
<1> QED
    BY <1>3, <1>4, <1>5, <1>6, <1>7, <1>8, <1>9

\* A decision that is over.
LEMMA RestStep ==
    ASSUME BrokerInv, Rests("decide"), dec' = NoDecision,
           UNCHANGED <<pending, job, ran, worker, archive, review>>
    PROVE  BrokerInv'
<1> USE DEF BrokerInv
<1>1. /\ dec' \in [at: Stages, req: Asked0, ticket: Nat, gen: Nat] /\ dec'.at = "idle"
    BY DEF NoDecision, Stages, Asked0
<1>2. call'["propose"] = call["propose"] /\ ~call'["decide"].ok
    BY DEF Rests
<1>3. BrokerTypeOK'
    BY <1>1 DEF BrokerTypeOK, Rests
<1>4. JournalHolds' /\ EvidenceHolds' /\ ReviewHolds'
    BY <1>1, KeptParts DEF Rests
<1>5. CallsMatch'
  <2>1. Proposing'
      BY <1>2 DEF CallsMatch, Proposing
  <2>2. Deciding'
      BY <1>1 DEF Rests, Deciding
  <2> QED
      BY <2>1, <2>2, <1>1 DEF CallsMatch, Rests
<1>6. TicketsHold'
    BY <1>1 DEF TicketsHold, Allowed
<1>7. OneChance'
  <2>1. \A r \in Requests :
          /\ InProposal(r)' = InProposal(r) /\ InApproval(r)' = InApproval(r)
          /\ ~InDecision(r)' /\ InWorker(r)' = InWorker(r)
          /\ Done(r)' = Done(r) /\ ran'[r] = ran[r]
      BY <1>1, <1>2 DEF InProposal, InApproval, InDecision, InWorker, Done
  <2> QED
      BY <2>1 DEF OneChance, Rests
<1>8. EffectsShown'
    BY <1>1 DEF EffectsShown, InWorker, Done, DispatchHeard, Rests
<1> QED
    BY <1>3, <1>4, <1>5, <1>6, <1>7, <1>8

LEMMA ProposeStep ==
    ASSUME BrokerInv, NEW r \in Requests, Propose(r)
    PROVE  BrokerInv'
<1> USE DEF BrokerInv
<1> DEFINE c == [op |-> "propose", gen |-> gen, req |-> r, keep |-> TRUE]
<1>c. c \in Proposals /\ c.req = r
    BY DEF Proposals, BrokerTypeOK
<1> HIDE DEF c
<1>1. Talks("propose", c)
    BY <1>c, RequestTalks DEF Propose, Commands, c
<1>2. UNCHANGED <<dec, job, ran, worker, archive, review, mem, disk, poisoned>>
    BY <1>1 DEF Propose, Talks, computerVars, workerVars
<1>3. /\ pending' \in [req: Asked0, id: Nat, gen: Nat] /\ pending'.req = r /\ pending'.id = 0
    BY DEF Propose, BrokerTypeOK, Asked0
<1>4. call'["decide"] = call["decide"] /\ ~call'["propose"].ok
    BY <1>1 DEF Talks
<1>5. BrokerTypeOK'
    BY <1>1, <1>2, <1>3 DEF BrokerTypeOK, Talks
<1>6. JournalHolds' /\ EvidenceHolds' /\ ReviewHolds'
    BY <1>2, KeptParts
<1>7. CallsMatch'
  <2>1. Proposing'
      BY <1>1, <1>3, <1>c DEF Proposing, Talks
  <2>2. Deciding'
      BY <1>2, <1>4 DEF CallsMatch, Deciding
  <2> QED
      BY <2>1, <2>2, <1>1, <1>2, <1>3 DEF CallsMatch, Talks
<1>8. TicketsHold'
    BY <1>2, <1>4 DEF TicketsHold, Allowed, Held
<1>9. OneChance'
  <2>1. \A q \in Requests :
          /\ ~InProposal(q)' /\ ~InApproval(q)' /\ InDecision(q)' = InDecision(q)
          /\ InWorker(q)' = InWorker(q) /\ Done(q)' = Done(q) /\ ran'[q] = ran[q]
      BY <1>2, <1>3, <1>4 DEF InProposal, InApproval, InDecision, InWorker, Done
  <2> QED
      BY <2>1, <1>2 DEF OneChance
<1>10. EffectsShown'
    BY <1>2, <1>4 DEF EffectsShown, InWorker, Done, DispatchHeard
<1> QED
    BY <1>5, <1>6, <1>7, <1>8, <1>9, <1>10

LEMMA ProposedStep ==
    ASSUME BrokerInv, Proposed
    PROVE  BrokerInv'
<1> USE DEF BrokerInv
<1>1. Rests("propose")
    BY DoneRests DEF Proposed
<1>2. UNCHANGED <<dec, job, ran, worker, archive, review, mem, disk, poisoned>>
    BY <1>1 DEF Proposed, Rests, computerVars, workerVars
<1> DEFINE id == call["propose"].state.approval.id
<1>3. id \in Nat
    BY DEF BrokerTypeOK, Calls, Snapshot
<1> HIDE DEF id
<1>p. pending' = IF call["propose"].ok THEN [pending EXCEPT !.id = id] ELSE NoPending
    BY DEF Proposed, id
<1>4. /\ pending' \in [req: Asked0, id: Nat, gen: Nat]
      /\ pending'.id # 0 => call["propose"].ok /\ pending'.req = pending.req
    BY <1>p, <1>3 DEF BrokerTypeOK, NoPending, Asked0
<1>5. /\ call'["decide"] = call["decide"] /\ ~call'["propose"].ok
      /\ call'["propose"].at = "idle"
    BY <1>1 DEF Rests
<1>6. BrokerTypeOK'
    BY <1>1, <1>2, <1>4 DEF BrokerTypeOK, Rests
<1>7. JournalHolds' /\ EvidenceHolds' /\ ReviewHolds'
    BY <1>2, KeptParts
<1>8. CallsMatch'
  <2>1. Proposing'
      BY <1>5 DEF Proposing
  <2>2. Deciding'
      BY <1>2, <1>5 DEF CallsMatch, Deciding
  <2>3. pending'.id # 0 => pending'.req \in Requests
    <3>1. call["propose"].ok => pending.req \in Requests
        BY DEF CallsMatch, Proposing
    <3> QED
        BY <3>1, <1>4
  <2> QED
      BY <2>1, <2>2, <2>3, <1>1, <1>2 DEF CallsMatch, Rests
<1>9. TicketsHold'
    BY <1>2, <1>5 DEF TicketsHold, Allowed, Held
<1>10. OneChance'
  <2>1. \A q \in Requests :
          /\ ~InProposal(q)' /\ (InApproval(q)' => InProposal(q)) /\ InDecision(q)' = InDecision(q)
          /\ InWorker(q)' = InWorker(q) /\ Done(q)' = Done(q) /\ ran'[q] = ran[q]
      BY <1>2, <1>4, <1>5 DEF InProposal, InApproval, InDecision, InWorker, Done
  <2> QED
      BY <2>1, <1>2 DEF OneChance
<1>11. EffectsShown'
    BY <1>2, <1>5 DEF EffectsShown, InWorker, Done, DispatchHeard
<1> QED
    BY <1>6, <1>7, <1>8, <1>9, <1>10, <1>11


LEMMA DecideStep ==
    ASSUME BrokerInv, NEW verdict \in {"allow", "deny"}, Decide(verdict)
    PROVE  BrokerInv'
<1> USE DEF BrokerInv
<1> DEFINE c == [op |-> "decide", id |-> pending.id, req |-> pending.req, verdict |-> verdict]
<1>p. dec.at = "idle" /\ pending.id # 0 /\ pending.req \in Requests /\ pending.id \in Nat
    BY DEF Decide, CallsMatch, BrokerTypeOK
<1>c. c \in Decisions /\ c.req = pending.req
    BY <1>p DEF Decisions
<1> HIDE DEF c
<1>1. Talks("decide", c)
    BY <1>c, RequestTalks DEF Decide, Commands, c
<1>2. UNCHANGED <<job, ran, worker, archive, review, mem, disk, poisoned>>
    BY <1>1 DEF Decide, Talks, computerVars, workerVars
<1>3. /\ pending' \in [req: Asked0, id: Nat, gen: Nat] /\ pending'.id = 0
      /\ dec' \in [at: Stages, req: Asked0, ticket: Nat, gen: Nat]
      /\ dec'.at = "decide" /\ dec'.req = pending.req
    BY DEF Decide, BrokerTypeOK, Asked0, Stages, NoPending
<1>4. /\ call'["propose"] = call["propose"] /\ ~call'["decide"].ok
      /\ call["propose"].at = "idle" /\ ~call["propose"].ok
    BY <1>1, <1>p DEF Talks, CallsMatch, Proposing
<1>5. BrokerTypeOK'
    BY <1>1, <1>2, <1>3 DEF BrokerTypeOK, Talks
<1>6. JournalHolds' /\ EvidenceHolds' /\ ReviewHolds'
    BY <1>2, <1>3, KeptParts
<1>7. CallsMatch'
  <2>1. Proposing'
      BY <1>4 DEF Proposing
  <2>2. Deciding'
      BY <1>1, <1>3, <1>c DEF Deciding, Talks
  <2> QED
      BY <2>1, <2>2, <1>1, <1>3, <1>p DEF CallsMatch, Talks
<1>8. TicketsHold'
    BY <1>3, <1>4 DEF TicketsHold, Allowed
<1>9. OneChance'
  <2>1. \A q \in Requests :
          /\ ~InProposal(q)' /\ ~InApproval(q)' /\ (InDecision(q)' => InApproval(q))
          /\ InWorker(q)' = InWorker(q) /\ Done(q)' = Done(q) /\ ran'[q] = ran[q]
      BY <1>2, <1>3, <1>4, <1>p DEF InProposal, InApproval, InDecision, InWorker, Done
  <2> QED
      BY <2>1, <1>2 DEF OneChance
<1>10. EffectsShown'
    BY <1>2, <1>3 DEF EffectsShown, InWorker, Done, DispatchHeard
<1> QED
    BY <1>5, <1>6, <1>7, <1>8, <1>9, <1>10

LEMMA DecidedStep ==
    ASSUME BrokerInv, Decided
    PROVE  BrokerInv'
<1> USE DEF BrokerInv
<1> DEFINE reply == call["decide"]
<1>1. /\ dec.at = "decide" /\ Answered("decide")
      /\ UNCHANGED <<pending, job, ran, worker, archive, review>>
    BY DEF Decided, computerVars, workerVars
<1>t. reply \in Calls /\ dec.gen \in Nat /\ archive \subseteq Settlement /\ Disconnect \in Commands
    BY DEF BrokerTypeOK, Commands
<1>2. CASE done("decide") /\ dec' = NoDecision
    BY <1>1, <1>2, DoneRests, RestStep
<1>3. CASE GivesUp
    BY <1>1, <1>3, <1>t, ThenTalks, GiveUpStep DEF GivesUp
<1>4. ASSUME reply.ok, reply.state.decision = "allow",
             then("decide", [op |-> "dispatch", actor |-> "agent", gen |-> dec.gen,
                             ticket |-> reply.state.pending]),
             dec' = [dec EXCEPT !.at = "dispatch", !.ticket = reply.state.pending]
      PROVE  BrokerInv'
  <2> DEFINE t == reply.state.pending
             c == [op |-> "dispatch", actor |-> "agent", gen |-> dec.gen, ticket |-> t]
  <2>1. t \in Nat /\ Held(mem, disk, t, dec.req)
      BY <1>1, <1>4, <1>t DEF TicketsHold, Allowed, Calls, Snapshot
  <2>2. t # 0
      BY <2>1 DEF Held
  <2>c. c \in Dispatches /\ c.ticket = t
      BY <2>1, <2>2, <1>t DEF Dispatches
  <2> HIDE DEF c
  <2>3. Talks("decide", c)
      BY <2>c, <1>1, <1>4, ThenTalks DEF Commands, c
  <2> HIDE DEF t
  <2>4. /\ dec' \in [at: Stages, req: Asked0, ticket: Nat, gen: Nat]
        /\ dec'.at = "dispatch" /\ dec'.req = dec.req /\ dec'.ticket = t
      BY <1>4, <2>1 DEF BrokerTypeOK, Stages, t
  <2>5. call'["propose"] = call["propose"] /\ ~call'["decide"].ok
        /\ UNCHANGED <<mem, disk, poisoned>>
      BY <2>3 DEF Talks
  <2>6. BrokerTypeOK'
      BY <1>1, <2>3, <2>4 DEF BrokerTypeOK, Talks
  <2>7. JournalHolds' /\ EvidenceHolds' /\ ReviewHolds'
      BY <1>1, <2>4, <2>5, KeptParts
  <2>8. CallsMatch'
    <3>1. Proposing'
        BY <1>1, <2>5 DEF CallsMatch, Proposing
    <3>2. Deciding'
        BY <2>3, <2>4, <2>c DEF Deciding, Talks
    <3> QED
        BY <3>1, <3>2, <1>1, <2>3, <2>4 DEF CallsMatch, Talks
  <2>9. TicketsHold'
    <3>1. Held(mem', disk', dec'.ticket, dec'.req)
        BY <2>1, <2>4, <2>5
    <3> QED
        BY <3>1, <2>4 DEF TicketsHold, Allowed
  <2>10. OneChance'
    <3>1. \A q \in Requests :
            /\ InProposal(q)' = InProposal(q) /\ InApproval(q)' = InApproval(q)
            /\ InDecision(q)' = InDecision(q)
            /\ InWorker(q)' = InWorker(q) /\ Done(q)' = Done(q) /\ ran'[q] = ran[q]
        BY <1>1, <2>4, <2>5 DEF InProposal, InApproval, InDecision, InWorker, Done
    <3> QED
        BY <3>1, <2>5 DEF OneChance
  <2>11. EffectsShown'
      BY <1>1, <2>5 DEF EffectsShown, InWorker, Done, DispatchHeard
  <2> QED
      BY <2>6, <2>7, <2>8, <2>9, <2>10, <2>11
<1> QED
    BY <1>2, <1>3, <1>4 DEF Decided

\* The worker is called when the journal has answered the dispatch.
LEMMA DispatchedStep ==
    ASSUME BrokerInv, Dispatched
    PROVE  BrokerInv'
<1> USE DEF BrokerInv
<1>1. /\ dec.at = "dispatch" /\ Answered("decide")
      /\ UNCHANGED <<pending, ran, worker, archive, review>>
    BY DEF Dispatched, workerVars
<1>t. archive \subseteq Settlement /\ Disconnect \in Commands
    BY DEF BrokerTypeOK, Commands
<1>2. CASE GivesUp /\ UNCHANGED job
    BY <1>1, <1>2, <1>t, ThenTalks, GiveUpStep DEF GivesUp
<1>3. ASSUME call["decide"].ok, done("decide"), dec' = [dec EXCEPT !.at = "execute"],
             job' = IF worker = "present" THEN dec.req ELSE job
      PROVE  BrokerInv'
  <2>1. Rests("decide") /\ dec.req \in Requests
      BY <1>1, <1>3, DoneRests DEF CallsMatch
  <2>2. /\ dec' \in [at: Stages, req: Asked0, ticket: Nat, gen: Nat]
        /\ dec'.at = "execute" /\ dec'.req = dec.req /\ dec'.ticket = dec.ticket
      BY <1>3 DEF BrokerTypeOK, Stages
  <2>3. /\ call'["propose"] = call["propose"] /\ ~call'["decide"].ok
        /\ UNCHANGED <<mem, disk, poisoned>>
      BY <2>1 DEF Rests
  <2>4. job' \in {job, dec.req} /\ job' \in Asked0 /\ (job' # job => worker = "present")
      BY <1>3, <2>1 DEF BrokerTypeOK, Asked0
  <2>5. BrokerTypeOK'
      BY <1>1, <2>1, <2>2, <2>4 DEF BrokerTypeOK, Rests
  <2>6. JournalHolds' /\ ReviewHolds'
      BY <1>1, <2>3 DEF JournalHolds, ReviewHolds, Verified
  <2>7. EvidenceHolds'
      BY <1>1, <2>2, <2>3, <2>4 DEF EvidenceHolds, SettledWell, ClosedWell
  <2>8. CallsMatch'
    <3>1. Proposing'
        BY <1>1, <2>3 DEF CallsMatch, Proposing
    <3>2. Deciding'
        BY <2>1, <2>2 DEF Deciding, Rests
    <3> QED
        BY <3>1, <3>2, <1>1, <2>1, <2>2 DEF CallsMatch, Rests
  <2>9. TicketsHold'
    <3>1. Held(mem, disk, dec.ticket, dec.req)
        BY <1>1 DEF TicketsHold
    <3>2. Held(mem', disk', dec'.ticket, dec'.req)
        BY <3>1, <2>2, <2>3
    <3> QED
        BY <3>2, <2>2 DEF TicketsHold, Allowed
  <2>10. OneChance'
    <3>1. \A q \in Requests :
            /\ InProposal(q)' = InProposal(q) /\ InApproval(q)' = InApproval(q)
            /\ ~InDecision(q)' /\ (InWorker(q)' => InWorker(q) \/ InDecision(q))
            /\ Done(q)' = Done(q) /\ ran'[q] = ran[q]
        BY <1>1, <2>2, <2>3, <2>4 DEF InProposal, InApproval, InDecision, InWorker, Done
    <3> QED
        BY <3>1, <2>3 DEF OneChance
  <2>11. EffectsShown'
    <3>1. DispatchHeard(dec.req)
        BY <1>1, <1>3 DEF DispatchHeard
    <3> QED
        BY <3>1, <1>1, <2>1, <2>2, <2>3, <2>4 DEF EffectsShown, InWorker, Done, DispatchHeard
  <2> QED
      BY <2>5, <2>6, <2>7, <2>8, <2>9, <2>10, <2>11
<1> QED
    BY <1>2, <1>3 DEF Dispatched

LEMMA ExecuteStep ==
    ASSUME BrokerInv, Execute
    PROVE  BrokerInv'
<1> USE DEF BrokerInv
<1>1. UNCHANGED <<mem, disk, poisoned, dead, gen, pipe, call, pending, dec, worker, archive, review>>
    BY DEF Execute, linkVars, brokerVars, workerVars
<1>2. job \in Requests /\ ran[job] = 0 /\ ran \in [Requests -> Nat]
  <2>1. job \in Requests
      BY DEF Execute, BrokerTypeOK, Asked0
  <2>2. ~Done(job)
      BY <2>1 DEF OneChance, InWorker
  <2> QED
      BY <2>1, <2>2 DEF Done, BrokerTypeOK
<1>3. /\ ran' \in [Requests -> Nat] /\ ran'[job] = 1 /\ job' = NoRequest
      /\ \A r \in Requests : r # job => ran'[r] = ran[r]
    BY <1>2 DEF Execute
<1>4. BrokerTypeOK'
    BY <1>1, <1>3 DEF BrokerTypeOK, Asked0
<1>5. JournalHolds' /\ CallsMatch' /\ ReviewHolds'
    BY <1>1 DEF JournalHolds, CallsMatch, Proposing, Deciding, ReviewHolds, Verified
<1>6. TicketsHold'
    BY <1>1 DEF TicketsHold, Allowed, Held
<1>7. \A q \in Requests :
        /\ InProposal(q)' = InProposal(q) /\ InApproval(q)' = InApproval(q)
        /\ InDecision(q)' = InDecision(q) /\ ~InWorker(q)'
        /\ (Done(q)' => Done(q) \/ InWorker(q)) /\ (Done(q) => Done(q)')
        /\ (ran'[q] = ran[q] \/ ran'[q] = 1)
    BY <1>1, <1>2, <1>3 DEF InProposal, InApproval, InDecision, InWorker, Done
<1>8. OneChance'
    BY <1>1, <1>7 DEF OneChance
<1>9. EffectsShown'
    BY <1>1, <1>7 DEF EffectsShown, DispatchHeard
<1>10. EvidenceHolds'
  <2>1. \A e \in mem.results \cup disk.results : SettledWell(e)'
      BY <1>1, <1>7 DEF EvidenceHolds, SettledWell, Done
  <2>2. dec.at \in {"archive", "settle"} => ran'[dec.req] > 0
      BY <1>7 DEF EvidenceHolds, CallsMatch, Done
  <2> QED
      BY <2>1, <2>2, <1>1, <1>3 DEF EvidenceHolds, ClosedWell
<1> QED
    BY <1>4, <1>5, <1>6, <1>8, <1>9, <1>10


\* The broker moves on from one stage to the next on its own: the tool has
\* answered, or the archive has the result and the journal is told.
LEMMA ReturnsStep ==
    ASSUME BrokerInv, Returns
    PROVE  BrokerInv'
<1> USE DEF BrokerInv
<1>1. /\ dec.at = "execute" /\ UNCHANGED <<pending, job, ran, worker, archive, review>>
      /\ archive \subseteq Settlement
    BY DEF Returns, BrokerTypeOK, computerVars, workerVars
<1>2. CASE StartsToGiveUp
  <2>1. Talks("decide", Disconnect)
      BY <1>2, RequestTalks DEF StartsToGiveUp, Commands
  <2> QED
      BY <2>1, <1>1, <1>2, GiveUpStep DEF StartsToGiveUp
<1>3. ASSUME ran[dec.req] > 0, dec' = [dec EXCEPT !.at = "archive"], UNCHANGED linkVars
      PROVE  BrokerInv'
  <2>1. /\ dec' \in [at: Stages, req: Asked0, ticket: Nat, gen: Nat]
        /\ dec'.at = "archive" /\ dec'.req = dec.req /\ dec'.ticket = dec.ticket
      BY <1>3 DEF BrokerTypeOK, Stages
  <2>2. UNCHANGED <<mem, disk, poisoned, dead, gen, pipe, call>>
      BY <1>3 DEF linkVars
  <2>3. BrokerTypeOK'
      BY <1>1, <2>1, <2>2 DEF BrokerTypeOK
  <2>4. JournalHolds' /\ ReviewHolds'
      BY <1>1, <2>2 DEF JournalHolds, ReviewHolds, Verified
  <2>5. EvidenceHolds'
      BY <1>1, <1>3, <2>1, <2>2 DEF EvidenceHolds, SettledWell, ClosedWell
  <2>6. CallsMatch'
      BY <1>1, <2>1, <2>2 DEF CallsMatch, Proposing, Deciding
  <2>7. TicketsHold'
      BY <1>1, <2>1, <2>2 DEF TicketsHold, Allowed, Held
  <2>8. \A q \in Requests :
          /\ InProposal(q)' = InProposal(q) /\ InApproval(q)' = InApproval(q)
          /\ InDecision(q)' = InDecision(q) /\ InWorker(q)' = InWorker(q)
          /\ Done(q)' = Done(q) /\ ran'[q] = ran[q] /\ ~DispatchHeard(q)'
      BY <1>1, <2>1, <2>2 DEF InProposal, InApproval, InDecision, InWorker, Done, DispatchHeard
  <2>9. OneChance' /\ EffectsShown'
      BY <2>8, <2>2 DEF OneChance, EffectsShown
  <2> QED
      BY <2>3, <2>4, <2>5, <2>6, <2>7, <2>9
<1> QED
    BY <1>2, <1>3 DEF Returns

LEMMA PutStep ==
    ASSUME BrokerInv, Put
    PROVE  BrokerInv'
<1> USE DEF BrokerInv
<1> DEFINE e == [ticket |-> dec.ticket, req |-> dec.req]
           c == [op |-> "settle", ticket |-> dec.ticket, result |-> TRUE]
<1>1. dec.at = "archive" /\ UNCHANGED <<pending, job, ran, worker, review>>
    BY DEF Put, computerVars, workerVars
<1>e. e \in Settlement /\ archive \cup {e} \subseteq Settlement
    BY DEF BrokerTypeOK, Settlement
<1>c. c \in Settlements /\ c.ticket = dec.ticket
    BY DEF BrokerTypeOK, Settlements
<1> HIDE DEF e, c
<1>2. CASE archive' \in {archive, archive \cup {e}} /\ StartsToGiveUp
  <2>1. Talks("decide", Disconnect)
      BY <1>2, RequestTalks DEF StartsToGiveUp, Commands
  <2>2. archive \subseteq archive' /\ archive' \subseteq Settlement
      BY <1>2, <1>e
  <2> QED
      BY <2>1, <2>2, <1>1, <1>2, GiveUpStep DEF StartsToGiveUp
<1>3. ASSUME archive' = archive \cup {e}, request("decide", c), dec' = [dec EXCEPT !.at = "settle"]
      PROVE  BrokerInv'
  <2>1. Talks("decide", c)
      BY <1>3, <1>c, RequestTalks DEF Commands
  <2>2. /\ dec' \in [at: Stages, req: Asked0, ticket: Nat, gen: Nat]
        /\ dec'.at = "settle" /\ dec'.req = dec.req /\ dec'.ticket = dec.ticket
      BY <1>3 DEF BrokerTypeOK, Stages
  <2>3. /\ call'["propose"] = call["propose"] /\ ~call'["decide"].ok
        /\ UNCHANGED <<mem, disk, poisoned>>
      BY <2>1 DEF Talks
  <2>4. BrokerTypeOK'
      BY <1>1, <1>3, <1>e, <2>1, <2>2 DEF BrokerTypeOK, Talks
  <2>5. JournalHolds' /\ ReviewHolds'
      BY <1>1, <1>3, <2>3 DEF JournalHolds, ReviewHolds, Verified
  <2>6. EvidenceHolds'
    <3>1. [ticket |-> dec'.ticket, req |-> dec'.req] \in archive'
        BY <1>3, <2>2 DEF e
    <3> QED
        BY <3>1, <1>1, <1>3, <2>2, <2>3 DEF EvidenceHolds, SettledWell, ClosedWell
  <2>7. CallsMatch'
    <3>1. Proposing'
        BY <1>1, <2>3 DEF CallsMatch, Proposing
    <3>2. Deciding'
        BY <2>1, <2>2, <1>c DEF Deciding, Talks
    <3> QED
        BY <3>1, <3>2, <1>1, <2>1, <2>2 DEF CallsMatch, Talks
  <2>8. TicketsHold'
    <3>1. Held(mem, disk, dec.ticket, dec.req)
        BY <1>1 DEF TicketsHold
    <3>2. Held(mem', disk', dec'.ticket, dec'.req)
        BY <3>1, <2>2, <2>3
    <3> QED
        BY <3>2, <2>2 DEF TicketsHold, Allowed
  <2>9. \A q \in Requests :
          /\ InProposal(q)' = InProposal(q) /\ InApproval(q)' = InApproval(q)
          /\ InDecision(q)' = InDecision(q) /\ InWorker(q)' = InWorker(q)
          /\ Done(q)' = Done(q) /\ ran'[q] = ran[q] /\ ~DispatchHeard(q)'
      BY <1>1, <2>2, <2>3 DEF InProposal, InApproval, InDecision, InWorker, Done, DispatchHeard
  <2>10. OneChance' /\ EffectsShown'
      BY <2>9, <2>3 DEF OneChance, EffectsShown
  <2> QED
      BY <2>4, <2>5, <2>6, <2>7, <2>8, <2>10
<1> QED
    BY <1>2, <1>3 DEF Put, e, c

LEMMA SettledStep ==
    ASSUME BrokerInv, Settled \/ GaveUp
    PROVE  BrokerInv'
<1>1. /\ dec.at \in {"settle", "disconnect"} /\ Answered("decide")
      /\ UNCHANGED <<pending, job, ran, worker, archive, review>>
    BY DEF Settled, GaveUp, computerVars, workerVars
<1>t. BrokerTypeOK /\ archive \subseteq Settlement /\ Disconnect \in Commands
    BY DEF BrokerInv, BrokerTypeOK, Commands
<1>2. CASE GivesUp
    BY <1>1, <1>2, <1>t, ThenTalks, GiveUpStep DEF GivesUp
<1>3. CASE done("decide") /\ dec' = NoDecision
    BY <1>1, <1>3, <1>t, DoneRests, RestStep
<1> QED
    BY <1>2, <1>3 DEF Settled, GaveUp

\* Nothing the invariant speaks of changes.
BrokerState ==
    <<mem, disk, poisoned, dead, gen, pipe, call, pending, dec, job, ran, worker, archive, review>>

LEMMA SameState ==
    ASSUME BrokerInv, UNCHANGED BrokerState
    PROVE  BrokerInv'
<1> USE DEF BrokerInv, BrokerState
<1>1. BrokerTypeOK' /\ JournalHolds'
    BY DEF BrokerTypeOK, JournalHolds
<1>2. CallsMatch' /\ TicketsHold'
    BY DEF CallsMatch, Proposing, Deciding, TicketsHold, Allowed, Held
<1>3. OneChance' /\ EffectsShown'
    BY DEF OneChance, InProposal, InApproval, InDecision, InWorker, Done, EffectsShown,
           DispatchHeard
<1>4. EvidenceHolds' /\ ReviewHolds'
    BY DEF EvidenceHolds, SettledWell, ClosedWell, ReviewHolds, Verified
<1> QED
    BY <1>1, <1>2, <1>3, <1>4

\* The transport to the worker ends.
LEMMA CutStep ==
    ASSUME BrokerInv, cutOff, UNCHANGED <<pending, job, ran, worker, archive, review>>
    PROVE  BrokerInv'
<1>1. CASE dec.at = "execute"
  <2>1. StartsToGiveUp /\ BrokerTypeOK /\ archive \subseteq Settlement
      BY <1>1 DEF cutOff, BrokerInv, BrokerTypeOK
  <2>2. Talks("decide", Disconnect)
      BY <2>1, RequestTalks DEF StartsToGiveUp, Commands
  <2> QED
      BY <1>1, <2>1, <2>2, GiveUpStep DEF StartsToGiveUp
<1>2. CASE dec.at # "execute"
    BY <1>2, SameState DEF cutOff, linkVars, BrokerState
<1> QED
    BY <1>1, <1>2

LEMMA ComputerStep ==
    ASSUME BrokerInv, ComputerFails \/ Terminated \/ Terminate
    PROVE  BrokerInv'
<1>1. CASE ComputerFails
    BY <1>1, CutStep DEF ComputerFails, workerVars
<1>2. CASE Terminated
    BY <1>2, CutStep, SameState DEF Terminated, BrokerState, linkVars
<1>3. CASE Terminate
    BY <1>3, SameState DEF Terminate, BrokerState, linkVars, brokerVars, computerVars
<1> QED
    BY <1>1, <1>2, <1>3

\* A worker that is gone executes nothing, and stays gone.
LEMMA StopWorkerStep ==
    ASSUME BrokerInv, StopWorker
    PROVE  BrokerInv'
<1> USE DEF BrokerInv
<1>1. UNCHANGED <<mem, disk, poisoned, dead, gen, pipe, call, pending, dec, ran, archive, review>>
    BY DEF StopWorker, linkVars, brokerVars
<1>2. /\ worker' \in {"present", "absent"} /\ (worker = "absent" => worker' = "absent")
      /\ job' \in {job, NoRequest} /\ (worker' = "absent" => job' = NoRequest)
      /\ (worker' # "absent" => job' = job)
    BY DEF StopWorker, BrokerTypeOK
<1>3. BrokerTypeOK'
    BY <1>1, <1>2 DEF BrokerTypeOK, Asked0
<1>4. JournalHolds' /\ CallsMatch' /\ TicketsHold'
    BY <1>1 DEF JournalHolds, CallsMatch, Proposing, Deciding, TicketsHold, Allowed, Held
<1>5. \A q \in Requests :
        /\ InProposal(q)' = InProposal(q) /\ InApproval(q)' = InApproval(q)
        /\ InDecision(q)' = InDecision(q) /\ (InWorker(q)' => InWorker(q))
        /\ Done(q)' = Done(q) /\ ran'[q] = ran[q] /\ DispatchHeard(q)' = DispatchHeard(q)
    BY <1>1, <1>2 DEF InProposal, InApproval, InDecision, InWorker, Done, DispatchHeard
<1>6. OneChance' /\ EffectsShown'
    BY <1>1, <1>5 DEF OneChance, EffectsShown
<1>7. EvidenceHolds'
    BY <1>1, <1>2 DEF EvidenceHolds, SettledWell, ClosedWell, BrokerTypeOK
<1>8. ReviewHolds'
    BY <1>1, <1>2 DEF ReviewHolds, Verified
<1> QED
    BY <1>3, <1>4, <1>6, <1>7, <1>8


\* Only the review moves.
LEMMA ReviewStep ==
    ASSUME BrokerInv, review' \in Reviewing, ReviewHolds',
           UNCHANGED <<linkVars, brokerVars, computerVars, workerVars, archive>>
    PROVE  BrokerInv'
<1> USE DEF BrokerInv
<1>1. UNCHANGED <<mem, disk, poisoned, dead, gen, pipe, call, pending, dec, job, ran, worker, archive>>
    BY DEF linkVars, brokerVars, computerVars, workerVars
<1>2. BrokerTypeOK' /\ JournalHolds'
    BY <1>1 DEF BrokerTypeOK, JournalHolds
<1>3. CallsMatch' /\ TicketsHold'
    BY <1>1 DEF CallsMatch, Proposing, Deciding, TicketsHold, Allowed, Held
<1>4. OneChance' /\ EffectsShown'
    BY <1>1 DEF OneChance, InProposal, InApproval, InDecision, InWorker, Done, EffectsShown,
                DispatchHeard
<1>5. EvidenceHolds'
    BY <1>1 DEF EvidenceHolds, SettledWell, ClosedWell
<1> QED
    BY <1>2, <1>3, <1>4, <1>5

LEMMA ReviewTypes ==
    /\ NoPlan \in Plans /\ NoReview \in Reviewing /\ NoReview.at = "idle"
    BY DEF NoPlan, Plans, Asked0, NoReview, Reviewing

LEMMA PlanningStep ==
    ASSUME BrokerInv,
           \/ \E r \in Requests, outcome \in Outcomes : PrepareReview(r, outcome)
           \/ CommitReview
    PROVE  BrokerInv'
<1>a. mem.seq \in Nat /\ mem.gen \in Nat /\ mem.pending \in Nat
    BY DEF BrokerInv, JournalHolds, Sound, Snapshot
<1>1. ASSUME NEW p \in Plans, p.req \in Requests, p.outcome \in Outcomes, review' = Assessed(p)
      PROVE  review' \in Reviewing /\ ReviewHolds'
  <2>1. review' \in Reviewing /\ review'.at = "evidence" /\ review'.plan = p
      BY <1>1, <1>a DEF Assessed, Reviewing
  <2> QED
      BY <2>1, <1>1 DEF ReviewHolds
<1>2. ASSUME NEW r \in Requests, NEW outcome \in Outcomes, PrepareReview(r, outcome)
      PROVE  BrokerInv'
  <2> DEFINE p == [NoPlan EXCEPT !.req = r, !.ticket = mem.pending, !.outcome = outcome]
  <2>1. p \in Plans /\ p.req \in Requests /\ p.outcome \in Outcomes
      BY <1>a, ReviewTypes DEF Plans, Asked0
  <2>2. review' = Assessed(p)
      BY <1>2 DEF PrepareReview
  <2> HIDE DEF p
  <2>3. review' \in Reviewing /\ ReviewHolds'
      BY <1>1, <2>1, <2>2
  <2> QED
      BY <2>3, <1>2, ReviewStep DEF PrepareReview
<1>3. ASSUME CommitReview
      PROVE  BrokerInv'
  <2>1. /\ review.plan \in Plans /\ review.plan.req \in Requests /\ review.plan.outcome \in Outcomes
      BY <1>3 DEF CommitReview, BrokerInv, BrokerTypeOK, Reviewing, ReviewHolds
  <2>2. review' \in Reviewing /\ ReviewHolds'
    <3>1. CASE review' = NoReview
        BY <3>1, ReviewTypes DEF ReviewHolds
    <3>2. CASE review' = Assessed(review.plan)
        BY <3>2, <2>1, <1>1
    <3> QED
        BY <3>1, <3>2, <1>3 DEF CommitReview
  <2> QED
      BY <2>2, <1>3, ReviewStep DEF CommitReview
<1> QED
    BY <1>2, <1>3

LEMMA EvidenceStep ==
    ASSUME BrokerInv, Evidence
    PROVE  BrokerInv'
<1>1. PICK state \in observeTermination :
          review' = [review EXCEPT !.at = "recheck", !.fit = Fit(review.plan, state)]
    BY DEF Evidence
<1>2. /\ review \in Reviewing /\ review.at = "evidence"
      /\ review.plan.req \in Requests /\ review.plan.outcome \in Outcomes
    BY DEF Evidence, BrokerInv, BrokerTypeOK, ReviewHolds
<1> DEFINE f == Fit(review.plan, state)
<1>3. f \in BOOLEAN /\ (f => worker = "absent" /\ (review.plan.outcome = "accept_output" => Verified(review.plan)))
    BY DEF Fit, observeTermination
<1> HIDE DEF f
<1>4. /\ review' \in Reviewing /\ review'.at = "recheck" /\ review'.plan = review.plan
      /\ review'.fit = f
    BY <1>1, <1>2, <1>3 DEF Reviewing, f
<1>5. worker' = worker /\ archive' = archive
    BY DEF Evidence, workerVars
<1>6. ReviewHolds'
    BY <1>2, <1>3, <1>4, <1>5 DEF ReviewHolds, Verified
<1> QED
    BY <1>4, <1>6, ReviewStep DEF Evidence

LEMMA RecheckStep ==
    ASSUME BrokerInv, Recheck
    PROVE  BrokerInv'
<1> DEFINE planned == [review.plan EXCEPT !.seq = review.seq, !.gen = review.gen]
<1>1. /\ review \in Reviewing /\ review.at = "recheck" /\ review.plan \in Plans
      /\ review.seq \in Nat /\ review.gen \in Nat
      /\ review.plan.req \in Requests /\ review.plan.outcome \in Outcomes
      /\ review.fit => worker = "absent" /\ (review.plan.outcome = "accept_output" => Verified(review.plan))
    BY DEF Recheck, BrokerInv, BrokerTypeOK, ReviewHolds, Reviewing
<1>2. planned \in Plans /\ planned.req = review.plan.req /\ planned.outcome = review.plan.outcome
    BY <1>1 DEF Plans
<1> HIDE DEF planned
<1>3. \/ review' = NoReview
      \/ review' = [NoReview EXCEPT !.at = "planned", !.plan = planned]
      \/ review.fit /\ review' = [review EXCEPT !.at = "reconcile"]
    BY DEF Recheck, planned
<1>5. worker' = worker /\ archive' = archive
    BY DEF Recheck, workerVars
<1>6. review' \in Reviewing /\ ReviewHolds'
  <2>1. CASE review' = NoReview
      BY <2>1, ReviewTypes DEF ReviewHolds
  <2>2. CASE review' = [NoReview EXCEPT !.at = "planned", !.plan = planned]
    <3>1. review' \in Reviewing /\ review'.at = "planned" /\ review'.plan = planned
        BY <2>2, <1>2, ReviewTypes DEF Reviewing
    <3> QED
        BY <3>1, <1>1, <1>2 DEF ReviewHolds
  <2>3. CASE review.fit /\ review' = [review EXCEPT !.at = "reconcile"]
    <3>1. /\ review' \in Reviewing /\ review'.at = "reconcile" /\ review'.plan = review.plan
          /\ review'.fit = review.fit
        BY <2>3, <1>1 DEF Reviewing
    <3> QED
        BY <3>1, <2>3, <1>1, <1>5 DEF ReviewHolds, Verified
  <2> QED
      BY <1>3, <2>1, <2>2, <2>3
<1> QED
    BY <1>6, ReviewStep DEF Recheck

-----------------------------------------------------------------------------
(* The transport fails, or the host dies.                                   *)

LEMMA FailsStep ==
    ASSUME BrokerInv, LinkFails
    PROVE  BrokerInv'
<1> USE DEF BrokerInv
<1>1. UNCHANGED <<mem, disk, poisoned, gen, pending, dec, job, ran, worker, archive, review>>
    BY DEF LinkFails, Fails, brokerVars, computerVars, workerVars
<1> DEFINE gone == [NoCall EXCEPT !.at = "answered"]
<1>2. gone \in Calls /\ gone.at = "answered" /\ ~gone.ok
    BY NoCallType DEF Calls
<1> HIDE DEF gone
<1>3. /\ call' = [b \in Callers |-> IF call[b].at = "idle" THEN NoCall ELSE gone]
      /\ dead' = TRUE /\ pipe' = <<>>
    BY DEF LinkFails, Fails, gone
<1>4. /\ call' \in [Callers -> Calls]
      /\ \A b \in Callers : /\ (call'[b].at = "idle") = (call[b].at = "idle")
                            /\ call'[b].at # "sent" /\ ~call'[b].ok
    BY <1>2, <1>3, NoCallType
<1>5. BrokerTypeOK'
    BY <1>1, <1>3, <1>4 DEF BrokerTypeOK
<1>6. JournalHolds' /\ EvidenceHolds' /\ ReviewHolds'
    BY <1>1, KeptParts
<1>7. CallsMatch'
  <2>1. Proposing'
      BY <1>1, <1>4 DEF CallsMatch, Proposing
  <2>2. Deciding'
      BY <1>1, <1>4 DEF CallsMatch, Deciding
  <2> QED
      BY <2>1, <2>2, <1>1, <1>4 DEF CallsMatch
<1>8. TicketsHold'
    BY <1>1, <1>4 DEF TicketsHold, Allowed, Held
<1>9. \A q \in Requests :
        /\ ~InProposal(q)' /\ InApproval(q)' = InApproval(q)
        /\ InDecision(q)' = InDecision(q) /\ InWorker(q)' = InWorker(q)
        /\ Done(q)' = Done(q) /\ ran'[q] = ran[q] /\ ~DispatchHeard(q)'
    BY <1>1, <1>4 DEF InProposal, InApproval, InDecision, InWorker, Done, DispatchHeard
<1>10. OneChance' /\ EffectsShown'
    BY <1>1, <1>9 DEF OneChance, EffectsShown
<1> QED
    BY <1>5, <1>6, <1>7, <1>8, <1>10

\* What the host held is gone; what ran, what is archived and what the file
\* says are not.
LEMMA RestartStep ==
    ASSUME BrokerInv, HostRestart
    PROVE  BrokerInv'
<1> USE DEF BrokerInv
<1>1. /\ UNCHANGED <<job, ran, worker, archive>>
      /\ pending' = NoPending /\ dec' = NoDecision /\ review' = NoReview
      /\ mem' = Reopened(disk) /\ disk' = mem' /\ poisoned' = FALSE /\ dead' = FALSE
      /\ gen' = mem'.gen /\ pipe' = <<>> /\ call' = [b \in Callers |-> NoCall]
    BY DEF HostRestart, Opens
<1>2. /\ Sound(mem') /\ mem'.seq = disk.seq + 1 /\ mem'.requests = disk.requests
      /\ mem'.results = disk.results /\ mem'.resolutions = disk.resolutions
      /\ mem'.scope = disk.scope /\ mem'.dispatched = disk.dispatched
    BY <1>1, ReopenedFacts DEF JournalHolds
<1>3. /\ call' \in [Callers -> Calls]
      /\ \A b \in Callers : call'[b].at = "idle" /\ ~call'[b].ok
    BY <1>1, NoCallType
<1>4. mem'.seq \in Nat /\ mem'.gen \in Nat
    BY <1>2 DEF Sound, Snapshot
<1>5. /\ pending' \in [req: Asked0, id: Nat, gen: Nat] /\ pending'.id = 0
      /\ dec' \in [at: Stages, req: Asked0, ticket: Nat, gen: Nat] /\ dec'.at = "idle"
    BY <1>1 DEF NoPending, NoDecision, Asked0, Stages
<1>6. BrokerTypeOK'
  <2>0. <<>> \in Seq(Callers)
      OBVIOUS
  <2>1. poisoned' \in BOOLEAN /\ dead' \in BOOLEAN /\ gen' \in Nat /\ pipe' \in Seq(Callers)
    <3>1. gen' \in Nat /\ pipe' \in Seq(Callers)
        BY <1>1, <1>4, <2>0
    <3>2. poisoned' \in BOOLEAN /\ dead' \in BOOLEAN
        BY <1>1
    <3> QED
        BY <3>1, <3>2
  <2>2. /\ job' \in Asked0 /\ ran' \in [Requests -> Nat] /\ review' \in Reviewing
        /\ worker' \in {"present", "absent"} /\ archive' \subseteq Settlement
      BY <1>1, ReviewTypes DEF BrokerTypeOK
  <2> QED
      BY <2>1, <2>2, <1>3, <1>5 DEF BrokerTypeOK
<1>7. JournalHolds'
    BY <1>1, <1>2, <1>4 DEF JournalHolds
<1>8. CallsMatch'
  <2>1. Proposing' /\ Deciding'
      BY <1>3, <1>5 DEF Proposing, Deciding
  <2> QED
      BY <2>1, <1>3, <1>5 DEF CallsMatch
<1>9. TicketsHold'
    BY <1>5 DEF TicketsHold, Allowed
<1>10. \A q \in Requests :
        /\ ~InProposal(q)' /\ ~InApproval(q)' /\ ~InDecision(q)' /\ InWorker(q)' = InWorker(q)
        /\ Done(q)' = Done(q) /\ ran'[q] = ran[q] /\ ~DispatchHeard(q)'
    BY <1>1, <1>3, <1>5 DEF InProposal, InApproval, InDecision, InWorker, Done, DispatchHeard
<1>11. OneChance'
    BY <1>1, <1>2, <1>10 DEF OneChance
<1>12. EffectsShown'
  <2>1. \A r \in Requests : Accounted(disk, r) => Accounted(mem', r)
      BY <1>2 DEF Accounted, Ended
  <2> QED
      BY <2>1, <1>1, <1>10 DEF EffectsShown
<1>13. EvidenceHolds'
    BY <1>1, <1>2, <1>5 DEF EvidenceHolds, SettledWell, ClosedWell
<1>14. ReviewHolds'
    BY <1>1, ReviewTypes DEF ReviewHolds
<1> QED
    BY <1>6, <1>7, <1>8, <1>9, <1>11, <1>12, <1>13, <1>14


-----------------------------------------------------------------------------
(* The theorems.                                                            *)

LEMMA BrokerInvInit == BrokerInit => BrokerInv
<1> SUFFICES ASSUME BrokerInit
             PROVE  BrokerInv
    OBVIOUS
<1>1. /\ pending = NoPending /\ dec = NoDecision /\ job = NoRequest
      /\ ran = [r \in Requests |-> 0] /\ worker = "present" /\ archive = {}
      /\ review = NoReview /\ mem = Reopened(Blank) /\ disk = mem /\ poisoned = FALSE
      /\ dead = FALSE /\ gen = 0 /\ pipe = <<>> /\ call = [b \in Callers |-> NoCall]
    BY DEF BrokerInit, LinkInit
<1>2. Sound(Blank) /\ Blank.results = {} /\ Blank.resolutions = {}
    BY BlankType DEF Sound, Ended, Blank
<1>3. Sound(mem) /\ mem.results = {} /\ mem.resolutions = {} /\ mem.seq \in Nat
    BY <1>1, <1>2, ReopenedFacts DEF Sound, Snapshot
<1>4. /\ call \in [Callers -> Calls]
      /\ \A b \in Callers : call[b].at = "idle" /\ ~call[b].ok
    BY <1>1, NoCallType
<1>5. /\ pending \in [req: Asked0, id: Nat, gen: Nat] /\ pending.id = 0
      /\ dec \in [at: Stages, req: Asked0, ticket: Nat, gen: Nat] /\ dec.at = "idle"
    BY <1>1 DEF NoPending, NoDecision, Asked0, Stages
<1>6. /\ job \in Asked0 /\ ran \in [Requests -> Nat] /\ worker \in {"present", "absent"}
      /\ archive \subseteq Settlement /\ review \in Reviewing /\ job \notin Requests
    BY <1>1, ReviewTypes DEF Asked0
<1>7. BrokerTypeOK
  <2>0. <<>> \in Seq(Callers)
      OBVIOUS
  <2>1. poisoned \in BOOLEAN /\ dead \in BOOLEAN /\ gen \in Nat /\ pipe \in Seq(Callers)
    <3>1. gen \in Nat /\ pipe \in Seq(Callers)
        BY <1>1, <2>0
    <3>2. poisoned \in BOOLEAN /\ dead \in BOOLEAN
        BY <1>1
    <3> QED
        BY <3>1, <3>2
  <2> QED
      BY <2>1, <1>4, <1>5, <1>6 DEF BrokerTypeOK
<1>8. JournalHolds
    BY <1>1, <1>3 DEF JournalHolds
<1>9. CallsMatch
    BY <1>4, <1>5 DEF CallsMatch, Proposing, Deciding
<1>10. TicketsHold
    BY <1>5 DEF TicketsHold, Allowed
<1>11. \A q \in Requests :
        /\ ~InProposal(q) /\ ~InApproval(q) /\ ~InDecision(q) /\ ~InWorker(q)
        /\ ~Done(q) /\ ran[q] = 0 /\ ~DispatchHeard(q)
    BY <1>1, <1>4, <1>5, <1>6 DEF InProposal, InApproval, InDecision, InWorker, Done, DispatchHeard
<1>12. OneChance /\ EffectsShown
    BY <1>11 DEF OneChance, EffectsShown
<1>13. EvidenceHolds
    BY <1>1, <1>3, <1>5 DEF EvidenceHolds
<1>14. ReviewHolds
    BY <1>1, ReviewTypes DEF ReviewHolds
<1> QED
    BY <1>7, <1>8, <1>9, <1>10, <1>12, <1>13, <1>14 DEF BrokerInv

LEMMA BrokerInvNext == BrokerInv /\ [Next]_vars => BrokerInv'
<1> SUFFICES ASSUME BrokerInv, [Next]_vars
             PROVE  BrokerInv'
    OBVIOUS
<1>1. CASE \E r \in Requests : Propose(r)
    BY <1>1, ProposeStep
<1>2. CASE Proposed
    BY <1>2, ProposedStep
<1>3. CASE \E verdict \in {"allow", "deny"} : Decide(verdict)
    BY <1>3, DecideStep
<1>4. CASE Decided
    BY <1>4, DecidedStep
<1>5. CASE Dispatched
    BY <1>5, DispatchedStep
<1>6. CASE Execute
    BY <1>6, ExecuteStep
<1>7. CASE Returns
    BY <1>7, ReturnsStep
<1>8. CASE Put
    BY <1>8, PutStep
<1>9. CASE Settled \/ GaveUp
    BY <1>9, SettledStep
<1>10. CASE \E op \in Operations : Command(op)
    BY <1>10, CommandStep
<1>11. CASE ComputerFails \/ Terminated \/ Terminate
    BY <1>11, ComputerStep
<1>12. CASE StopWorker
    BY <1>12, StopWorkerStep
<1>13. CASE \/ \E r \in Requests, outcome \in Outcomes : PrepareReview(r, outcome)
            \/ CommitReview
    BY <1>13, PlanningStep
<1>14. CASE Evidence
    BY <1>14, EvidenceStep
<1>15. CASE Recheck
    BY <1>15, RecheckStep
<1>16. CASE Reconcile
    BY <1>16, ReconcileStep
<1>17. CASE LinkServes
    BY <1>17, ServesStep
<1>18. CASE LinkFails
    BY <1>18, FailsStep
<1>19. CASE HostRestart
    BY <1>19, RestartStep
<1>20. CASE UNCHANGED vars
    BY <1>20, SameState DEF vars, linkVars, brokerVars, computerVars, workerVars, BrokerState
<1> QED
    BY <1>1, <1>2, <1>3, <1>4, <1>5, <1>6, <1>7, <1>8, <1>9, <1>10, <1>11, <1>12, <1>13,
       <1>14, <1>15, <1>16, <1>17, <1>18, <1>19, <1>20 DEF Next

\* The invariant holds of every behaviour of the broker: its calls, the journal's
\* file and memory, the worker, the archive and the recovery agree about what may
\* still run and what has run (native-tool-broker.mjs, durable.rs).
THEOREM BrokerCorrect == Spec => []BrokerInv
    BY BrokerInvInit, BrokerInvNext, PTL DEF Spec

\* A request is executed once at most: its one execution is in one place at
\* a time, and the journal has admitted it before it is anywhere.
THEOREM ExecutedOnce == Spec => []RanOnce
<1>1. BrokerInv => RanOnce
    BY DEF BrokerInv, OneChance, RanOnce
<1> QED
    BY <1>1, BrokerCorrect, PTL

\* Whatever the worker was asked, the file of the journal tells of it.
THEOREM EffectsOnFile == Spec => []NoHiddenEffect
<1>1. BrokerInv => NoHiddenEffect
    BY DEF BrokerInv, EffectsShown, InWorker, Done, Accounted, Ended, NoHiddenEffect
<1> QED
    BY <1>1, BrokerCorrect, PTL

\* What is settled or closed runs no more: a settled request has had its
\* execution, a closed one was closed when no worker was left.
LEMMA OutcomeEndsJob == BrokerInv => \A e \in Ended(mem) \cup Ended(disk) : job # e.req
<1> SUFFICES ASSUME BrokerInv, NEW e \in Ended(mem) \cup Ended(disk)
             PROVE  job # e.req
    OBVIOUS
<1> USE DEF BrokerInv
<1>1. CASE e \in mem.results \cup disk.results
  <2>1. e.req \in Requests /\ Done(e.req)
      BY <1>1 DEF EvidenceHolds, SettledWell, Done
  <2> QED
      BY <2>1 DEF OneChance, InWorker
<1>2. CASE e \in mem.resolutions \cup disk.resolutions
  <2>1. worker = "absent" /\ e.req \in Requests
      BY <1>2 DEF EvidenceHolds, ClosedWell, JournalHolds, Sound, Snapshot, Resolution
  <2> QED
      BY <2>1 DEF EvidenceHolds
<1> QED
    BY <1>1, <1>2 DEF Ended

\* No outcome is on record for a request that may still run.
THEOREM OutcomeIsFinal == Spec => []ClosedIsDead
<1>1. BrokerInv => ClosedIsDead
    BY OutcomeEndsJob DEF ClosedIsDead, Ended
<1> QED
    BY <1>1, BrokerCorrect, PTL

\* What the journal calls settled or accepted was produced and archived, and
\* no ticket has two outcomes.
THEOREM OutcomeWasProduced == Spec => []OutcomeIsProven
<1>1. ASSUME BrokerInv
      PROVE  OutcomeIsProven
  <2> USE DEF BrokerInv
  <2>1. ASSUME NEW e \in disk.results
        PROVE  [ticket |-> e.ticket, req |-> e.req] \in archive /\ ran[e.req] = 1
    <3>1. SettledWell(e) /\ e \in Settlement
        BY <1>1 DEF EvidenceHolds, JournalHolds, Sound, Snapshot
    <3>2. e = [ticket |-> e.ticket, req |-> e.req]
        BY <3>1 DEF Settlement
    <3>3. e.req \in Requests /\ ran[e.req] > 0 /\ e \in archive
        BY <3>1 DEF SettledWell
    <3>4. ran[e.req] \in Nat /\ ran[e.req] <= 1
        BY <1>1, <3>3 DEF OneChance, BrokerTypeOK
    <3> QED
        BY <3>2, <3>3, <3>4
  <2>2. \A e \in disk.resolutions :
          e.outcome = "accept_output" => [ticket |-> e.ticket, req |-> e.req] \in archive
      BY <1>1 DEF EvidenceHolds, ClosedWell, Record
  <2>3. \A e \in disk.results, f \in disk.resolutions : e.ticket # f.ticket
      BY <1>1 DEF JournalHolds, Sound
  <2> QED
      BY <2>1, <2>2, <2>3 DEF OutcomeIsProven
<1> QED
    BY <1>1, BrokerCorrect, PTL

\* While a human has control nothing is pending, so what is in the worker
\* would have to have an outcome, which nothing in the worker has.
THEOREM HumanHasHands == Spec => []HumanAlone
<1>1. ASSUME BrokerInv, mem.mode = "human"
      PROVE  job = NoRequest
  <2> USE DEF BrokerInv
  <2>1. ~mem.dispatched
      BY <1>1 DEF JournalHolds, Sound
  <2>2. SUFFICES ASSUME job \in Requests
                 PROVE  FALSE
      BY <1>1 DEF BrokerTypeOK, Asked0
  <2>3. Accounted(mem, job)
      BY <1>1, <2>2 DEF EffectsShown, InWorker
  <2> QED
      BY <1>1, <2>1, <2>3, OutcomeEndsJob DEF Accounted
<1> QED
    BY <1>1, BrokerCorrect, PTL DEF HumanAlone

=============================================================================
