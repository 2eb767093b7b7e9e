--------------------------- MODULE DurableJournal ---------------------------
(***************************************************************************)
(* The M0 journal of crates/agentmeld-m0/src/durable.rs: one snapshot, the *)
(* commands that move it, and what opening it after a crash makes of it.   *)
(*                                                                         *)
(* A command is a record whose op names it.  Digests and scopes are taken  *)
(* for what they bind: an action proposed for approval is its request, and *)
(* an action admitted directly has NoRequest.  The observation kept after  *)
(* a hand-back, and the limits on lengths and counts, are left out.        *)
(***************************************************************************)
EXTENDS Integers

CONSTANTS Requests, NoRequest

ASSUME JournalAssumption == NoRequest \notin Requests

NoApproval == [id |-> 0, gen |-> 0, req |-> NoRequest, keep |-> FALSE]

\* Snapshot, before its first line.
Blank ==
    [seq |-> 0, gen |-> 0, mode |-> "agent", private |-> FALSE, decision |-> "none",
     pending |-> 0, scope |-> NoRequest, required |-> FALSE, dispatched |-> FALSE,
     uncertain |-> FALSE, approval |-> NoApproval, requests |-> {},
     results |-> {}, resolutions |-> {}]

\* require: the caller's mode and generation, and nothing unresolved.
Current(s, mode, gen) == s.mode = mode /\ s.gen = gen /\ ~s.uncertain

Cleared(s) == [s EXCEPT !.pending = 0, !.scope = NoRequest, !.required = FALSE,
                        !.dispatched = FALSE]

revoke_undispatched(s) ==
    LET t == [s EXCEPT !.approval = NoApproval]
    IN IF s.dispatched \/ s.uncertain THEN t ELSE Cleared(t)

Pended(s, req, keep) ==
    [s EXCEPT !.pending = s.seq + 1, !.scope = req, !.required = keep, !.dispatched = FALSE]

\* resolve_state: what a review must still find to be recorded.
Resolvable(s, c) ==
    /\ s.mode \in {"paused", "cancelled"}
    /\ s.dispatched /\ s.required /\ s.pending = c.ticket /\ s.scope = c.req
    /\ s.seq = c.seq /\ s.gen = c.gen /\ c.absent
    /\ (c.outcome = "accept_output") = c.result

\* Bug: a request is only compared with the one that is undecided.
ProposableAgain(s, c) ==
    Current(s, "agent", c.gen) /\ s.pending = 0 /\ s.approval = NoApproval

\* The digests of every request ever proposed are kept.
Proposable(s, c) ==
    /\ Current(s, "agent", c.gen) /\ s.pending = 0
    /\ s.approval = NoApproval /\ c.req \notin s.requests

\* Bug: the human is ready while an action is still dispatched.
QuiescedNot(s, c) == Current(s, "pausing", c.gen)

\* human_ready waits for the agent's action to settle.
Quiesced(s, c) == Current(s, "pausing", c.gen) /\ s.pending = 0

\* apply: whether a command is obeyed.
Permits(s, c) ==
    CASE c.op = "propose" -> Proposable(s, c)
      [] c.op = "decide" ->
           /\ s.approval # NoApproval /\ Current(s, "awaiting_approval", s.approval.gen)
           /\ s.approval.id = c.id /\ s.approval.req = c.req
      [] c.op = "admit" -> Current(s, c.actor, c.gen) /\ s.pending = 0 /\ ~s.private
      [] c.op = "dispatch" ->
           Current(s, c.actor, c.gen) /\ s.pending = c.ticket /\ ~s.dispatched
      [] c.op = "settle" ->
           /\ s.pending = c.ticket /\ ~s.uncertain /\ s.dispatched
           /\ s.required => c.result
           /\ c.result => s.scope # NoRequest
      [] c.op = "reconcile" -> Resolvable(s, c)
      [] c.op = "private_begin" -> Current(s, "human", c.gen) /\ s.pending = 0 /\ ~s.private
      [] c.op = "private_end" -> Current(s, "human", c.gen) /\ s.pending = 0 /\ s.private
      [] c.op = "takeover" ->
           s.mode \in {"agent", "paused", "awaiting_approval"} /\ ~s.uncertain
      [] c.op = "human_ready" -> Quiesced(s, c)
      [] c.op = "resume" -> Current(s, "human", c.gen) /\ ~s.private
      [] c.op = "observed" -> Current(s, "resuming", c.gen) /\ s.pending = 0
      [] c.op \in {"disconnect", "cancel"} -> TRUE

Bumped(s) == [s EXCEPT !.gen = @ + 1]

\* apply: the snapshot it makes of s; verdict is "allow", "deny" or, when the
\* deadline has passed, "expired".
Effect(s, c) ==
    CASE c.op = "propose" ->
           [s EXCEPT !.mode = "awaiting_approval", !.requests = @ \cup {c.req},
                     !.decision = "none",
                     !.approval = [id |-> s.seq + 1, gen |-> c.gen, req |-> c.req,
                                   keep |-> c.keep]]
      [] c.op = "decide" ->
           LET t == [s EXCEPT !.mode = "agent", !.approval = NoApproval,
                              !.decision = c.verdict]
           IN IF c.verdict = "allow" THEN Pended(t, s.approval.req, s.approval.keep) ELSE t
      [] c.op = "admit" -> [s EXCEPT !.pending = s.seq + 1, !.dispatched = FALSE]
      [] c.op = "dispatch" -> [s EXCEPT !.dispatched = TRUE]
      [] c.op = "settle" ->
           Cleared(IF c.result
                   THEN [s EXCEPT !.results = @ \cup {[ticket |-> c.ticket, req |-> s.scope]}]
                   ELSE s)
      [] c.op = "reconcile" ->
           Bumped(Cleared([s EXCEPT !.uncertain = FALSE,
                    !.resolutions = @ \cup {[ticket |-> c.ticket, req |-> c.req,
                                             outcome |-> c.outcome]}]))
      [] c.op = "private_begin" -> Bumped([s EXCEPT !.private = TRUE])
      [] c.op = "private_end" -> Bumped([s EXCEPT !.private = FALSE])
      [] c.op = "takeover" -> [revoke_undispatched(Bumped(s)) EXCEPT !.mode = "pausing"]
      [] c.op = "human_ready" -> [s EXCEPT !.mode = "human"]
      [] c.op = "resume" -> Bumped([s EXCEPT !.mode = "resuming"])
      [] c.op = "observed" -> [s EXCEPT !.mode = "agent"]
      [] c.op \in {"disconnect", "cancel"} ->
           [Bumped(revoke_undispatched(s)) EXCEPT
              !.mode = IF c.op = "cancel" \/ @ = "cancelled" THEN "cancelled" ELSE "paused"]

\* persist: each snapshot is a line of its own.
Written(s) == [s EXCEPT !.seq = @ + 1]

\* open: a journal with lines was left by an owner that is gone.
Reopened(s) ==
    Written(IF s.seq = 0 THEN s
            ELSE [Bumped(s) EXCEPT !.mode = IF @ = "cancelled" THEN @ ELSE "paused",
                                   !.uncertain = s.pending # 0,
                                   !.approval = NoApproval])
=============================================================================
