----------------------------- MODULE ToolBroker -----------------------------
(***************************************************************************)
(* The tool path of experiments/: a provider's callback is proposed,       *)
(* reviewed, dispatched to the owned worker, archived and settled          *)
(* (native-tool-broker.mjs, container-computer.mjs, result-archive.mjs),   *)
(* the worker can be stopped (owned-worker.mjs), and what a crash or a     *)
(* failure left undecided is closed by a review of the evidence            *)
(* (recovery-assessment.mjs, reviewed-recovery.mjs, recovery-worker.mjs).  *)
(* Everyone speaks to the one journal over the AuthorityLink.              *)
(*                                                                         *)
(* The broker has an archive, so every proposal requires a result.  One    *)
(* decide runs at a time: a second one needs a proposal the journal only   *)
(* accepts after the first has settled or been refused.                    *)
(***************************************************************************)
EXTENDS AuthorityLink, FiniteSets

CONSTANT MaxHands   \* generations the operator may reach

VARIABLES
    pending, seen,              \* NativeToolBroker
    dec,                        \* its decide under way
    job, ran,                   \* the worker: its current call, effects so far
    cut,                        \* ContainerComputer.dead
    worker, revoked, stopping,  \* the container, OwnedWorker.revoked, .stopping
    archive,                    \* records of the ResultArchive
    review                      \* prepareRecoveryReview or commitRecoveryReview under way

brokerVars == <<pending, seen, dec>>
computerVars == <<job, ran, cut>>
workerVars == <<worker, revoked, stopping>>
vars == <<linkVars, brokerVars, computerVars, workerVars, archive, review>>

ASSUME BrokerAssumption == {"propose", "decide"} \subseteq Callers /\ MaxHands \in Nat

NoPending == [req |-> NoRequest, id |-> 0, gen |-> 0]
NoDecision == [at |-> "idle", req |-> NoRequest, ticket |-> 0, gen |-> 0]
NoPlan == [req |-> NoRequest, ticket |-> 0, seq |-> 0, gen |-> 0, outcome |-> "none"]
NoReview == [at |-> "idle", plan |-> NoPlan, seq |-> 0, gen |-> 0, fit |-> FALSE]

BrokerInit ==
    /\ LinkInit
    /\ pending = NoPending /\ seen = {} /\ dec = NoDecision
    /\ job = NoRequest /\ ran = [r \in Requests |-> 0] /\ cut = FALSE
    /\ worker = "present" /\ revoked = FALSE /\ stopping = "no"
    /\ archive = {} /\ review = NoReview

-----------------------------------------------------------------------------
(* Proposals: pending is reserved before the journal is asked.             *)

authorized == ~revoked /\ ~cut

Propose(r) ==
    /\ call["propose"].at = "idle"
    /\ pending = NoPending /\ authorized /\ r \notin seen
    /\ seen' = seen \cup {r}
    /\ pending' = [req |-> r, id |-> 0, gen |-> gen]
    /\ request("propose", [op |-> "propose", gen |-> gen, req |-> r, keep |-> TRUE])
    /\ UNCHANGED <<dec, computerVars, workerVars, archive, review>>

Proposed ==
    /\ Answered("propose") /\ done("propose")
    /\ pending' = IF call["propose"].ok
                  THEN [pending EXCEPT !.id = call["propose"].state.approval.id]
                  ELSE NoPending
    /\ UNCHANGED <<seen, dec, computerVars, workerVars, archive, review>>

-----------------------------------------------------------------------------
(* Decisions: one attempt, and a disconnect when anything goes wrong.      *)

\* An approval that has expired is denied, whatever the reviewer said.
Decide(verdict) ==
    /\ dec.at = "idle" /\ pending.id # 0
    /\ pending' = NoPending
    /\ dec' = [at |-> "decide", req |-> pending.req, ticket |-> 0, gen |-> pending.gen]
    /\ request("decide", [op |-> "decide", id |-> pending.id, req |-> pending.req,
                          verdict |-> verdict])
    /\ UNCHANGED <<seen, computerVars, workerVars, archive, review>>

Disconnect == [op |-> "disconnect"]
GivesUp == then("decide", Disconnect) /\ dec' = [dec EXCEPT !.at = "disconnect"]
StartsToGiveUp == request("decide", Disconnect) /\ dec' = [dec EXCEPT !.at = "disconnect"]

Decided ==
    LET reply == call["decide"]
    IN /\ dec.at = "decide" /\ Answered("decide")
       /\ IF reply.ok /\ reply.state.decision # "allow"
          THEN done("decide") /\ dec' = NoDecision
          ELSE IF reply.ok /\ authorized
          THEN /\ then("decide", [op |-> "dispatch", actor |-> "agent", gen |-> dec.gen,
                                  ticket |-> reply.state.pending])
               /\ dec' = [dec EXCEPT !.at = "dispatch", !.ticket = reply.state.pending]
          ELSE GivesUp
       /\ UNCHANGED <<pending, seen, computerVars, workerVars, archive, review>>

\* Bug: the tool is called before the journal has answered the dispatch.
DispatchedUnheard ==
    /\ dec.at = "dispatch" /\ Answered("decide")
    /\ done("decide") /\ dec' = [dec EXCEPT !.at = "execute"]
    /\ job' = IF worker = "present" THEN dec.req ELSE job
    /\ UNCHANGED <<pending, seen, ran, cut, workerVars, archive, review>>

\* ContainerComputer.request, behind OwnedWorker.request.
Dispatched ==
    /\ dec.at = "dispatch" /\ Answered("decide")
    /\ IF call["decide"].ok /\ authorized
       THEN /\ done("decide") /\ dec' = [dec EXCEPT !.at = "execute"]
            /\ job' = IF worker = "present" THEN dec.req ELSE job
       ELSE GivesUp /\ UNCHANGED job
    /\ UNCHANGED <<pending, seen, ran, cut, workerVars, archive, review>>

\* The worker does what it was asked, whoever still listens.
Execute ==
    /\ job # NoRequest
    /\ ran' = [ran EXCEPT ![job] = @ + 1]
    /\ job' = NoRequest
    /\ UNCHANGED <<linkVars, brokerVars, cut, workerVars, archive, review>>

\* Its answer: a value that is valid, or a refusal, or a value that is not.
Returns ==
    /\ dec.at = "execute" /\ job = NoRequest /\ ~cut
    /\ \/ /\ worker = "present" /\ ran[dec.req] > 0
          /\ dec' = [dec EXCEPT !.at = "archive"] /\ UNCHANGED <<linkVars>>
       \/ StartsToGiveUp
    /\ UNCHANGED <<pending, seen, computerVars, workerVars, archive, review>>

\* ContainerComputer.fail: a timeout, an exit or a bad frame ends the
\* transport; a call the worker has already read goes on in it.
cutOff == cut' = TRUE /\ IF dec.at = "execute" THEN StartsToGiveUp
                                                ELSE UNCHANGED <<linkVars, dec>>

ComputerFails ==
    /\ ~cut /\ dec.at = "execute" /\ cutOff
    /\ UNCHANGED <<pending, seen, job, ran, workerVars, archive, review>>

\* ResultArchive.put, and the receipt on its way to the journal.
Put ==
    /\ dec.at = "archive"
    /\ \/ /\ archive' = archive \cup {[ticket |-> dec.ticket, req |-> dec.req]}
          /\ request("decide", [op |-> "settle", ticket |-> dec.ticket, result |-> TRUE])
          /\ dec' = [dec EXCEPT !.at = "settle"]
       \/ /\ archive' \in {archive, archive \cup {[ticket |-> dec.ticket, req |-> dec.req]}}
          /\ StartsToGiveUp
    /\ UNCHANGED <<pending, seen, computerVars, workerVars, review>>

Settled ==
    /\ dec.at = "settle" /\ Answered("decide")
    /\ IF call["decide"].ok THEN done("decide") /\ dec' = NoDecision ELSE GivesUp
    /\ UNCHANGED <<pending, seen, computerVars, workerVars, archive, review>>

GaveUp ==
    /\ dec.at = "disconnect" /\ Answered("decide")
    /\ done("decide") /\ dec' = NoDecision
    /\ UNCHANGED <<pending, seen, computerVars, workerVars, archive, review>>

-----------------------------------------------------------------------------
(* The operator: journal commands at the generation last seen, and the     *)
(* worker's termination, which needs an inventory without it.              *)

\* The model's operator pauses and cancels what is not paused or cancelled,
\* and changes hands MaxHands times.
Useful(op) ==
    /\ op = "disconnect" => mem.mode \notin {"paused", "cancelled"}
    /\ op = "cancel" => mem.mode # "cancelled"
    /\ op \in {"takeover", "resume", "disconnect"} => mem.gen < MaxHands

Command(op) ==
    /\ Useful(op) /\ Asks([op |-> op, gen |-> gen])
    /\ UNCHANGED <<brokerVars, computerVars, workerVars, archive, review>>

Terminate ==
    /\ stopping = "no" /\ ~revoked
    /\ revoked' = TRUE /\ stopping' = "stop"
    /\ UNCHANGED <<linkVars, brokerVars, computerVars, worker, archive, review>>

\* runtime.stop may fail, or fail to say that it worked.
StopWorker ==
    /\ stopping = "stop" /\ stopping' = "inventory"
    /\ worker' \in {worker, "absent"}
    /\ job' = IF worker' = "absent" THEN NoRequest ELSE job
    /\ UNCHANGED <<linkVars, brokerVars, ran, cut, revoked, archive, review>>

observeTermination == {worker, "unavailable"}

Terminated ==
    /\ stopping = "inventory" /\ stopping' = "no"
    /\ \E state \in observeTermination :
          IF state = "absent" THEN cutOff ELSE UNCHANGED <<linkVars, dec, cut>>
    /\ UNCHANGED <<pending, seen, job, ran, worker, revoked, archive, review>>

-----------------------------------------------------------------------------
(* Reviews: assessRecovery reads the journal, the archive and the          *)
(* inventory, and the journal again; a plan is prepared, and committed if  *)
(* nothing moved.                                                          *)

\* Nothing but an action that was dispatched and is undecided is reviewable.
Undecided(plan) ==
    /\ mem.mode \in {"paused", "cancelled"} /\ mem.dispatched
    /\ mem.pending = plan.ticket /\ mem.scope = plan.req

Assessed(plan) == [at |-> "evidence", plan |-> plan, seq |-> mem.seq, gen |-> mem.gen,
                   fit |-> FALSE]

PrepareReview(r, outcome) ==
    LET plan == [NoPlan EXCEPT !.req = r, !.ticket = mem.pending, !.outcome = outcome]
    IN /\ review.at = "idle" /\ Readable /\ Undecided(plan)
       /\ review' = Assessed(plan)
       /\ UNCHANGED <<linkVars, brokerVars, computerVars, workerVars, archive>>

CommitReview ==
    /\ review.at = "planned"
    /\ review' = IF Readable /\ Undecided(review.plan) THEN Assessed(review.plan) ELSE NoReview
    /\ UNCHANGED <<linkVars, brokerVars, computerVars, workerVars, archive>>

Verified(plan) == [ticket |-> plan.ticket, req |-> plan.req] \in archive

\* requireReviewable.
Fit(plan, state) == state = "absent" /\ (plan.outcome = "accept_output" => Verified(plan))

\* A record or an inventory that cannot be read is no evidence.
Evidence ==
    /\ review.at = "evidence"
    /\ \E state \in observeTermination :
          review' = [review EXCEPT !.at = "recheck", !.fit = Fit(review.plan, state)]
    /\ UNCHANGED <<linkVars, brokerVars, computerVars, workerVars, archive>>

Unmoved == mem.seq = review.seq /\ mem.gen = review.gen

Recheck ==
    /\ review.at = "recheck"
    /\ LET plan == review.plan
           planned == [plan EXCEPT !.seq = review.seq, !.gen = review.gen]
           sound == Readable /\ Unmoved /\ review.fit
       IN review' = CASE sound /\ plan.seq = 0 ->
                            [NoReview EXCEPT !.at = "planned", !.plan = planned]
                      [] sound /\ plan = planned -> [review EXCEPT !.at = "reconcile"]
                      [] OTHER -> NoReview
    /\ UNCHANGED <<linkVars, brokerVars, computerVars, workerVars, archive>>

Reconcile ==
    /\ review.at = "reconcile" /\ review' = NoReview
    /\ Asks([op |-> "reconcile", ticket |-> review.plan.ticket, req |-> review.plan.req,
             seq |-> review.plan.seq, gen |-> review.plan.gen, absent |-> TRUE,
             outcome |-> review.plan.outcome,
             result |-> review.plan.outcome = "accept_output"])
    /\ UNCHANGED <<brokerVars, computerVars, workerVars, archive>>

-----------------------------------------------------------------------------
(* The link, and a host that dies: its objects are gone, its journal,      *)
(* archive and worker are not.                                             *)

LinkServes == Serve /\ UNCHANGED <<brokerVars, computerVars, workerVars, archive, review>>
LinkFails == Fails /\ UNCHANGED <<brokerVars, computerVars, workerVars, archive, review>>

HostRestart ==
    /\ Fault /\ Opens
    /\ pending' = NoPending /\ seen' = {} /\ dec' = NoDecision
    /\ cut' = (worker = "absent") /\ revoked' = (worker = "absent") /\ stopping' = "no"
    /\ review' = NoReview
    /\ UNCHANGED <<job, ran, worker, archive>>

Operations == {"takeover", "human_ready", "resume", "observed", "disconnect", "cancel"}
Outcomes == {"accept_output", "close_unknown"}

Next ==
    \/ \E r \in Requests : Propose(r)
    \/ Proposed
    \/ \E verdict \in {"allow", "deny"} : Decide(verdict)
    \/ Decided \/ Dispatched \/ Execute \/ Returns \/ ComputerFails
    \/ Put \/ Settled \/ GaveUp
    \/ \E op \in Operations : Command(op)
    \/ Terminate \/ StopWorker \/ Terminated
    \/ \E r \in Requests, outcome \in Outcomes : PrepareReview(r, outcome)
    \/ CommitReview \/ Evidence \/ Recheck \/ Reconcile
    \/ LinkServes \/ LinkFails \/ HostRestart

Spec == BrokerInit /\ [][Next]_vars

\* Answers come, or the deadlines of the two transports do.
Fairness ==
    /\ WF_vars(LinkServes) /\ WF_vars(Proposed)
    /\ WF_vars(Returns \/ ComputerFails)
    /\ WF_vars(Decided \/ Dispatched \/ Put \/ Settled \/ GaveUp)

FairSpec == Spec /\ Fairness

-----------------------------------------------------------------------------
\* A request is executed once at most, also when the host has restarted and
\* the provider calls again: the journal remembers every request it admitted.
RanOnce == \A r \in Requests : ran[r] <= 1

\* Nothing is or was executed that the file of the journal does not show as
\* dispatched, settled or reviewed, whatever was lost on the way.
NoHiddenEffect ==
    \A r \in Requests : (ran[r] > 0 \/ job = r) =>
       \/ disk.scope = r /\ disk.dispatched
       \/ \E e \in disk.results \cup disk.resolutions : e.req = r

\* When the outcome of a request is settled or closed, it runs no more: a
\* review is only recorded once the inventory no longer shows the worker.
ClosedIsDead ==
    \A e \in disk.results \cup disk.resolutions : job # e.req

\* A settled result or an accepted output was produced and archived, and a
\* ticket ends one way only, settled by the broker or closed by a review.
OutcomeIsProven ==
    /\ \A e \in disk.results : [ticket |-> e.ticket, req |-> e.req] \in archive /\ ran[e.req] = 1
    /\ \A e \in disk.resolutions :
          e.outcome = "accept_output" => [ticket |-> e.ticket, req |-> e.req] \in archive
    /\ \A e \in disk.results, f \in disk.resolutions : e.ticket # f.ticket

\* While the journal says a human has control, the worker executes nothing
\* for the agent.
HumanAlone == mem.mode = "human" => job = NoRequest

\* A decision that was begun ends, with a result or a refusal.
DecisionEnds == dec.at # "idle" ~> dec.at = "idle"
=============================================================================
