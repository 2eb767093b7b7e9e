---------------------------- MODULE ControlTrack ----------------------------
(***************************************************************************)
(* Approvals and the controller lease in one browser page: the polls, the  *)
(* decision, revocation and lease clicks and the heartbeat of              *)
(* apps/poc/public/client-track.js.                                        *)
(*                                                                         *)
(* The service, and other devices at it, are external: their rows, lease   *)
(* generation and holder change between any two steps of the page.  A GET  *)
(* carries what the service held when it read, and arrives later, in any   *)
(* order, or not at all.  Time is counted in poll periods; a period ends   *)
(* only when its polls were answered or failed.                            *)
(***************************************************************************)
EXTENDS Integers

CONSTANTS
    Approvals,   \* approval ids
    MaxGen,      \* bound on the lease generation
    Beat,        \* periods after which a hold is refreshed (60 s)
    Lapses,      \* periods after which the service releases a hold (5 min)
    MaxFailures, \* requests that may still fail
    MaxClicks    \* bound on the requests the user starts

ASSUME ControlAssumption ==
    MaxGen \in Nat /\ Beat \in Nat /\ Lapses \in Nat
    /\ MaxFailures \in Nat /\ MaxClicks \in Nat

VARIABLES
    rows, gen, holder, age,    \* the service: approvals, lease, heartbeat age
    view, pended, projected,   \* approvals shown; history of each; steps added for them
    lease,                     \* the lease shown
    polls, reads, polling,     \* GETs under way; poll() waits for its own two
    polled,                    \* this period's poll has begun
    device,                    \* whether the page knows which device it is
    calls, notice,             \* the POST of each kind under way; the lease notice
    revokeArmed, confirm,      \* first click of a revocation, of a takeover
    failed, clicks

serverVars == <<rows, gen, holder, age>>
shownVars == <<view, pended, projected>>
pollVars == <<polls, reads, polling, polled>>
callVars == <<calls, notice, revokeArmed, confirm, clicks>>
controlVars == <<serverVars, shownVars, lease, pollVars, device, callVars, failed>>

States == {"none", "pending", "approved", "denied", "revoked"}
Ops == {"decide", "revoke", "lease"}
Callers == {"poll", "call", "decide"}
NoOne == "none"
Idle == [at |-> "idle", what |-> "", id |-> NoOne, gen |-> 0, reply |-> ""]
Unknown == [known |-> FALSE, gen |-> 0, holder |-> "agent", age |-> 0]
Current == [known |-> TRUE, gen |-> gen, holder |-> holder, age |-> age]

ControlInit ==
    /\ rows = [a \in Approvals |-> "none"] /\ gen = 0 /\ holder \in {"agent", "me"} /\ age = 0
    /\ view = rows /\ pended = [a \in Approvals |-> "no"] /\ projected = {} /\ lease = Unknown
    /\ polls = {} /\ reads = {} /\ polling = FALSE /\ polled = FALSE /\ device = "asked"
    /\ calls = [op \in Ops |-> Idle] /\ notice = "none"
    /\ revokeArmed = NoOne /\ confirm = FALSE /\ failed = 0 /\ clicks = 0

Fails == failed < MaxFailures /\ failed' = failed + 1

(***************************************************************************)
(* External: the service and the other devices.                            *)
(***************************************************************************)
Revoked(r) == [a \in Approvals |-> IF r[a] = "pending" THEN "revoked" ELSE r[a]]
HandTo(h) == /\ gen < MaxGen /\ gen' = gen + 1 /\ holder' = h /\ age' = 0

Propose(a) == /\ rows[a] = "none" /\ rows' = [rows EXCEPT ![a] = "pending"]
              /\ UNCHANGED <<gen, holder, age>>

\* Another device decides, or the deadline passes, or a grant is pulled back.
Elsewhere(a) ==
    /\ \/ rows[a] = "pending" /\ \E v \in {"approved", "denied"} : rows' = [rows EXCEPT ![a] = v]
       \/ rows[a] = "approved" /\ rows' = [rows EXCEPT ![a] = "revoked"]
    /\ UNCHANGED <<gen, holder, age>>

OtherTakes == HandTo("other") /\ rows' = Revoked(rows)
OtherReleases == holder = "other" /\ HandTo("agent") /\ UNCHANGED rows

\* A hold nobody refreshed is released.
Lapse == /\ holder = "me" /\ age >= Lapses /\ HandTo("agent") /\ UNCHANGED rows

External ==
    /\ \/ \E a \in Approvals : Propose(a) \/ Elsewhere(a)
       \/ OtherTakes \/ OtherReleases \/ Lapse
    /\ UNCHANGED <<shownVars, lease, pollVars, device, callVars, failed>>

(***************************************************************************)
(* The polls.                                                              *)
(***************************************************************************)
Ask(by) == polls' = polls \cup {[by |-> by, rows |-> rows]}
AskLease(by) == reads' = reads \cup {[by |-> by, lease |-> Current]}

\* pollSession, asked once: a page that fails to learn its device never will.
pollSession == /\ device = "asked" /\ device' = "known"
               /\ UNCHANGED <<serverVars, shownVars, lease, pollVars, callVars, failed>>

SessionFails == /\ Fails /\ device = "asked" /\ device' = "failed"
                /\ UNCHANGED <<serverVars, shownVars, lease, pollVars, callVars>>

\* poll: every POLL_INTERVAL_MS, both GETs at once.
poll == /\ ~polled /\ polled' = TRUE /\ polling' = TRUE
        /\ Ask("poll") /\ AskLease("poll")
        /\ UNCHANGED <<serverVars, shownVars, lease, device, callVars, failed>>

Settled == {"denied", "revoked"}

\* Bug: a revoked row, what a takeover leaves, gets no step.
ProjectedDenied(r) == {a \in Approvals : view[a] = "pending" /\ r[a] = "denied"}

\* The rows that were pending in the last view and get a terminal step now.
Projected(r) == {a \in Approvals : view[a] = "pending" /\ r[a] \in Settled}
projectTerminalStep(r) == projected \cup Projected(r)

\* History: shown as pending and not as granted since, or shown so and then
\* taken away again by an answer that had been read before it was proposed.
Standing(a, state) ==
    CASE state = "pending" -> "shown"
      [] state = "approved" -> "no"
      [] state = "none" -> IF pended[a] = "no" THEN "no" ELSE "dropped"
      [] OTHER -> pended[a]

\* pollApprovals: the answer replaces the view, whenever it was read.
pollApprovals(p) ==
    /\ p \in polls /\ polls' = polls \ {p}
    /\ view' = p.rows
    /\ projected' = projectTerminalStep(p.rows)
    /\ pended' = [a \in Approvals |-> Standing(a, p.rows[a])]
    /\ UNCHANGED <<serverVars, lease, reads, polling, polled, device, callVars, failed>>

\* A failed GET keeps the last good render.
PollFails(p) == /\ Fails /\ p \in polls /\ polls' = polls \ {p}
                /\ UNCHANGED <<serverVars, shownVars, lease, reads, polling, polled, device, callVars>>

\* Bug: after the re-read the decision is never cleared.
ResumedStuck(l) ==
    /\ calls' = IF calls["decide"].at = "wait"
                THEN [calls EXCEPT !["decide"].at = "sent",
                                   !["decide"].gen = IF l.known THEN l.gen ELSE 0]
                ELSE calls
    /\ UNCHANGED polls

\* What the decision that waits for the lease does once it has it, or not:
\* post with the generation shown, or tell that control moved and refresh.
Resumed(l) ==
    LET c == calls["decide"] IN
    CASE c.at = "wait" ->
           /\ calls' = [calls EXCEPT !["decide"].at = "sent",
                                     !["decide"].gen = IF l.known THEN l.gen ELSE 0]
           /\ UNCHANGED polls
      [] c.at = "reread" ->
           /\ calls' = [calls EXCEPT !["decide"] = Idle]
           /\ Ask("call")
      [] OTHER -> UNCHANGED <<calls, polls>>

Returned(r, l) ==
    /\ r \in reads /\ reads' = reads \ {r}
    /\ lease' = l
    /\ IF r.by = "decide" THEN Resumed(l) ELSE UNCHANGED <<calls, polls>>
    /\ UNCHANGED <<serverVars, shownVars, polling, polled, device, notice, revokeArmed, confirm,
                   clicks>>

pollLease(r) == Returned(r, r.lease) /\ UNCHANGED failed
ReadFails(r) == Returned(r, lease) /\ Fails

\* This device, which the page must have learnt, holds the lease shown.
Mine == device = "known" /\ lease.holder = "me"

\* maybeHeartbeat, after poll's own two GETs: the answer is thrown away,
\* the next poll shows the new heartbeat.
Own == {p \in polls : p.by = "poll"} \cup {r \in reads : r.by = "poll"}
\* Bug: due one period later.
HeartbeatDueLate == lease.known /\ Mine /\ lease.age > Beat

HeartbeatDue == lease.known /\ Mine /\ lease.age >= Beat
HeartbeatServed == IF holder = "me" /\ gen = lease.gen THEN age' = 0 ELSE UNCHANGED age

maybeHeartbeat ==
    /\ polling /\ Own = {} /\ polling' = FALSE
    /\ \/ HeartbeatDue /\ HeartbeatServed /\ UNCHANGED failed
       \/ HeartbeatDue /\ Fails /\ UNCHANGED age
       \/ ~HeartbeatDue /\ UNCHANGED <<age, failed>>
    /\ UNCHANGED <<rows, gen, holder, shownVars, lease, polls, reads, polled, device, callVars>>

Older(n) == IF n < Lapses THEN n + 1 ELSE n

\* A period ends.
PeriodEnds == /\ polled /\ ~polling /\ polls = {} /\ reads = {} /\ device # "asked"
              /\ polled' = FALSE /\ notice' = "none"
              /\ age' = IF holder = "me" THEN Older(age) ELSE age
              /\ lease' = IF lease.holder = "me" THEN [lease EXCEPT !.age = Older(@)] ELSE lease
              /\ UNCHANGED <<rows, gen, holder, shownVars, polls, reads, polling, device, calls,
                             revokeArmed, confirm, clicks, failed>>

(***************************************************************************)
(* The clicks.                                                             *)
(***************************************************************************)
Call(op, what, id, at) ==
    /\ calls[op].at = "idle" /\ clicks < MaxClicks /\ clicks' = clicks + 1
    /\ calls' = [calls EXCEPT ![op] = [at |-> at, what |-> what, id |-> id,
                                       gen |-> lease.gen, reply |-> ""]]
    /\ notice' = IF op = "lease" THEN "none" ELSE notice

\* approvalCard: the buttons of a pending request.
approvalCard == {"approved", "denied"}

\* paintApprovals: a card for each pending request, and "Revoke" on each granted
\* one of the history.
paintApprovals ==
    [a \in Approvals |-> CASE view[a] = "pending"  -> approvalCard
                          [] view[a] = "approved" -> {"revoke"}
                          [] OTHER -> {}]

\* paintLeaseControls: the one lease button this device may press.
LeaseButton == CASE lease.known /\ lease.holder = "agent" -> "takeover"
                 [] lease.known /\ Mine -> "resume"
                 [] OTHER -> "none"

\* decide, from a card shown as pending; without a lease it reads one first.
decide(a, v) ==
    /\ v \in paintApprovals[a]
    /\ Call("decide", v, a, IF lease.known THEN "sent" ELSE "wait")
    /\ IF lease.known THEN UNCHANGED reads ELSE AskLease("decide")
    /\ UNCHANGED <<serverVars, shownVars, lease, polls, polling, polled, device, revokeArmed, confirm,
                   failed>>

\* revokeApproval: the first click arms, the second sends.
revokeApproval(a) ==
    /\ "revoke" \in paintApprovals[a] /\ calls["revoke"].at = "idle"
    /\ IF revokeArmed # a
       THEN revokeArmed' = a /\ UNCHANGED <<calls, notice, clicks>>
       ELSE revokeArmed' = NoOne /\ Call("revoke", "revoke", a, "sent")
    /\ UNCHANGED <<serverVars, shownVars, lease, pollVars, device, confirm, failed>>

\* leaseMutate: takeover, twice, from a lease the agent holds; release from
\* this device's own.
leaseMutate(what) ==
    /\ what = LeaseButton /\ calls["lease"].at = "idle"
    /\ IF what = "takeover" /\ ~confirm
       THEN confirm' = TRUE /\ UNCHANGED <<calls, notice, clicks>>
       ELSE confirm' = FALSE /\ Call("lease", what, NoOne, "sent")
    /\ UNCHANGED <<serverVars, shownVars, lease, pollVars, device, revokeArmed, failed>>

Click == \/ \E a \in Approvals : revokeApproval(a) \/ \E v \in {"approved", "denied"} : decide(a, v)
         \/ \E what \in {"takeover", "resume"} : leaseMutate(what)

\* Six seconds pass after a first click.
Disarm == /\ revokeArmed # NoOne \/ confirm
          /\ revokeArmed' = NoOne /\ confirm' = FALSE
          /\ UNCHANGED <<serverVars, shownVars, lease, pollVars, device,
                         calls, notice, clicks, failed>>

\* External: the service serves a POST.
ReplyTo(c) == CASE c.what \in {"approved", "denied"} ->
                   IF rows[c.id] # "pending" THEN "settled"
                   ELSE IF c.gen # gen THEN "stale" ELSE "ok"
              [] c.what = "revoke" -> IF rows[c.id] = "approved" THEN "ok" ELSE "settled"
              [] c.what = "takeover" -> IF gen < MaxGen THEN "ok" ELSE "stale"
              [] c.what = "resume" ->
                   IF holder = "me" /\ c.gen = gen /\ gen < MaxGen THEN "ok" ELSE "stale"

Effect(c) == CASE c.what \in {"approved", "denied"} ->
                    rows' = [rows EXCEPT ![c.id] = c.what] /\ UNCHANGED <<gen, holder, age>>
               [] c.what = "revoke" ->
                    rows' = [rows EXCEPT ![c.id] = "revoked"] /\ UNCHANGED <<gen, holder, age>>
               [] c.what = "takeover" -> HandTo("me") /\ rows' = Revoked(rows)
               [] c.what = "resume" -> HandTo("agent") /\ UNCHANGED rows

Answer(op, reply) == calls' = [calls EXCEPT ![op].at = "answered", ![op].reply = reply]
Page == <<shownVars, lease, pollVars, device, notice, revokeArmed, confirm, clicks>>

ServeCall(op) ==
    /\ calls[op].at = "sent"
    /\ Answer(op, ReplyTo(calls[op]))
    /\ IF ReplyTo(calls[op]) = "ok" THEN Effect(calls[op]) ELSE UNCHANGED serverVars
    /\ UNCHANGED <<Page, failed>>

\* The request, or its answer, is lost: fetch rejects.
Lose(op) == /\ Fails /\ calls[op].at \in {"sent", "answered"} /\ calls[op].reply # "lost"
            /\ Answer(op, "lost")
            /\ UNCHANGED <<Page, serverVars>>

\* The lease calls read the body twice: ctx.api has parsed it already, so
\* res.json() throws and a served action takes the catch's last branch.
Told(reply) == IF reply \in {"lost", "ok"} THEN "failed" ELSE "moved"

\* The answer is handled: tell, and read again what it may have changed.
Finish(op) ==
    /\ calls[op].at = "answered"
    /\ LET reply == calls[op].reply IN
       IF op = "decide" /\ reply = "stale"
       THEN /\ calls' = [calls EXCEPT ![op].at = "reread"]
            /\ AskLease("decide") /\ UNCHANGED <<notice, polls>>
       ELSE /\ calls' = [calls EXCEPT ![op] = Idle]
            /\ IF op = "lease"
               THEN AskLease("call") /\ notice' = Told(reply) /\ UNCHANGED polls
               ELSE Ask("call") /\ UNCHANGED <<reads, notice>>
    /\ UNCHANGED <<serverVars, shownVars, lease, polling, polled, device, revokeArmed, confirm,
                   clicks, failed>>

ControlNext ==
    \/ External \/ pollSession \/ SessionFails \/ poll \/ maybeHeartbeat \/ PeriodEnds \/ Disarm
    \/ \E p \in polls : pollApprovals(p) \/ PollFails(p)
    \/ \E r \in reads : pollLease(r) \/ ReadFails(r)
    \/ Click
    \/ \E op \in Ops : ServeCall(op) \/ Lose(op) \/ Finish(op)

ControlSpec == ControlInit /\ [][ControlNext]_controlVars

\* Requests end, periods pass and the page polls in each.
FairControlSpec ==
    /\ ControlSpec
    /\ WF_controlVars(pollSession) /\ WF_controlVars(poll)
    /\ WF_controlVars(maybeHeartbeat) /\ WF_controlVars(PeriodEnds)
    /\ \A by \in Callers :
          /\ WF_controlVars(\E p \in polls : p.by = by /\ pollApprovals(p))
          /\ WF_controlVars(\E r \in reads : r.by = by /\ pollLease(r))
    /\ \A op \in Ops : WF_controlVars(ServeCall(op)) /\ WF_controlVars(Finish(op))

-----------------------------------------------------------------------------
(***************************************************************************)
(* Properties.                                                             *)
(***************************************************************************)
Leases == [known : BOOLEAN, gen : 0..MaxGen, holder : {"agent", "me", "other"}, age : 0..Lapses]
ApprovalRows == [Approvals -> States]
CallRows == [at : {"idle", "wait", "sent", "answered", "reread"},
             what : {"", "approved", "denied", "revoke", "takeover", "resume"},
             id : Approvals \cup {NoOne}, gen : 0..MaxGen,
             reply : {"", "ok", "settled", "stale", "lost"}]

\* Every variable keeps its type.
ControlTypeOK ==
    /\ rows \in ApprovalRows /\ view \in ApprovalRows
    /\ pended \in [Approvals -> {"no", "shown", "dropped"}] /\ projected \subseteq Approvals
    /\ gen \in 0..MaxGen /\ holder \in {"agent", "me", "other"} /\ age \in 0..Lapses
    /\ lease \in Leases /\ device \in {"asked", "known", "failed"}
    /\ polls \subseteq [by : Callers, rows : ApprovalRows]
    /\ reads \subseteq [by : Callers, lease : Leases]
    /\ polling \in BOOLEAN /\ polled \in BOOLEAN
    /\ calls \in [Ops -> CallRows] /\ notice \in {"none", "failed", "moved"}
    /\ revokeArmed \in Approvals \cup {NoOne} /\ confirm \in BOOLEAN
    /\ failed \in 0..MaxFailures /\ clicks \in 0..MaxClicks

\* A request this page has shown as pending, and now shows denied, expired or
\* revoked without having shown it granted, has its terminal step, in
\* whatever order the polls that overlap arrive (pollApprovals), unless an
\* older answer has meanwhile taken it off the page.
SettledIsProjected ==
    \A a \in Approvals : pended[a] = "shown" /\ view[a] \in Settled => a \in projected

\* What pollApprovals' comment promises, "newly terminal rows that never
\* streamed a step get their projection", without that exception: wasPending
\* is the last answer painted, which may have been overtaken.
NoStepSkipped ==
    \A a \in Approvals : pended[a] # "no" /\ view[a] \in Settled => a \in projected

\* While this device holds the computer with the page open, the hold does not
\* lapse for a few failed requests: the heartbeat is due long before the
\* service's deadline and retried at every poll (poll, maybeHeartbeat), if
\* only the page has learnt which device it is.
HoldKept == holder = "me" /\ device # "failed" => age < Lapses

\* The page ends up showing the approvals and the lease as they are, whatever
\* answer was lost or came late, and with no click left hanging.
ViewSettles ==
    <>[](/\ view = rows /\ lease.gen = gen /\ lease.holder = holder
         /\ \A op \in Ops : calls[op].at = "idle")

\* What the notice says: a lease action reported as failed was not carried out.
FailureNoticeIsTrue ==
    [][calls["lease"].at = "answered" /\ calls["lease"].reply = "ok"
         => notice' # "failed"]_controlVars
=============================================================================
