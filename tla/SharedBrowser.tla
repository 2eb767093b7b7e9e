---------------------------- MODULE SharedBrowser ----------------------------
(***************************************************************************)
(* A browser shared by the agent and one paired viewer: RustBrowserControl *)
(* of experiments/rust-browser-control.mjs queues what touches the browser *)
(* and asks the journal before and after, viewer-server.mjs guards it with *)
(* a lease, and viewer.js is the page that shows frames and sends input.   *)
(*                                                                         *)
(* A command written to the journal is taken as it is written: commands    *)
(* keep their order in the pipe, so only the answer can come later.  A     *)
(* link that fails refuses all that follows; ToolBroker has its failures.  *)
(***************************************************************************)
EXTENDS AuthorityLink

CONSTANTS MaxClicks,   \* inputs of the agent and of the viewer, together
          MaxHands     \* generations the viewer may reach

ASSUME BrowserAssumption == MaxClicks \in Nat /\ MaxHands \in Nat

VARIABLES
    queue,          \* RustBrowserControl.tail, the running operation first
    acting,         \* whose input the browser is carrying out
    broken,         \* ContainerComputer.dead
    clicks,
    lease,          \* viewer-server: "held", or "cut" once disconnected
    cmd, view,      \* the page's command and its refresh, as they travel
    page            \* viewer.js: state, screen, busy, stopped

pageVars == <<cmd, view, page>>
vars == <<linkVars, queue, acting, broken, clicks, lease, pageVars>>

View(s, shot) == [mode |-> IF dead THEN "unavailable" ELSE s.mode, gen |-> s.gen,
                  private |-> s.private, shot |-> shot]
NoView == [mode |-> "unknown", gen |-> 0, private |-> FALSE, shot |-> "none"]
NoCmd == [op |-> "none", gen |-> 0, at |-> "idle", reply |-> NoView]
NoRefresh == [at |-> "idle", got |-> NoView, current |-> TRUE]

BrowserInit ==
    /\ LinkInit
    /\ queue = <<>> /\ acting = "none" /\ broken = FALSE /\ clicks = 0
    /\ lease = "held" /\ cmd = NoCmd /\ view = NoRefresh
    /\ page = [mode |-> "unknown", gen |-> 0, private |-> FALSE, screen |-> "none",
               busy |-> FALSE, stopped |-> FALSE]

-----------------------------------------------------------------------------
(* The queue of RustBrowserControl.  An operation knows who waits for it.  *)

Op(op, g, who) == [op |-> op, gen |-> g, who |-> who, at |-> "queued", ticket |-> 0,
                   shot |-> "none"]
Running(op, at) == queue # <<>> /\ Head(queue).op \in op /\ Head(queue).at = at
To(at) == queue' = [queue EXCEPT ![1].at = at]

\* The operation ends: its waiter is answered, the next one may run.
Ends(ok, s) ==
    LET o == Head(queue)
        reply == View(s, o.shot)
    IN /\ queue' = Tail(queue)
       /\ cmd' = IF o.who = "cmd"
                 THEN [cmd EXCEPT !.at = IF ok THEN "ok" ELSE "failed", !.reply = reply]
                 ELSE cmd
       /\ view' = IF o.who = "frame"
                  THEN IF ok THEN [view EXCEPT !.at = "got", !.got.shot = o.shot]
                             ELSE [view EXCEPT !.at = "idle"]
                  ELSE view
       /\ UNCHANGED page

actor(o) == IF o.op = "click" THEN "agent" ELSE "human"

AgentClick ==
    /\ clicks < MaxClicks /\ clicks' = clicks + 1
    /\ queue' = Append(queue, Op("click", gen, "agent"))
    /\ UNCHANGED <<linkVars, acting, broken, lease, pageVars>>

\* action: admit, dispatch, act, settle.
Admit ==
    /\ Running({"click", "input"}, "queued")
    /\ LET o == Head(queue)
       IN \E r \in Heard([op |-> "admit", actor |-> actor(o), gen |-> o.gen]) :
             /\ Hears(r)
             /\ IF r.ok
                THEN /\ queue' = [queue EXCEPT ![1].at = "admitted", ![1].ticket = r.mem.pending]
                     /\ UNCHANGED pageVars
                ELSE Ends(FALSE, mem)
    /\ UNCHANGED <<acting, broken, clicks, lease>>

Dispatch ==
    /\ Running({"click", "input"}, "admitted")
    /\ LET o == Head(queue)
       IN \E r \in Heard([op |-> "dispatch", actor |-> actor(o), gen |-> o.gen,
                          ticket |-> o.ticket]) :
             /\ Hears(r)
             /\ IF r.ok
                THEN /\ To("acting") /\ UNCHANGED pageVars
                     /\ acting' = IF broken THEN acting ELSE actor(o)
                ELSE Ends(FALSE, mem) /\ UNCHANGED acting
    /\ UNCHANGED <<broken, clicks, lease>>

Acted ==
    /\ Running({"click", "input"}, "acting") /\ ~broken
    /\ acting' = "none" /\ To("acted")
    /\ UNCHANGED <<linkVars, broken, clicks, lease, pageVars>>

\* The action is refused.  A call that fails or times out takes the transport with
\* it, and the browser may not have heard of that; one that is answered with an
\* error, or with a receipt that is not one, leaves a computer that works.
ActFails ==
    /\ Running({"click", "input"}, "acting") /\ To("failing")
    /\ \/ broken' = TRUE /\ UNCHANGED acting
       \/ ~broken /\ acting' = "none" /\ UNCHANGED broken
    /\ UNCHANGED <<linkVars, clicks, lease, pageVars>>

ActsLate ==
    /\ acting # "none" /\ broken /\ acting' = "none"
    /\ UNCHANGED <<linkVars, queue, broken, clicks, lease, pageVars>>

Settle ==
    /\ Running({"click", "input"}, "acted")
    /\ \E r \in Heard([op |-> "settle", ticket |-> Head(queue).ticket, result |-> FALSE]) :
          Hears(r) /\ Ends(r.ok, r.mem)
    /\ UNCHANGED <<acting, broken, clicks, lease>>

\* Bug: a failed action is settled like any other.
AbandonSettled ==
    /\ Running({"click", "input", "observe"}, "failing")
    /\ Asks([op |-> "settle", ticket |-> Head(queue).ticket, result |-> FALSE])
    /\ Ends(FALSE, mem)
    /\ UNCHANGED <<acting, broken, clicks, lease>>

\* The ticket stays; whoever continues is paused.
Abandon ==
    /\ Running({"click", "input", "observe"}, "failing")
    /\ IF Head(queue).op = "observe" /\ mem.mode # "resuming"
       THEN UNCHANGED linkVars
       ELSE Asks([op |-> "disconnect"])
    /\ Ends(FALSE, mem)
    /\ UNCHANGED <<acting, broken, clicks, lease>>

HumanReady ==
    /\ Running({"ready"}, "queued")
    /\ \E r \in Heard([op |-> "human_ready", gen |-> Head(queue).gen]) :
          Hears(r) /\ Ends(r.ok, r.mem)
    /\ UNCHANGED <<acting, broken, clicks, lease>>

State ==
    /\ Running({"state"}, "queued") /\ Ends(TRUE, mem)
    /\ UNCHANGED <<linkVars, acting, broken, clicks, lease>>

\* frame: the journal is asked before the picture is taken, and after.
FrameAllowed ==
    /\ Running({"frame"}, "queued")
    /\ IF Readable /\ ~mem.private /\ mem.mode \in {"agent", "human", "paused"}
       THEN /\ queue' = [queue EXCEPT ![1].at = "observe", ![1].gen = mem.gen]
            /\ UNCHANGED pageVars
       ELSE Ends(FALSE, mem)
    /\ UNCHANGED <<linkVars, acting, broken, clicks, lease>>

Observing == Running({"frame"}, "observe") \/ Running({"observe"}, "queued")

Observe ==
    /\ Observing /\ ~broken
    /\ queue' = [queue EXCEPT ![1].at = "shot",
                              ![1].shot = IF mem.private THEN "secret" ELSE "clear"]
    /\ UNCHANGED <<linkVars, acting, broken, clicks, lease, pageVars>>

ObserveFails ==
    /\ Observing /\ broken' \in {broken, TRUE}
    /\ IF Head(queue).op = "frame" THEN Ends(FALSE, mem)
                                   ELSE To("failing") /\ UNCHANGED pageVars
    /\ UNCHANGED <<linkVars, acting, clicks, lease>>

\* Bug: the picture is not checked against what the journal says by then.
FrameUnchecked == Running({"frame"}, "shot") /\ Ends(lease = "held", mem)
                  /\ UNCHANGED <<linkVars, acting, broken, clicks, lease>>

\* The server has a last look at its lease.
Frame ==
    /\ Running({"frame"}, "shot")
    /\ Ends(/\ Readable /\ ~mem.private /\ mem.gen = Head(queue).gen
            /\ lease = "held", mem)
    /\ UNCHANGED <<linkVars, acting, broken, clicks, lease>>

Observed ==
    /\ Running({"observe"}, "shot")
    /\ \E r \in Heard([op |-> "observed", gen |-> Head(queue).gen]) :
          /\ Hears(r)
          /\ IF r.ok THEN Ends(TRUE, r.mem) ELSE To("failing") /\ UNCHANGED pageVars
    /\ UNCHANGED <<acting, broken, clicks, lease>>

-----------------------------------------------------------------------------
(* viewer-server.mjs: the lease is looked at when a request arrives and    *)
(* again when its body has been read.                                      *)

Fails410 == cmd' = [cmd EXCEPT !.at = "failed"]

\* What each command asks of the journal before it queues, and what it queues.
Journal == [takeover |-> "takeover", hide |-> "private_begin", show |-> "private_end",
            resume |-> "resume", disconnect |-> "disconnect"]
Queued == [takeover |-> "ready", hide |-> "state", show |-> "state",
           resume |-> "observe", disconnect |-> "state"]

\* Bug: what is queued carries the generation the page knew.
AcceptsStale ==
    IF cmd.op = "input"
    THEN /\ queue' = Append(queue, Op("input", cmd.gen, "cmd"))
         /\ cmd' = [cmd EXCEPT !.at = "called"]
         /\ UNCHANGED <<linkVars, lease>>
    ELSE /\ lease' = IF cmd.op = "disconnect" THEN "cut" ELSE lease
         /\ \E r \in Heard([op |-> Journal[cmd.op], gen |-> cmd.gen]) :
               /\ Hears(r)
               /\ IF r.ok
                  THEN /\ queue' = Append(queue, Op(Queued[cmd.op], cmd.gen, "cmd"))
                       /\ cmd' = [cmd EXCEPT !.at = "called"]
                  ELSE Fails410 /\ UNCHANGED queue

\* The command is carried out: an input joins the queue, the rest is asked of the
\* journal first.
Accepts ==
    IF cmd.op = "input"
    THEN /\ queue' = Append(queue, Op("input", cmd.gen, "cmd"))
         /\ cmd' = [cmd EXCEPT !.at = "called"]
         /\ UNCHANGED <<linkVars, lease>>
    ELSE /\ lease' = IF cmd.op = "disconnect" THEN "cut" ELSE lease
         /\ \E r \in Heard([op |-> Journal[cmd.op], gen |-> cmd.gen]) :
               /\ Hears(r)
               /\ IF r.ok
                  THEN /\ queue' = Append(queue, Op(Queued[cmd.op], r.mem.gen, "cmd"))
                       /\ cmd' = [cmd EXCEPT !.at = "called"]
                  ELSE Fails410 /\ UNCHANGED queue

\* The body has been read; the lease is looked at again before anything is done.
BodyRead ==
    /\ cmd.at = "body"
    /\ IF lease = "cut" THEN Fails410 /\ UNCHANGED <<linkVars, queue, lease>> ELSE Accepts
    /\ UNCHANGED <<acting, broken, clicks, view, page>>

\* The timer: a viewer that was silent for leaseMs is cut off for good.
Lapse ==
    /\ lease = "held" /\ lease' = "cut"
    /\ Asks([op |-> "disconnect"])
    /\ queue' = Append(queue, Op("state", 0, "none"))
    /\ UNCHANGED <<acting, broken, clicks, pageVars>>

\* The host cancels, and stops the container.
Cancel ==
    /\ mem.mode # "cancelled" /\ Asks([op |-> "cancel"])
    /\ broken' \in {broken, TRUE}
    /\ acting' = IF broken' /\ ~broken THEN "none" ELSE acting
    /\ queue' = Append(queue, Op("state", 0, "none"))
    /\ UNCHANGED <<clicks, lease, pageVars>>

-----------------------------------------------------------------------------
(* viewer.js.                                                              *)

Offers(op) ==
    CASE op = "takeover" -> page.mode \in {"agent", "paused"} /\ page.gen < MaxHands
      [] op = "resume" -> page.mode = "human" /\ ~page.private
      [] op = "hide" -> page.mode = "human" /\ ~page.private /\ page.gen < MaxHands
      [] op = "show" -> page.mode = "human" /\ page.private
      [] op = "input" -> page.mode = "human" /\ ~page.private /\ clicks < MaxClicks
      [] op = "disconnect" -> TRUE

\* command: one at a time; a refresh that is travelling is no longer current.
Command(op) ==
    /\ ~page.busy /\ ~page.stopped /\ Offers(op)
    /\ page' = [page EXCEPT !.busy = TRUE,
                            !.screen = IF op \in {"hide", "show"} THEN "none" ELSE @]
    /\ view' = [view EXCEPT !.current = FALSE]
    /\ cmd' = [op |-> op, gen |-> page.gen, reply |-> NoView,
                at |-> IF lease = "cut" THEN "failed" ELSE "body"]
    /\ clicks' = IF op = "input" THEN clicks + 1 ELSE clicks
    /\ UNCHANGED <<linkVars, queue, acting, broken, lease>>

\* render and showFrame.
Shown(v) ==
    [page EXCEPT !.mode = v.mode, !.gen = v.gen, !.private = v.private,
                 !.screen = IF v.shot # "none" THEN v.shot
                            ELSE IF v.private THEN "none" ELSE @]

\* ... answered: the page shows the state it got, or the failure.
CommandReturns ==
    /\ cmd.at \in {"ok", "failed"}
    /\ LET p == IF cmd.at = "ok" THEN Shown(cmd.reply) ELSE page
           q == [p EXCEPT !.busy = FALSE]
       IN page' = IF cmd.op = "disconnect"
                  THEN [q EXCEPT !.stopped = TRUE, !.screen = "none"] ELSE q
    /\ cmd' = NoCmd
    /\ UNCHANGED <<linkVars, queue, acting, broken, clicks, lease, view>>

\* refresh: the state, then the frame if there may be one.
Refresh ==
    /\ view.at = "idle" /\ ~page.busy /\ ~page.stopped /\ lease = "held"
    /\ view' = [at |-> IF mem.private THEN "got" ELSE "called", got |-> View(mem, "none"),
                current |-> TRUE]
    /\ queue' = IF mem.private THEN queue ELSE Append(queue, Op("frame", 0, "frame"))
    /\ UNCHANGED <<linkVars, acting, broken, clicks, lease, cmd, page>>

RefreshReturns ==
    /\ view.at = "got" /\ view' = NoRefresh
    /\ page' = IF ~page.stopped /\ ~page.busy /\ view.current THEN Shown(view.got) ELSE page
    /\ UNCHANGED <<linkVars, queue, acting, broken, clicks, lease, cmd>>

QueueStep ==
    \/ Admit \/ Dispatch \/ Acted \/ ActFails \/ Settle \/ Abandon \/ HumanReady \/ State
    \/ FrameAllowed \/ Observe \/ ObserveFails \/ Frame \/ Observed

Next ==
    \/ AgentClick \/ ActsLate \/ Lapse \/ Cancel
    \/ Admit \/ Dispatch \/ Acted \/ ActFails \/ Settle \/ Abandon \/ HumanReady \/ State
    \/ FrameAllowed \/ Observe \/ ObserveFails \/ Frame \/ Observed
    \/ BodyRead
    \/ \E op \in DOMAIN Journal \cup {"input"} : Command(op)
    \/ CommandReturns \/ Refresh \/ RefreshReturns

Spec == BrowserInit /\ [][Next]_vars

\* Every queued operation is carried out or times out, every request is
\* answered.
Fairness == WF_vars(QueueStep) /\ WF_vars(BodyRead) /\ WF_vars(CommandReturns)

FairSpec == Spec /\ Fairness

-----------------------------------------------------------------------------
\* No picture taken while the screen was private leaves the host, and while
\* it is private a page whose command has been answered shows none, not even
\* one that was on its way.
PrivateIsHidden ==
    /\ view.got.shot # "secret" /\ cmd.reply.shot # "secret"
    /\ (mem.private /\ ~page.busy) => page.screen = "none"

\* The browser carries out no input of the agent while a human has control,
\* and none of the human's once the agent has it back, also when an action
\* has failed and goes on behind the back of the host.
OneHand ==
    Readable => /\ acting = "agent" => mem.mode \notin {"human", "resuming"}
                /\ acting = "human" => mem.mode # "agent"

\* Once the viewer is disconnected or has lapsed, nobody leaves the pause:
\* a request that was on its way does not open it again.
CutOffStays == (lease = "cut" /\ Readable) => mem.mode \in {"paused", "cancelled"}

\* A dispatched action that nothing in the queue will settle: it has failed, its
\* outcome is uncertain and its ticket is left pending.
Abandoned == mem.pending # 0 /\ \A i \in DOMAIN queue : queue[i].ticket # mem.pending

\* A takeover ends, in the human's hands or in a pause, unless it comes after an
\* action whose outcome is uncertain: human_ready waits for what was accepted.
TakeoverEnds ==
    (mem.mode = "pausing") ~> (mem.mode # "pausing" \/ Abandoned \/ broken \/ ~Readable)

\* "Takeover stops further automated inputs, settles the active command, records
\* paused state, and then enables human input" (docs/specs/architecture.md 228): a
\* takeover of a computer that works ends.
TakeoverEnables ==
    (mem.mode = "pausing") ~> (mem.mode # "pausing" \/ broken \/ ~Readable)
=============================================================================
