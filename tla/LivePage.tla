------------------------------ MODULE LivePage ------------------------------
(***************************************************************************)
(* The open conversation of the browser client (apps/poc/public/app.js):   *)
(* its session token, the state poll that overwrites everything the page   *)
(* knows, the client track that streams the reply delta by delta, and what *)
(* is painted.  The reply of one run is followed.  Chunk i of the reply is *)
(* the number i, so the service's text is always <<1, ..., answer>>.       *)
(*                                                                         *)
(* Three writers meet in the reply bubble: the poll (`render`, which skips *)
(* the paint when the markup equals the last markup it wrote), the delta   *)
(* path (which writes the bubble behind `lastRender`'s back), and the      *)
(* user, who leaves the conversation and returns.  The session may end     *)
(* while any of them is under way.                                         *)
(***************************************************************************)
EXTENDS Integers, Sequences

CONSTANTS MaxDeltas,    \* chunks of the reply
          MaxSessions,  \* sessions the service opens
          MaxSwitches,  \* times the user leaves or re-enters the conversation
          MaxFaults     \* lost answers and journal gaps

VARIABLES answer,     \* service: chunks of the reply stored
          over,       \* service: the run is terminal
          opened,     \* service: sessions opened so far
          valid,      \* service: the session it accepts, 0 for none
          token,      \* page: the session token it holds, 0 for none
          posting,    \* page: the session a pairing request opened, its answer under way
          armed,      \* page: the 1 s state poll runs (`refreshTimer`)
          ask,        \* page: the state request in flight (`refreshing`)
          expired,    \* page: the last refresh was refused with 401
          state,      \* page: what `state` says of the run
          open,       \* page: the run's conversation is selected
          rendered,   \* page: `lastRender`
          bubble,     \* page: the reply on screen, <<>> when there is no bubble
          frame,      \* page: an animation frame is requested for the bubble
          track,      \* page: the client track runs
          cursor,     \* page: journal rows the track has handled
          switches, faults,
          late        \* history: a chunk came twice since the last full paint

service == <<answer, over, opened, valid>>
session == <<token, posting, armed, track>>
painted == <<rendered, bubble, late>>
bounds == <<switches, faults>>
vars == <<service, session, painted, bounds, ask, expired, state, open, frame, cursor>>

Reply(n) == [i \in 1..n |-> i]
Rows == answer + (IF over THEN 1 ELSE 0)
Unloaded == [run |-> FALSE, text |-> <<>>, over |-> FALSE]
Loaded == [run |-> TRUE, text |-> Reply(answer), over |-> over]
NoAsk == [at |-> "idle", token |-> 0, boot |-> FALSE, ok |-> FALSE, state |-> Unloaded]

-----------------------------------------------------------------------------
(* Requests and painting.                                                  *)

\* `refresh` is single flight: a call while one is under way does nothing.
Asking(t, boot) ==
    IF ask.at = "idle" THEN [NoAsk EXCEPT !.at = "sent", !.token = t, !.boot = boot] ELSE ask

\* The markup `render` builds for the selected conversation.
Content(st, o) == IF o THEN st ELSE Unloaded

\* Bug: the cache key of the conversation leaves the reply out.
SameStatus(content, last) == content.run = last.run /\ content.over = last.over

\* Is the markup the one written last?
Same(content, last) == content = last

\* `render`: the conversation is rewritten only when its markup changed.
Paint(content, last) ==
    /\ rendered' = content
    /\ IF Same(content, last) THEN UNCHANGED <<bubble, late>>
       ELSE bubble' = content.text /\ late' = FALSE

render(st) == Paint(Content(st, open), rendered)

\* Bug: the track is started for a boot whatever became of the session.
ensureTrackAnyway(t, running) == TRUE

\* `ensureTrack`: one track, and none without a token.
ensureTrack(t, running) == running \/ t # 0

\* `bootApp`: paint, refresh and then start the track, arm the poll.  When a
\* refresh is already under way the new one returns at once and the track
\* starts immediately.
bootApp(t) ==
    /\ token' = t
    /\ render(state)
    /\ ask' = Asking(t, TRUE)
    /\ track' = IF ask.at = "idle" THEN track ELSE ensureTrack(t, track)
    /\ armed' = TRUE

-----------------------------------------------------------------------------
(* The service: the run streams, ends; the session expires or its device   *)
(* is revoked.                                                             *)

Stream ==
    /\ answer < MaxDeltas /\ ~over
    /\ answer' = answer + 1
    /\ UNCHANGED <<over, opened, valid, session, painted, bounds, ask, expired, state, open, frame, cursor>>

EndRun ==
    /\ ~over
    /\ over' = TRUE
    /\ UNCHANGED <<answer, opened, valid, session, painted, bounds, ask, expired, state, open, frame, cursor>>

Expire ==
    /\ valid # 0
    /\ valid' = 0
    /\ UNCHANGED <<answer, over, opened, session, painted, bounds, ask, expired, state, open, frame, cursor>>

\* GET /api/state is answered from the store as it is now, or refused.
Serve ==
    /\ ask.at = "sent"
    /\ ask' = IF ask.token # 0 /\ ask.token = valid
              THEN [ask EXCEPT !.at = "served", !.ok = TRUE, !.state = Loaded]
              ELSE [ask EXCEPT !.at = "served"]
    /\ UNCHANGED <<service, session, painted, bounds, expired, state, open, frame, cursor>>

-----------------------------------------------------------------------------
(* The session of the page.                                                *)

\* The page is loaded with a token and boots, or without one and asks to be
\* paired.  Its cursor is what an earlier page of this browser left.
Init ==
    /\ answer \in 0..MaxDeltas /\ over \in BOOLEAN
    /\ valid \in {0, 1} /\ opened = valid /\ token = valid
    /\ posting = 0
    /\ armed = (token # 0)
    /\ ask = IF token = 0 THEN NoAsk ELSE [NoAsk EXCEPT !.at = "sent", !.token = token, !.boot = TRUE]
    /\ expired = FALSE /\ state = Unloaded
    /\ open = TRUE /\ rendered = Unloaded /\ bubble = <<>> /\ late = FALSE
    /\ frame = FALSE /\ track = FALSE
    /\ cursor \in 0..Rows
    /\ switches = 0 /\ faults = 0

\* The 1 s poll, and the retry buttons.
Tick ==
    /\ armed /\ ask.at = "idle"
    /\ ask' = Asking(token, FALSE)
    /\ UNCHANGED <<service, session, painted, bounds, expired, state, open, frame, cursor>>

\* The rest of `refresh`: a good answer replaces the whole state; a refusal
\* stops the track; the page is painted and the next refresh may start.
\* After a boot's refresh the track is started.
Refreshed ==
    /\ ask.at = "served"
    /\ state' = IF ask.ok THEN ask.state ELSE state
    /\ expired' = ~ask.ok
    /\ render(state')
    /\ track' = LET kept == track /\ ask.ok IN IF ask.boot THEN ensureTrack(token, kept) ELSE kept
    /\ ask' = NoAsk
    /\ UNCHANGED <<service, token, posting, armed, bounds, open, frame, cursor>>

\* Bug: `refreshing` is cleared on the way out of the try block only, so a
\* failed refresh is the last one.
RefreshSticks ==
    /\ ask.at \in {"sent", "served"} /\ faults < MaxFaults
    /\ faults' = faults + 1
    /\ expired' = FALSE
    /\ render(state)
    /\ track' = IF ask.boot THEN ensureTrack(token, track) ELSE track
    /\ ask' = [NoAsk EXCEPT !.at = "stuck"]
    /\ UNCHANGED <<service, token, posting, armed, switches, state, open, frame, cursor>>

\* The request is lost or times out: disconnected, but not expired.
RefreshFails ==
    /\ ask.at \in {"sent", "served"} /\ faults < MaxFaults
    /\ faults' = faults + 1
    /\ expired' = FALSE
    /\ render(state)
    /\ track' = IF ask.boot THEN ensureTrack(token, track) ELSE track
    /\ ask' = NoAsk
    /\ UNCHANGED <<service, token, posting, armed, switches, state, open, frame, cursor>>

\* "Pair a new device" on the banner: `showPairing` stops the track and the
\* poll and drops the token.
PairAgain ==
    /\ expired /\ token # 0
    /\ track' = FALSE
    /\ armed' = FALSE
    /\ token' = 0
    /\ UNCHANGED <<service, posting, painted, bounds, ask, expired, state, open, frame, cursor>>

\* The pairing form: the service redeems the single-use token and opens a
\* session before its answer is known.
SubmitPairing ==
    /\ token = 0 /\ posting = 0 /\ opened < MaxSessions
    /\ opened' = opened + 1 /\ valid' = opened'
    /\ posting' = opened'
    /\ UNCHANGED <<answer, over, token, armed, track, painted, bounds, ask, expired, state, open, frame, cursor>>

Paired ==
    /\ posting # 0
    /\ bootApp(posting)
    /\ posting' = 0
    /\ UNCHANGED <<service, bounds, expired, state, open, frame, cursor>>

PairingLost ==
    /\ posting # 0 /\ faults < MaxFaults
    /\ faults' = faults + 1
    /\ posting' = 0
    /\ UNCHANGED <<service, token, armed, track, painted, switches, ask, expired, state, open, frame, cursor>>

\* The user opens a new link in the same tab (`hashchange`): the session is
\* redeemed and its token replaces the page's, whatever the page is doing.
OpenLink ==
    /\ valid = 0 /\ posting = 0 /\ opened < MaxSessions
    /\ opened' = opened + 1 /\ valid' = opened'
    /\ bootApp(opened')
    /\ UNCHANGED <<answer, over, posting, bounds, expired, state, open, frame, cursor>>

-----------------------------------------------------------------------------
(* The stream and the bubble.                                              *)

\* A delta: nothing when the turn is not on screen; otherwise the chunk is
\* appended to the reply in `state`, and the bubble is asked for (the first
\* time, by a refresh) or repainted in the next animation frame.
appendReplyDelta(i) ==
    IF state.run /\ open
    THEN /\ state' = [state EXCEPT !.text = Append(@, i)]
         /\ late' = (late \/ \E n \in 1..Len(state.text) : state.text[n] = i)
         /\ IF bubble = <<>> THEN ask' = Asking(token, FALSE) /\ UNCHANGED frame
            ELSE frame' = TRUE /\ UNCHANGED ask
    ELSE UNCHANGED <<state, late, ask, frame>>

\* The terminal event asks for a refresh, unless one was asked for within
\* the last 750 ms; no call is kept for later.
queueRefresh ==
    /\ ask' \in {ask, Asking(token, FALSE)}
    /\ UNCHANGED <<state, late, frame>>

\* The track handles the next row of the journal, in order.
Deliver ==
    /\ track /\ token = valid /\ cursor < Rows
    /\ cursor' = cursor + 1
    /\ IF cursor < answer THEN appendReplyDelta(cursor + 1) ELSE queueRefresh
    /\ UNCHANGED <<service, session, rendered, bubble, bounds, expired, open>>

\* The cursor fell out of the journal's window: skip to its end and refresh.
Resync ==
    /\ track /\ token = valid /\ cursor < Rows /\ faults < MaxFaults
    /\ faults' = faults + 1
    /\ cursor' = Rows
    /\ ask' = Asking(token, FALSE)
    /\ UNCHANGED <<service, session, painted, switches, expired, state, open, frame>>

\* The animation frame writes the reply into the bubble and leaves
\* `lastRender` as it is.
Frame ==
    /\ frame
    /\ frame' = FALSE
    /\ bubble' = IF bubble = <<>> THEN bubble ELSE state.text
    /\ UNCHANGED <<service, session, rendered, late, bounds, ask, expired, state, open, cursor>>

\* Another conversation is selected, or this one again: `lastRender` is
\* cleared, so the conversation is always painted anew.
selectConversation ==
    /\ switches < MaxSwitches
    /\ switches' = switches + 1
    /\ open' = ~open
    /\ rendered' = Content(state, open')
    /\ bubble' = rendered'.text
    /\ late' = FALSE
    /\ UNCHANGED <<service, session, faults, ask, expired, state, frame, cursor>>

Next ==
    \/ Stream \/ EndRun \/ Expire \/ Serve
    \/ Tick \/ Refreshed \/ RefreshFails
    \/ PairAgain \/ SubmitPairing \/ Paired \/ PairingLost \/ OpenLink
    \/ Deliver \/ Resync \/ Frame \/ selectConversation

\* The timer fires, requests are answered or time out after 8 s, the stream
\* delivers, the browser paints.  The service, the user and the network owe
\* nothing.
Fairness ==
    /\ WF_vars(Tick) /\ WF_vars(Serve) /\ WF_vars(Refreshed)
    /\ WF_vars(Deliver) /\ WF_vars(Frame)

Spec == Init /\ [][Next]_vars
FairSpec == Spec /\ Fairness

-----------------------------------------------------------------------------
(* Properties.                                                             *)

\* What a page holds: never a session the service did not open, and never
\* more of the reply on screen than the deltas could have written.
LiveTypeOK ==
    /\ answer \in 0..MaxDeltas /\ over \in BOOLEAN
    /\ opened \in 0..MaxSessions /\ valid \in {0, opened}
    /\ token \in 0..opened /\ posting \in 0..opened
    /\ cursor \in 0..Rows
    /\ Len(state.text) <= 2 * MaxDeltas /\ Len(bubble) <= 2 * MaxDeltas

\* A page that shows the pairing screen has no poll and no track, even when
\* the refresh of an earlier boot ends after the session was given up
\* (bootApp's `.then(ensureTrack)` against showPairing).
UnpairedIsQuiet == token = 0 => ~track /\ ~armed

\* With a session that stays good, the page's state comes to be the
\* service's, whatever the deltas, the gaps and the lost answers did
\* (app.js:171-173, "the server stays the source of truth").
StateConverges ==
    <>[](token # 0 /\ token = valid) => <>[](state = Loaded)

\* And so does the reply on screen, unless a delta came after the state that
\* already held it: then the poll finds its last markup unchanged and leaves
\* the bubble as the delta wrote it.
ReplyConverges ==
    <>[](token # 0 /\ token = valid) => []<>(~open \/ bubble = Reply(answer) \/ late)

\* app.js:172-173: "terminal run events take the normal full-refresh path,
\* which reconciles any divergence".
Reconciled ==
    <>[](token # 0 /\ token = valid /\ over) => <>[](open => bubble = Reply(answer))

\* A track whose session has gone is stopped: the page does not go on
\* streaming behind the banner that says it has expired.
ExpiredTrackStops == track /\ token # valid ~> ~track \/ token = valid
=============================================================================
