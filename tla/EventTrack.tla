----------------------------- MODULE EventTrack -----------------------------
(***************************************************************************)
(* The live run view of one browser page: the SSE loop of                  *)
(* apps/poc/public/client-track.js with the frame parser of sse-parse.js,  *)
(* the cursor it keeps in localStorage, the tool steps it projects and the *)
(* one-time hydration of those steps from the persisted rows.              *)
(*                                                                         *)
(* The journal is the service's, external here: it replays the rows after  *)
(* the cursor a connection names, at least once and in order, refuses a    *)
(* cursor older than what it retains (410), and may order a resync before  *)
(* it closes a slow connection.  Awaits are where actions end.             *)
(***************************************************************************)
EXTENDS Integers, Sequences, Functions

CONSTANTS
    Calls,       \* call keys of the run on view
    MaxSeq,      \* rows the journal may grow to
    TailRows,    \* rows replayed to a connection that names no cursor
    SeenCap,     \* sequence numbers the page remembers
    MaxBreaks    \* failures the network may still cause, reloads included

ASSUME TrackAssumption ==
    /\ MaxSeq \in Nat \ {0} /\ TailRows \in Nat /\ SeenCap \in Nat \ {0}
    /\ MaxBreaks \in Nat

VARIABLES
    journal,  \* rows of the service's journal, [kind, key]
    floor,    \* rows up to this one are no longer retained
    stored,   \* localStorage 'agentmeld.eventCursor'; -1 when absent
    page,     \* this page load's instance of the track
    breaks

trackVars == <<journal, floor, stored, page, breaks>>

(***************************************************************************)
(* The journal.                                                            *)
(***************************************************************************)
Last_ == Len(journal)
Seqs == 1..MaxSeq
Row(kind, key) == [kind |-> kind, key |-> key]
JournalRows == [kind : {"started", "finished"}, key : Calls] \cup {Row("note", "")}

Journaled(kind, c) == \E i \in 1..Last_ : journal[i] = Row(kind, c)
\* GET /api/v1/runs/{id}/tool_steps: the projection of the whole journal.
Persisted == [c \in Calls |-> IF Journaled("finished", c) THEN "completed"
                              ELSE IF Journaled("started", c) THEN "running"
                              ELSE "none"]

(***************************************************************************)
(* The page.  loop is where streamLoop waits; asked the cursor the fetch   *)
(* named; at the last row the connection delivered; hyd where the one      *)
(* hydration stands and rows the answer on its way back.  handled and      *)
(* skipped are history: the rows handled, and those the service did not    *)
(* replay (a resync, a refusal, a connection that named no cursor).        *)
(***************************************************************************)
Blank == [c \in Calls |-> "none"]

\* initClientTrack then start: the loop runs to its first fetch at once.
NewPage(cursor) ==
    [on |-> TRUE, loop |-> "fetching", asked |-> cursor, at |-> 0, quiet |-> FALSE,
     seen |-> <<>>, steps |-> Blank, hyd |-> "no", rows |-> Blank,
     handled |-> <<>>, skipped |-> {}]

TrackInit == /\ journal = <<>> /\ floor = 0 /\ stored = -1
             /\ page = NewPage(-1) /\ breaks = 0

Break == breaks < MaxBreaks /\ breaks' = breaks + 1

\* External: the service journals a row and its tool_steps projection.
Record ==
    /\ Last_ < MaxSeq
    /\ \E r \in JournalRows :
          /\ r.kind = "started" => ~Journaled("started", r.key)
          /\ r.kind = "finished" => Journaled("started", r.key) /\ ~Journaled("finished", r.key)
          /\ journal' = Append(journal, r)
    /\ UNCHANGED <<floor, stored, page, breaks>>

\* External: retention drops the rows so far.
Trim == /\ Break /\ floor < Last_ /\ floor' = Last_
        /\ UNCHANGED <<journal, stored, page>>

(***************************************************************************)
(* One frame: dedupe on the journal seq, remember it (forgetting the       *)
(* oldest beyond the cap), move the cursor, handle.                        *)
(***************************************************************************)
stepStarted(p, c) == IF p.steps[c] = "none" THEN [p EXCEPT !.steps[c] = "running"] ELSE p
stepFinished(p, c) == IF p.steps[c] = "none" THEN p ELSE [p EXCEPT !.steps[c] = "completed"]

handleEvent(p, r) == CASE r.kind = "started"  -> stepStarted(p, r.key)
                       [] r.kind = "finished" -> stepFinished(p, r.key)
                       [] OTHER -> p

Remember(s, i) == LET t == Append(s, i)
                  IN IF Len(t) > SeenCap THEN Tail(t) ELSE t

\* m is the page with the cursor it has stored.
dispatchFrame(m, i) ==
    IF i \in Range(m.page.seen) THEN m
    ELSE [cursor |-> i,
          page |-> handleEvent([m.page EXCEPT !.seen = Remember(@, i),
                                              !.handled = Append(@, i)], journal[i])]

\* SseParser: the frame that is complete next.  A frame is complete with its
\* last blank line and a comment or a retry hint completes none.  The
\* service may repeat the last row it sent.
Frames == {page.at, page.at + 1}

\* pumpFrames.  The frames of one chunk are handled one after the other in one
\* task of the browser; their states in between are ones that chunks of a
\* frame each would show, so a frame is the step.
Chunk ==
    /\ page.loop = "live" /\ ~page.quiet
    /\ \E i \in Frames :
          /\ floor < i /\ i <= Last_
          /\ LET m == dispatchFrame([page |-> page, cursor |-> stored], i)
             IN /\ page' = [m.page EXCEPT !.at = i]
                /\ stored' = m.cursor
    /\ UNCHANGED <<journal, floor, breaks>>

(***************************************************************************)
(* The connection.                                                         *)
(***************************************************************************)
\* Bug: the cursor of a reconnection is the newest row, not the last handled.
ConnectingAhead(p) ==
    [p EXCEPT !.loop = "fetching", !.quiet = FALSE,
              !.asked = IF p.handled = <<>> THEN stored ELSE Last_]

Connecting(p) == [p EXCEPT !.loop = "fetching", !.asked = stored, !.quiet = FALSE]

Retained == page.asked = -1 \/ page.asked >= floor

\* 200: the service replays after the cursor, or from its tail without one.
Accept ==
    /\ page.loop = "fetching" /\ Retained
    /\ LET start == IF page.asked # -1 THEN page.asked
                    ELSE CHOOSE n \in {floor, Last_ - TailRows} :
                            n >= floor /\ n >= Last_ - TailRows
       IN page' = [page EXCEPT !.loop = "live", !.at = start,
                               !.skipped = IF page.asked = -1 THEN @ \cup 1..start ELSE @]
    /\ UNCHANGED <<journal, floor, stored, breaks>>

\* Bug: a refusal does not move the cursor.
onResyncNoCursor(p, passed) ==
    /\ page' = [p EXCEPT !.skipped = @ \cup (passed + 1)..Last_] /\ UNCHANGED stored

\* onResync moves the cursor to the service's position; the rows between
\* are never handled.
onResync(p, passed) == /\ stored' = Last_
                       /\ page' = [p EXCEPT !.skipped = @ \cup (passed + 1)..Last_]

\* 410 with current_seq: the loop waits for the refetch, then goes on.
Refused == /\ page.loop = "fetching" /\ ~Retained
           /\ onResync([page EXCEPT !.loop = "resync"], page.asked)
           /\ UNCHANGED <<journal, floor, breaks>>

Refetched == /\ page.loop = "resync"
             /\ page' = IF page.on THEN Connecting(page) ELSE [page EXCEPT !.loop = "off"]
             /\ UNCHANGED <<journal, floor, stored, breaks>>

\* control: stream.resync_required, and the service closes the stream; the
\* refetch it starts is not awaited.
Control == /\ page.loop = "live" /\ ~page.quiet
           /\ page.at < floor \/ page.at + 1 < Last_
           /\ onResync([page EXCEPT !.loop = "backoff"], page.at)
           /\ UNCHANGED <<journal, floor, breaks>>

\* The fetch fails or the stream closes.
Drop == /\ Break /\ page.loop \in {"fetching", "live"}
        /\ page' = [page EXCEPT !.loop = "backoff"]
        /\ UNCHANGED <<journal, floor, stored>>

\* The connection goes silent without closing.
HalfOpen == /\ Break /\ page.loop = "live" /\ ~page.quiet
            /\ page' = [page EXCEPT !.quiet = TRUE]
            /\ UNCHANGED <<journal, floor, stored>>

\* The stall timer aborts a stream that has been silent for STALL_MS.
Stall == /\ page.loop = "live" /\ page.quiet /\ page.on
         /\ page' = [page EXCEPT !.loop = "backoff"]
         /\ UNCHANGED <<journal, floor, stored, breaks>>

\* The back-off ends, by its timer or by "Retry now".
Wake == /\ page.loop = "backoff"
        /\ page' = Connecting(page)
        /\ UNCHANGED <<journal, floor, stored, breaks>>

\* stop aborts the fetch or ends the sleep, and the loop leaves in the same
\* turn of the event loop; only the refetch after a refusal is waited out.
stop == /\ page.on
        /\ page' = [page EXCEPT !.on = FALSE, !.loop = IF @ = "resync" THEN @ ELSE "off"]
        /\ UNCHANGED <<journal, floor, stored, breaks>>

\* The page is loaded again, or a new session makes a new track.
Reload == /\ Break /\ page' = NewPage(stored)
          /\ UNCHANGED <<journal, floor, stored>>

(***************************************************************************)
(* Hydration: once per run and page load, started by the first paint that  *)
(* shows the run, insert-if-absent on the call key, never asked again.     *)
(***************************************************************************)
paintSteps == /\ page.hyd = "no" /\ page' = [page EXCEPT !.hyd = "asked"]
              /\ UNCHANGED <<journal, floor, stored, breaks>>

\* External: the service reads the rows.
RowsRead == /\ page.hyd = "asked"
            /\ page' = [page EXCEPT !.hyd = "answered", !.rows = Persisted]
            /\ UNCHANGED <<journal, floor, stored, breaks>>

\* Bug: the rows fetched overwrite what the stream has shown.
MergedRowsWin ==
    [c \in Calls |-> IF page.rows[c] # "none" THEN page.rows[c] ELSE page.steps[c]]

\* Insert if absent: what the stream has shown of a call stays.
Merged == [c \in Calls |-> IF page.steps[c] = "none" THEN page.rows[c] ELSE page.steps[c]]

hydrateSteps == /\ page.hyd = "answered"
                /\ page' = [page EXCEPT !.hyd = "done", !.steps = Merged, !.rows = Blank]
                /\ UNCHANGED <<journal, floor, stored, breaks>>

\* A failed fetch counts as done: the page keeps what the stream gave it.
HydrationFails == /\ Break /\ page.hyd \in {"asked", "answered"}
                  /\ page' = [page EXCEPT !.hyd = "failed", !.rows = Blank]
                  /\ UNCHANGED <<journal, floor, stored>>

TrackNext == \/ Record \/ Trim \/ Chunk \/ Accept \/ Refused \/ Refetched \/ Control
             \/ Drop \/ HalfOpen \/ Stall \/ Wake \/ stop \/ Reload
             \/ paintSteps \/ RowsRead \/ hydrateSteps \/ HydrationFails

TrackSpec == TrackInit /\ [][TrackNext]_trackVars

\* The page's own steps are taken, the service answers, and a service that
\* can no longer replay orders the resync.
FairTrackSpec ==
    /\ TrackSpec
    /\ WF_trackVars(Accept) /\ WF_trackVars(Refused) /\ WF_trackVars(Refetched)
    /\ WF_trackVars(Wake) /\ WF_trackVars(Stall) /\ WF_trackVars(Chunk /\ page'.at > page.at)
    /\ WF_trackVars(Control /\ page.at < floor)

-----------------------------------------------------------------------------
(***************************************************************************)
(* Properties.                                                             *)
(***************************************************************************)
Shown == [Calls -> {"none", "running", "completed"}]
Pages == [on : BOOLEAN, loop : {"fetching", "live", "backoff", "resync", "off"},
          asked : -1..MaxSeq, at : 0..MaxSeq, quiet : BOOLEAN, seen : Seq(Seqs), steps : Shown,
          hyd : {"no", "asked", "answered", "done", "failed"}, rows : Shown,
          handled : Seq(Seqs), skipped : SUBSET Seqs]

\* Every variable keeps its type, and no position is beyond the journal.
TrackTypeOK ==
    /\ journal \in Seq(JournalRows) /\ Last_ <= MaxSeq
    /\ floor \in 0..Last_ /\ stored \in -1..Last_ /\ breaks \in 0..MaxBreaks
    /\ page \in Pages /\ page.asked <= Last_ /\ page.at <= Last_

\* A page handles rows in journal order and each at most once, through
\* every reconnection and repeated row (dispatchFrame's dedupe and cursor).
HandledInOrder ==
    \A i, j \in DOMAIN page.handled : i < j => page.handled[i] < page.handled[j]

\* A row this page handled, was told it would not get, or never asked for.
Accounted(i) ==
    \/ i \in Range(page.handled) \/ i \in page.skipped
    \/ page.handled = <<>> /\ i <= page.asked
    \/ page.handled # <<>> /\ i < page.handled[1]

\* No row a live stream has passed is lost: the page handled it, or the
\* service said it would not replay it (saveCursor before handleEvent, the
\* cursor named at each connection).
NoEventSkipped == page.loop = "live" => \A i \in 1..page.at : Accounted(i)

\* A step shown settled stays so while the page lives: neither a repeated
\* start nor a late hydration takes it back to running.
SettledStays ==
    [][\A c \in Calls : (page.steps[c] = "completed" /\ page.hyd # "no")
           => page'.steps[c] = "completed" \/ page'.hyd = "no"]_trackVars

\* The list is complete: once hydration has answered, every call whose start
\* the stream has passed is on it, wherever in the journal the page began,
\* unless a resync gave that row up.
NoCallMissing ==
    (page.hyd = "done" /\ page.loop = "live") =>
        \A i \in 1..page.at :
            journal[i].kind = "started" =>
                page.steps[journal[i].key] # "none" \/ i \in page.skipped

\* A track left running ends up live at the end of the journal whatever the
\* network did, and a stopped one ends its loop.
CaughtUp == <>[](IF page.on THEN page.loop = "live" /\ page.at = Last_
                            ELSE page.loop = "off")

\* What the hydration comment promises: live state always wins, so a step
\* whose end the page has handled is not shown running.
LiveStateWins ==
    \A i \in Range(page.handled) :
        journal[i].kind = "finished" => page.steps[journal[i].key] # "running"
=============================================================================
