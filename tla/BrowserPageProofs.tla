------------------------- MODULE BrowserPageProofs -------------------------
(***************************************************************************)
(* Theorems about the three tracks of one browser page, for every value of *)
(* their constants: the live page, the event stream it follows, and the    *)
(* approvals and the lease it shows.  Each track has its own variables and *)
(* its own specification.                                                  *)
(***************************************************************************)
EXTENDS LivePage, EventTrack, ControlTrack, SequenceTheorems, TLAPS

-----------------------------------------------------------------------------
(* The live page: the pairing screen is quiet.                             *)

\* Session 0 is none: a session the service opens has another number.
QuietInv ==
    /\ opened \in Nat
    /\ track \in BOOLEAN
    /\ UnpairedIsQuiet

\* The steps after which the page has a session, whatever it had before.
LEMMA BootIsPaired ==
    ASSUME NEW t, t # 0, bootApp(t), track \in BOOLEAN
    PROVE  UnpairedIsQuiet' /\ track' \in BOOLEAN
BY DEF bootApp, ensureTrack, UnpairedIsQuiet

LEMMA QuietInvInit == Init => QuietInv
<1> SUFFICES ASSUME Init
             PROVE  QuietInv
  OBVIOUS
<1>1. opened \in Nat /\ track = FALSE
  BY DEF Init
<1>2. token = 0 => ~armed
  BY DEF Init
<1> QED BY <1>1, <1>2 DEF QuietInv, UnpairedIsQuiet

LEMMA QuietInvStep == QuietInv /\ [Next]_vars => QuietInv'
<1> SUFFICES ASSUME QuietInv, [Next]_vars
             PROVE  QuietInv'
  OBVIOUS
<1> USE DEF QuietInv
<1>1. ASSUME UNCHANGED <<opened, token, track, armed>>
      PROVE  QuietInv'
  BY <1>1 DEF UnpairedIsQuiet
<1>2. ASSUME Stream \/ EndRun \/ Expire
      PROVE  QuietInv'
  BY <1>1, <1>2 DEF Stream, EndRun, Expire, session
<1>3. ASSUME Serve \/ Tick \/ Deliver \/ Resync \/ Frame \/ selectConversation
      PROVE  QuietInv'
  BY <1>1, <1>3 DEF Serve, Tick, Deliver, Resync, Frame, selectConversation, service, session
<1>4. ASSUME Refreshed
      PROVE  QuietInv'
  <2>1. /\ UNCHANGED <<opened, token, armed>>
        /\ track' \in BOOLEAN
        /\ token = 0 => track' = (track /\ ask.ok)
    BY <1>4 DEF Refreshed, service, ensureTrack
  <2> QED BY <2>1 DEF UnpairedIsQuiet
<1>5. ASSUME RefreshFails
      PROVE  QuietInv'
  <2>1. /\ UNCHANGED <<opened, token, armed>>
        /\ track' \in BOOLEAN
        /\ token = 0 => track' = track
    BY <1>5 DEF RefreshFails, service, ensureTrack
  <2> QED BY <2>1 DEF UnpairedIsQuiet
<1>6. ASSUME PairAgain
      PROVE  QuietInv'
  BY <1>6 DEF PairAgain, service, UnpairedIsQuiet
<1>7. ASSUME SubmitPairing
      PROVE  QuietInv'
  BY <1>7 DEF SubmitPairing, UnpairedIsQuiet
<1>8. ASSUME Paired
      PROVE  QuietInv'
  BY <1>8, BootIsPaired DEF Paired, service
<1>9. ASSUME PairingLost
      PROVE  QuietInv'
  BY <1>1, <1>9 DEF PairingLost, service
<1>10. ASSUME OpenLink
       PROVE  QuietInv'
  <2>1. opened' = opened + 1 /\ opened' # 0 /\ bootApp(opened')
    BY <1>10 DEF OpenLink
  <2> QED BY <2>1, BootIsPaired
<1>11. ASSUME UNCHANGED vars
       PROVE  QuietInv'
  BY <1>1, <1>11 DEF vars, service, session
<1> QED BY <1>2, <1>3, <1>4, <1>5, <1>6, <1>7, <1>8, <1>9, <1>10, <1>11 DEF Next

\* The pairing screen has no poll and no track behind it, whatever was under way
\* when the session was given up: a refresh of an earlier boot, a redemption,
\* a link opened in the same tab.
THEOREM PairingScreenIsQuiet == Spec => []UnpairedIsQuiet
<1>1. QuietInv => UnpairedIsQuiet
  BY DEF QuietInv
<1> QED BY <1>1, QuietInvInit, QuietInvStep, PTL DEF Spec

-----------------------------------------------------------------------------
(* The event stream: what the cursor stands for.                           *)

\* Every row up to the stored cursor, and up to where a live stream stands,
\* is accounted for; a connection names the cursor, and from then on the
\* cursor follows the stream, or there is none yet.
CursorHolds ==
    /\ \A i \in 1..stored : Accounted(i)
    /\ page.loop = "live" => \A i \in 1..page.at : Accounted(i)
    /\ page.loop = "fetching" => page.asked = stored
    /\ page.loop = "live" => stored \in {-1, page.at}
    /\ page.asked <= stored

\* What the page remembers for its dedupe: nothing beyond the cursor, and the
\* last row it handled.
SeenHolds ==
    /\ \A i \in Range(page.seen) \cup Range(page.handled) : i <= stored
    /\ page.handled # <<>> =>
          /\ page.seen # <<>>
          /\ page.seen[Len(page.seen)] = page.handled[Len(page.handled)]

TrackInv == TrackTypeOK /\ CursorHolds /\ SeenHolds /\ HandledInOrder

LEMMA Remembered ==
    ASSUME NEW s \in Seq(Seqs), NEW i \in Seqs
    PROVE  /\ Remember(s, i) \in Seq(Seqs)
           /\ Remember(s, i) # <<>>
           /\ Remember(s, i)[Len(Remember(s, i))] = i
           /\ Range(Remember(s, i)) \subseteq Range(s) \cup {i}
<1> DEFINE t == Append(s, i)
<1>1. /\ t \in Seq(Seqs) /\ Len(t) = Len(s) + 1 /\ t[Len(t)] = i
      /\ \A k \in 1..Len(t) : t[k] \in Range(s) \cup {i}
  BY AppendProperties DEF Range
<1>2. CASE Len(t) > SeenCap
  <2>1. Len(t) > 1 /\ t # <<>>
    BY <1>1, <1>2, TrackAssumption, LenProperties
  <2>2. /\ Tail(t) \in Seq(Seqs) /\ Len(Tail(t)) = Len(t) - 1
        /\ \A k \in 1..Len(Tail(t)) : Tail(t)[k] = t[k + 1]
    BY <1>1, <2>1, HeadTailProperties
  <2>3. Remember(s, i) = Tail(t)
    BY <1>2 DEF Remember
  <2>4. \A k \in 1..Len(Tail(t)) : Tail(t)[k] \in Range(s) \cup {i}
    BY <1>1, <2>1, <2>2, LenProperties
  <2>5. Range(Tail(t)) \subseteq Range(s) \cup {i}
    BY <2>2, <2>4, LenProperties DEF Range
  <2>6. Tail(t)[Len(Tail(t))] = i /\ Len(Tail(t)) > 0
    BY <1>1, <2>1, <2>2, LenProperties
  <2>7. Tail(t) # <<>>
    BY <2>2, <2>6, LenProperties
  <2> QED BY <2>2, <2>3, <2>5, <2>6, <2>7
<1>3. CASE ~(Len(t) > SeenCap)
  <2>1. Remember(s, i) = t
    BY <1>3 DEF Remember
  <2>2. Range(t) \subseteq Range(s) \cup {i}
    BY <1>1, LenProperties DEF Range
  <2>3. t # <<>>
    BY <1>1, LenProperties
  <2> QED BY <1>1, <2>1, <2>2, <2>3
<1> QED BY <1>2, <1>3

\* A handled event changes the steps alone, and completed stays completed.
LEMMA Handled ==
    ASSUME NEW p \in Pages, NEW r \in JournalRows
    PROVE  \E s \in Shown :
              /\ handleEvent(p, r) = [p EXCEPT !.steps = s]
              /\ \A c \in Calls : p.steps[c] = "completed" => s[c] = "completed"
<1>0. p.steps \in Shown
  BY DEF Pages
<1>k. r.kind \in {"started", "finished"} => r.key \in Calls
  <2>1. CASE r \in [kind : {"started", "finished"}, key : Calls]
    BY <2>1
  <2>2. CASE r = Row("note", "")
    <3>1. r.kind = "note"
      BY <2>2 DEF Row
    <3> QED BY <3>1
  <2>3. r \in [kind : {"started", "finished"}, key : Calls] \cup {Row("note", "")}
    BY DEF JournalRows
  <2> QED BY <2>1, <2>2, <2>3
<1>1. CASE r.kind = "started"
  <2>1. r.key \in Calls
    BY <1>1, <1>k
  <2>2. CASE p.steps[r.key] = "none"
    <3>1. handleEvent(p, r) = [p EXCEPT !.steps = [p.steps EXCEPT ![r.key] = "running"]]
      BY <1>1, <2>2 DEF handleEvent, stepStarted
    <3>2. [p.steps EXCEPT ![r.key] = "running"] \in Shown
      BY <1>0, <2>1 DEF Shown
    <3>3. \A c \in Calls : p.steps[c] = "completed" =>
             [p.steps EXCEPT ![r.key] = "running"][c] = "completed"
      BY <1>0, <2>2 DEF Shown
    <3> QED BY <3>1, <3>2, <3>3
  <2>3. CASE p.steps[r.key] # "none"
    <3>1. handleEvent(p, r) = p
      BY <1>1, <2>3 DEF handleEvent, stepStarted
    <3>2. p = [p EXCEPT !.steps = p.steps]
      BY DEF Pages
    <3> QED BY <1>0, <3>1, <3>2
  <2> QED BY <2>2, <2>3
<1>2. CASE r.kind = "finished"
  <2>1. r.key \in Calls
    BY <1>2, <1>k
  <2>2. CASE p.steps[r.key] # "none"
    <3>1. handleEvent(p, r) = [p EXCEPT !.steps = [p.steps EXCEPT ![r.key] = "completed"]]
      BY <1>2, <2>2 DEF handleEvent, stepFinished
    <3>2. [p.steps EXCEPT ![r.key] = "completed"] \in Shown
      BY <1>0, <2>1 DEF Shown
    <3>3. \A c \in Calls : p.steps[c] = "completed" =>
             [p.steps EXCEPT ![r.key] = "completed"][c] = "completed"
      BY <1>0 DEF Shown
    <3> QED BY <3>1, <3>2, <3>3
  <2>3. CASE p.steps[r.key] = "none"
    <3>1. handleEvent(p, r) = p
      BY <1>2, <2>3 DEF handleEvent, stepFinished
    <3>2. p = [p EXCEPT !.steps = p.steps]
      BY DEF Pages
    <3> QED BY <1>0, <3>1, <3>2
  <2> QED BY <2>2, <2>3
<1>3. CASE r.kind \notin {"started", "finished"}
  <2>1. handleEvent(p, r) = p
    BY <1>3 DEF handleEvent
  <2>2. p = [p EXCEPT !.steps = p.steps]
    BY DEF Pages
  <2> QED BY <1>0, <2>1, <2>2
<1> QED BY <1>1, <1>2, <1>3

\* q is p with row i remembered and handled.
Handles(p, i, q) ==
    \E s \in Shown :
       /\ q = [p EXCEPT !.seen = Remember(p.seen, i), !.handled = Append(p.handled, i), !.steps = s]
       /\ \A c \in Calls : p.steps[c] = "completed" => s[c] = "completed"

\* One frame: a row seen before changes nothing; another one is remembered,
\* is the cursor from now on, and is handled.
LEMMA Dispatched ==
    ASSUME NEW p \in Pages, NEW c \in Int, NEW i \in 1..Last_,
           journal \in Seq(JournalRows), Last_ <= MaxSeq
    PROVE  LET m == dispatchFrame([page |-> p, cursor |-> c], i) IN
           \/ i \in Range(p.seen) /\ m.page = p /\ m.cursor = c
           \/ i \notin Range(p.seen) /\ m.cursor = i /\ Handles(p, i, m.page)
<1> DEFINE m == dispatchFrame([page |-> p, cursor |-> c], i)
           q == [p EXCEPT !.seen = Remember(p.seen, i), !.handled = Append(p.handled, i)]
<1>1. CASE i \in Range(p.seen)
  BY <1>1 DEF dispatchFrame
<1>2. CASE i \notin Range(p.seen)
  <2>1. m = [cursor |-> i, page |-> handleEvent(q, journal[i])]
    BY <1>2 DEF dispatchFrame
  <2>2. i \in Seqs /\ journal[i] \in JournalRows
    <3>1. Len(journal) \in Nat /\ \A k \in 1..Len(journal) : journal[k] \in JournalRows
      BY ElementOfSeq, LenProperties
    <3> QED BY <3>1, TrackAssumption DEF Last_, Seqs
  <2>3. p.seen \in Seq(Seqs) /\ p.handled \in Seq(Seqs)
    BY DEF Pages
  <2>4. Remember(p.seen, i) \in Seq(Seqs) /\ Append(p.handled, i) \in Seq(Seqs)
    BY <2>2, <2>3, Remembered, AppendProperties
  <2>5. q \in Pages /\ q.steps = p.steps
    BY <2>4 DEF Pages
  <2>6. PICK s \in Shown :
           /\ handleEvent(q, journal[i]) = [q EXCEPT !.steps = s]
           /\ \A k \in Calls : q.steps[k] = "completed" => s[k] = "completed"
    BY <2>2, <2>5, Handled
  <2>7. [q EXCEPT !.steps = s] =
           [p EXCEPT !.seen = Remember(p.seen, i), !.handled = Append(p.handled, i), !.steps = s]
    BY DEF Pages
  <2>8. m.cursor = i /\ m.page = handleEvent(q, journal[i])
    BY <2>1
  <2>9. m.page = [p EXCEPT !.seen = Remember(p.seen, i), !.handled = Append(p.handled, i),
                           !.steps = s]
    BY <2>6, <2>7, <2>8
  <2> HIDE DEF m, q
  <2>10. \A k \in Calls : p.steps[k] = "completed" => s[k] = "completed"
    BY <2>5, <2>6
  <2>11. Handles(p, i, m.page)
    BY <2>9, <2>10 DEF Handles
  <2> QED BY <1>2, <2>8, <2>11 DEF m
<1> QED BY <1>1, <1>2

LEMMA TrackInitHolds == TrackInit => TrackInv
<1> SUFFICES ASSUME TrackInit
             PROVE  TrackInv
  OBVIOUS
<1>1. Len(journal) = 0 /\ journal \in Seq(JournalRows)
  BY LenProperties, EmptySeq DEF TrackInit
<1>2. <<>> \in Seq(Seqs) /\ Blank \in Shown
  BY EmptySeq DEF Blank, Shown
<1>3. page \in Pages /\ page.asked = -1 /\ page.at = 0 /\ page.handled = <<>>
      /\ page.seen = <<>> /\ page.loop = "fetching"
  BY <1>2, TrackAssumption DEF TrackInit, NewPage, Pages
<1>4. TrackTypeOK
  BY <1>1, <1>3, TrackAssumption DEF TrackInit, TrackTypeOK, Last_
<1>5. CursorHolds
  BY <1>3 DEF TrackInit, CursorHolds
<1>6. SeenHolds /\ HandledInOrder
  BY <1>3 DEF SeenHolds, HandledInOrder, Range
<1> QED BY <1>4, <1>5, <1>6 DEF TrackInv

\* What the types say of the numbers a step works with.
LEMMA TrackNumbers ==
    ASSUME TrackTypeOK
    PROVE  /\ Last_ \in Nat /\ Last_ <= MaxSeq /\ MaxSeq \in Nat
           /\ floor \in Nat /\ floor <= Last_ /\ stored \in Int /\ -1 <= stored /\ stored <= Last_
           /\ page.asked \in Int /\ -1 <= page.asked /\ page.at \in Nat
           /\ page.handled \in Seq(Seqs) /\ page.seen \in Seq(Seqs) /\ page.skipped \subseteq Seqs
BY TrackAssumption, LenProperties DEF TrackTypeOK, Last_, Pages

LEMMA SeenNumbers ==
    ASSUME TrackTypeOK
    PROVE  \A j \in Range(page.seen) \cup Range(page.handled) : j \in Seqs /\ j \in Int
<1>1. \A j \in Range(page.seen) \cup Range(page.handled) : j \in Seqs
  BY TrackNumbers, ElementOfSeq DEF Range
<1> QED BY <1>1, TrackNumbers DEF Seqs

LEMMA StaysAccounted ==
    ASSUME page'.handled = page.handled, page.skipped \subseteq page'.skipped,
           page.asked \in Int, page'.asked \in Int, page.asked <= page'.asked,
           NEW i \in Int, Accounted(i)
    PROVE  Accounted(i)'
BY DEF Accounted

\* A step that moves neither the cursor nor the stream keeps the invariant.
LEMMA StandsStill ==
    ASSUME TrackInv, UNCHANGED <<journal, stored>>, floor' \in 0..Last_, breaks' \in 0..MaxBreaks,
           page' \in Pages,
           /\ page'.seen = page.seen /\ page'.handled = page.handled
           /\ page'.skipped = page.skipped /\ page'.asked = page.asked /\ page'.at = page.at
           /\ page'.loop \in {page.loop, "backoff", "resync", "off"}
    PROVE  TrackInv'
<1>1. Last_' = Last_
  BY DEF Last_
<1>2. TrackTypeOK'
  BY <1>1 DEF TrackInv, TrackTypeOK, JournalRows
<1>3. \A i : Accounted(i)' <=> Accounted(i)
  BY DEF Accounted
<1>4. CursorHolds'
  BY <1>3 DEF TrackInv, CursorHolds
<1>5. SeenHolds'
  BY DEF TrackInv, SeenHolds
<1>6. HandledInOrder'
  BY DEF TrackInv, HandledInOrder
<1> QED BY <1>2, <1>4, <1>5, <1>6 DEF TrackInv

LEMMA JournalGrows == ASSUME TrackInv, Record PROVE TrackInv'
<1> USE DEF TrackInv
<1>1. PICK r \in JournalRows : journal' = Append(journal, r)
  BY DEF Record
<1>2. UNCHANGED <<floor, stored, page, breaks>> /\ Last_ < MaxSeq
  BY DEF Record
<1>3. journal' \in Seq(JournalRows) /\ Last_' = Last_ + 1
  BY <1>1, AppendProperties DEF TrackTypeOK, Last_
<1>4. TrackTypeOK'
  <2>1. Pages' = Pages /\ JournalRows' = JournalRows
    OBVIOUS
  <2> QED BY <1>2, <1>3, <2>1, TrackNumbers, TrackAssumption DEF TrackTypeOK
<1>5. CursorHolds' /\ SeenHolds' /\ HandledInOrder'
  BY <1>2 DEF CursorHolds, SeenHolds, HandledInOrder, Accounted
<1> QED BY <1>4, <1>5

\* A connection names the stored cursor: the rows before it are accounted for.
LEMMA Reconnects ==
    ASSUME TrackInv, page' = Connecting(page), UNCHANGED <<journal, floor, stored, breaks>>
    PROVE  TrackInv'
<1> USE DEF TrackInv
<1>0. page \in Pages /\ stored \in -1..MaxSeq
  BY TrackNumbers DEF TrackTypeOK
<1>1. page' \in Pages
  BY <1>0 DEF Connecting, Pages
<1>2. /\ page'.seen = page.seen /\ page'.handled = page.handled /\ page'.at = page.at
      /\ page'.skipped = page.skipped /\ page'.asked = stored /\ page'.loop = "fetching"
  BY <1>0 DEF Connecting, Pages
<1>3. Last_' = Last_
  BY DEF Last_
<1>4. TrackTypeOK'
  BY <1>1, <1>2, <1>3, TrackNumbers DEF TrackTypeOK
<1>5. CursorHolds'
  <2>1. \A i \in 1..stored : Accounted(i)'
    BY <1>2, StaysAccounted, TrackNumbers DEF CursorHolds
  <2> QED BY <1>2, <2>1, TrackNumbers DEF CursorHolds
<1>6. SeenHolds' /\ HandledInOrder'
  BY <1>2 DEF SeenHolds, HandledInOrder
<1> QED BY <1>4, <1>5, <1>6

\* The service replays from the cursor, or tells by its tail what it left out.
LEMMA StreamOpens == ASSUME TrackInv, Accept PROVE TrackInv'
<1> USE DEF TrackInv
<1> DEFINE tail == CHOOSE n \in {floor, Last_ - TailRows} : n >= floor /\ n >= Last_ - TailRows
           start0 == IF page.asked # -1 THEN page.asked ELSE tail
           skipped0 == IF page.asked = -1 THEN page.skipped \cup 1..start0 ELSE page.skipped
<1>1. tail \in 0..Last_
  <2>1. \E n \in {floor, Last_ - TailRows} : n >= floor /\ n >= Last_ - TailRows
    BY TrackNumbers, TrackAssumption
  <2>2. tail \in {floor, Last_ - TailRows} /\ tail >= floor
    BY <2>1
  <2> HIDE DEF tail
  <2> QED BY <2>2, TrackNumbers, TrackAssumption
<1> HIDE DEF tail
<1>2. page.asked <= Last_
  BY DEF TrackTypeOK
<1>3. start0 \in 0..Last_
  BY <1>1, <1>2, TrackNumbers
<1> HIDE DEF start0
<1>4. skipped0 \in SUBSET Seqs
  BY <1>3, TrackNumbers DEF Seqs
<1>5. page' = [page EXCEPT !.loop = "live", !.at = start0, !.skipped = skipped0]
  BY DEF Accept, start0, tail
<1> HIDE DEF skipped0
<1>6. page \in Pages /\ start0 \in 0..MaxSeq
  BY <1>3, TrackNumbers DEF TrackTypeOK
<1>7. page' \in Pages
  BY <1>4, <1>5, <1>6 DEF Pages
<1>8. /\ page'.seen = page.seen /\ page'.handled = page.handled /\ page'.at = start0
      /\ page'.skipped = skipped0 /\ page'.asked = page.asked /\ page'.loop = "live"
  BY <1>5, <1>6 DEF Pages
<1>9. UNCHANGED <<journal, floor, stored, breaks>> /\ Last_' = Last_
  BY DEF Accept, Last_
<1>10. TrackTypeOK'
  BY <1>2, <1>3, <1>7, <1>8, <1>9 DEF TrackTypeOK
<1>11. CursorHolds'
  <2>1. page.asked = stored /\ page.skipped \subseteq skipped0
    BY DEF CursorHolds, Accept, skipped0
  <2>2. \A i \in 1..stored : Accounted(i)'
    BY <1>8, <2>1, StaysAccounted, TrackNumbers DEF CursorHolds
  <2>3. \A i \in 1..start0 : Accounted(i)'
    <3>1. CASE page.asked = -1
      BY <1>8, <3>1 DEF skipped0, Accounted
    <3>2. CASE page.asked # -1
      BY <2>1, <2>2, <3>2 DEF start0
    <3> QED BY <3>1, <3>2
  <2>4. stored \in {-1, start0}
    BY <2>1 DEF start0
  <2> QED BY <1>8, <1>9, <2>1, <2>2, <2>3, <2>4, TrackNumbers DEF CursorHolds
<1>12. SeenHolds' /\ HandledInOrder'
  BY <1>8, <1>9 DEF SeenHolds, HandledInOrder
<1> QED BY <1>10, <1>11, <1>12

\* A resync moves the cursor to the end and gives up the rows between.
LEMMA ResyncHolds ==
    ASSUME TrackInv, NEW l \in {"resync", "backoff"}, NEW passed \in Nat,
           \A i \in 1..passed : Accounted(i),
           onResync([page EXCEPT !.loop = l], passed), UNCHANGED <<journal, floor, breaks>>
    PROVE  TrackInv'
<1> USE DEF TrackInv
<1> DEFINE skipped0 == page.skipped \cup (passed + 1)..Last_
<1>1. skipped0 \in SUBSET Seqs
  BY TrackNumbers DEF Seqs
<1>2. page \in Pages /\ stored' = Last_
  BY DEF TrackTypeOK, onResync
<1>3. page' = [page EXCEPT !.loop = l, !.skipped = skipped0]
  BY <1>2 DEF onResync, Pages
<1>4. page.skipped \subseteq skipped0 /\ \A i \in passed + 1 .. Last_ : i \in skipped0
  OBVIOUS
<1> HIDE DEF skipped0
<1>5. page' \in Pages
  BY <1>1, <1>2, <1>3 DEF Pages
<1>6. /\ page'.seen = page.seen /\ page'.handled = page.handled /\ page'.at = page.at
      /\ page'.skipped = skipped0 /\ page'.asked = page.asked /\ page'.loop = l
  BY <1>2, <1>3 DEF Pages
<1>7. Last_' = Last_ /\ page.asked <= Last_ /\ page.at <= Last_
  BY DEF Last_, TrackTypeOK
<1>8. TrackTypeOK'
  BY <1>2, <1>5, <1>6, <1>7, TrackNumbers DEF TrackTypeOK
<1>9. CursorHolds'
  <2>1. \A i \in 1..passed : Accounted(i)'
    BY <1>4, <1>6, StaysAccounted, TrackNumbers
  <2>2. \A i \in passed + 1 .. Last_ : Accounted(i)'
    BY <1>4, <1>6 DEF Accounted
  <2>3. \A i \in 1..Last_ : Accounted(i)'
    BY <2>1, <2>2, TrackNumbers
  <2> QED BY <1>2, <1>6, <1>7, <2>3 DEF CursorHolds
<1>10. SeenHolds'
  <2>1. \A j \in Range(page.seen) \cup Range(page.handled) : j <= Last_
    BY SeenNumbers, TrackNumbers DEF SeenHolds
  <2> QED BY <1>2, <1>6, <2>1 DEF SeenHolds
<1>11. HandledInOrder'
  BY <1>6 DEF HandledInOrder
<1> QED BY <1>8, <1>9, <1>10, <1>11

\* A frame.  A row not seen before lies at or after the cursor, so it is handled
\* after everything handled before it.
LEMMA FrameHandled == ASSUME TrackInv, Chunk PROVE TrackInv'
<1> USE DEF TrackInv
<1>1. PICK i \in Frames :
         /\ floor < i /\ i <= Last_
         /\ page' = [dispatchFrame([page |-> page, cursor |-> stored], i).page EXCEPT !.at = i]
         /\ stored' = dispatchFrame([page |-> page, cursor |-> stored], i).cursor
  BY DEF Chunk
<1>2. page \in Pages /\ page.loop = "live" /\ UNCHANGED <<journal, floor, breaks>>
  BY DEF Chunk, TrackTypeOK
<1>3. Last_' = Last_ /\ page.asked <= Last_ /\ page.at <= Last_
  BY <1>2 DEF Last_, TrackTypeOK
<1>4. i \in 1..Last_ /\ i \in {page.at, page.at + 1} /\ i \in Seqs /\ i \in 0..MaxSeq
  BY <1>1, TrackNumbers DEF Frames, Seqs
<1>5. journal \in Seq(JournalRows)
  BY DEF TrackTypeOK
<1>6. CASE i \in Range(page.seen)
  <2>1. page' = [page EXCEPT !.at = i] /\ stored' = stored
    BY <1>1, <1>2, <1>4, <1>5, <1>6, Dispatched, TrackNumbers
  <2>2. page' \in Pages
    BY <1>2, <1>4, <2>1 DEF Pages
  <2>3. /\ page'.seen = page.seen /\ page'.handled = page.handled /\ page'.at = i
        /\ page'.skipped = page.skipped /\ page'.asked = page.asked /\ page'.loop = "live"
    BY <1>2, <2>1 DEF Pages
  <2>4. TrackTypeOK'
    BY <1>2, <1>3, <1>4, <2>1, <2>2, <2>3 DEF TrackTypeOK
  <2>5. i <= stored
    BY <1>6 DEF SeenHolds
  <2>6. CursorHolds'
    <3>1. stored = page.at /\ i = page.at
      BY <1>2, <1>4, <2>5, TrackNumbers DEF CursorHolds
    <3> QED BY <1>2, <2>1, <2>3, <3>1 DEF CursorHolds, Accounted
  <2>7. SeenHolds' /\ HandledInOrder'
    BY <2>1, <2>3 DEF SeenHolds, HandledInOrder
  <2> QED BY <2>4, <2>6, <2>7
<1>7. CASE i \notin Range(page.seen)
  <2> DEFINE seen0 == Remember(page.seen, i)
             handled0 == Append(page.handled, i)
  <2>0. /\ dispatchFrame([page |-> page, cursor |-> stored], i).cursor = i
        /\ Handles(page, i, dispatchFrame([page |-> page, cursor |-> stored], i).page)
    BY <1>2, <1>4, <1>5, <1>7, Dispatched, TrackNumbers
  <2>1. PICK s \in Shown :
           dispatchFrame([page |-> page, cursor |-> stored], i).page =
              [page EXCEPT !.seen = seen0, !.handled = handled0, !.steps = s]
    BY <2>0 DEF Handles
  <2>2. stored' = i
    BY <1>1, <2>0
  <2>3. page' = [page EXCEPT !.seen = seen0, !.handled = handled0, !.steps = s, !.at = i]
    BY <1>1, <1>2, <2>1 DEF Pages
  <2>4. /\ seen0 \in Seq(Seqs) /\ seen0 # <<>> /\ seen0[Len(seen0)] = i
        /\ Range(seen0) \subseteq Range(page.seen) \cup {i}
    BY <1>4, TrackNumbers, Remembered
  <2>5. /\ handled0 \in Seq(Seqs) /\ Len(handled0) = Len(page.handled) + 1
        /\ handled0[Len(handled0)] = i
        /\ \A k \in 1..Len(page.handled) : handled0[k] = page.handled[k]
    BY <1>4, TrackNumbers, AppendProperties
  <2>6. /\ DOMAIN page.handled = 1..Len(page.handled)
        /\ DOMAIN handled0 = 1..(Len(page.handled) + 1)
        /\ Len(page.handled) \in Nat
        /\ page.handled = <<>> <=> Len(page.handled) = 0
    BY <2>5, TrackNumbers, LenProperties, EmptySeq
  <2> HIDE DEF seen0, handled0
  <2>7. page' \in Pages
    BY <1>2, <1>4, <2>3, <2>4, <2>5 DEF Pages
  <2>8. /\ page'.seen = seen0 /\ page'.handled = handled0 /\ page'.at = i
        /\ page'.skipped = page.skipped /\ page'.asked = page.asked /\ page'.loop = "live"
    BY <1>2, <2>3 DEF Pages
  <2>9. TrackTypeOK'
    BY <1>2, <1>3, <1>4, <2>2, <2>7, <2>8, TrackNumbers DEF TrackTypeOK
  <2>10. stored <= i /\ page.asked <= i /\ page.at <= i
    BY <1>2, <1>4, TrackNumbers DEF CursorHolds
  <2>11. Range(handled0) = Range(page.handled) \cup {i}
    BY <2>5, <2>6 DEF Range
  <2>12. \A j \in 1..i : Accounted(j)'
    <3> SUFFICES ASSUME NEW j \in 1..i
                 PROVE  Accounted(j)'
      OBVIOUS
    <3>1. handled0 # <<>>
      BY <2>5, <2>6, EmptySeq
    <3>2. CASE j = i
      BY <2>8, <2>11, <3>2 DEF Accounted
    <3>3. CASE j # i
      <4>1. j \in 1..page.at /\ Accounted(j)
        BY <1>2, <1>4, <3>3, TrackNumbers DEF CursorHolds
      <4>2. CASE page.handled = <<>>
        <5>1. handled0[1] = i
          BY <2>5, <2>6, <4>2
        <5> QED BY <1>4, <2>8, <3>1, <3>3, <5>1 DEF Accounted
      <4>3. CASE page.handled # <<>>
        <5>1. handled0[1] = page.handled[1]
          BY <2>5, <2>6, <4>3
        <5> QED BY <2>8, <2>11, <3>1, <4>1, <4>3, <5>1 DEF Accounted
      <4> QED BY <4>2, <4>3
    <3> QED BY <3>2, <3>3
  <2>13. CursorHolds'
    BY <1>4, <2>2, <2>8, <2>10, <2>12 DEF CursorHolds
  <2>14. \A j \in Range(page.seen) \cup Range(page.handled) : j \in Int /\ j <= i
    BY <1>4, <2>10, SeenNumbers, TrackNumbers DEF SeenHolds
  <2>15. SeenHolds'
    <3>1. \A j \in Range(seen0) \cup Range(handled0) : j <= i
      BY <1>4, <2>4, <2>11, <2>14
    <3> QED BY <2>2, <2>4, <2>5, <2>8, <3>1 DEF SeenHolds
  <2>16. HandledInOrder'
    <3>1. \A k \in 1..Len(page.handled) : page.handled[k] < i
      <4> SUFFICES ASSUME NEW k \in 1..Len(page.handled)
                   PROVE  page.handled[k] < i
        OBVIOUS
      <4>1. /\ page.handled # <<>>
            /\ page.seen[Len(page.seen)] = page.handled[Len(page.handled)]
            /\ page.seen # <<>>
        BY <2>6 DEF SeenHolds
      <4>2. page.seen[Len(page.seen)] \in Range(page.seen)
        <5>1. Len(page.seen) \in DOMAIN page.seen
          BY <4>1, TrackNumbers, LenProperties, EmptySeq
        <5> QED BY <5>1 DEF Range
      <4>3. page.handled[Len(page.handled)] # i
        BY <1>7, <4>1, <4>2
      <4>4. page.handled[k] \in Int /\ page.handled[Len(page.handled)] \in Int
            /\ page.handled[Len(page.handled)] <= i
        BY <2>6, <2>14 DEF Range
      <4>5. page.handled[k] <= page.handled[Len(page.handled)]
        BY <2>6, <4>4 DEF HandledInOrder
      <4> QED BY <1>4, <4>3, <4>4, <4>5
    <3> QED BY <2>5, <2>6, <2>8, <3>1 DEF HandledInOrder
  <2> QED BY <2>9, <2>13, <2>15, <2>16
<1> QED BY <1>6, <1>7

\* A page loaded again knows the cursor and nothing else.
LEMMA ReloadHolds == ASSUME TrackInv, Reload PROVE TrackInv'
<1> USE DEF TrackInv
<1>1. <<>> \in Seq(Seqs) /\ Blank \in Shown
  BY EmptySeq DEF Blank, Shown
<1>2. page' = NewPage(stored) /\ UNCHANGED <<journal, floor, stored>> /\ Last_' = Last_
  BY DEF Reload, Last_
<1>3. stored \in -1..MaxSeq /\ stored <= Last_ /\ breaks' \in 0..MaxBreaks
  BY TrackNumbers, TrackAssumption DEF Reload, Break, TrackTypeOK
<1>4. page' \in Pages
  BY <1>1, <1>2, <1>3, TrackNumbers DEF NewPage, Pages
<1>5. /\ page'.handled = <<>> /\ page'.seen = <<>> /\ page'.asked = stored
      /\ page'.loop = "fetching" /\ page'.at = 0
  BY <1>2 DEF NewPage
<1>6. TrackTypeOK'
  BY <1>2, <1>3, <1>4, <1>5, TrackNumbers DEF TrackTypeOK
<1>7. CursorHolds'
  BY <1>2, <1>3, <1>5 DEF CursorHolds, Accounted
<1>8. SeenHolds' /\ HandledInOrder'
  BY <1>5 DEF SeenHolds, HandledInOrder, Range
<1> QED BY <1>6, <1>7, <1>8

\* The steps of the page that leave the stream where it is.
LEMMA QuietSteps ==
    ASSUME TrackInv,
           \/ Drop \/ HalfOpen \/ Stall \/ stop \/ paintSteps \/ RowsRead \/ hydrateSteps
           \/ HydrationFails \/ (Refetched /\ ~page.on) \/ Trim
    PROVE  TrackInv'
<1>0. page \in Pages /\ TrackTypeOK
  BY DEF TrackInv, TrackTypeOK
<1>1. /\ UNCHANGED <<journal, stored>> /\ floor' \in 0..Last_ /\ breaks' \in 0..MaxBreaks
  <2>1. UNCHANGED <<journal, stored>> /\ floor' \in {floor, Last_}
    BY DEF Drop, HalfOpen, Stall, stop, paintSteps, RowsRead, hydrateSteps, HydrationFails,
       Refetched, Trim
  <2>2. breaks' = breaks \/ (breaks < MaxBreaks /\ breaks' = breaks + 1)
    BY DEF Drop, HalfOpen, Stall, stop, paintSteps, RowsRead, hydrateSteps, HydrationFails,
       Refetched, Trim, Break
  <2> QED BY <1>0, <2>1, <2>2, TrackNumbers, TrackAssumption DEF TrackTypeOK
<1>2. Merged \in Shown /\ Persisted \in Shown /\ Blank \in Shown
  BY <1>0 DEF Merged, Persisted, Blank, Shown, Pages
<1>3. /\ page' \in Pages
      /\ page'.seen = page.seen /\ page'.handled = page.handled
      /\ page'.skipped = page.skipped /\ page'.asked = page.asked /\ page'.at = page.at
      /\ page'.loop \in {page.loop, "backoff", "resync", "off"}
  <2>1. CASE Trim
    BY <1>0, <2>1 DEF Trim
  <2>2. CASE Drop \/ Stall
    BY <1>0, <2>2 DEF Drop, Stall, Pages
  <2>3. CASE HalfOpen
    BY <1>0, <2>3 DEF HalfOpen, Pages
  <2>4. CASE stop
    BY <1>0, <2>4 DEF stop, Pages
  <2>5. CASE paintSteps
    BY <1>0, <2>5 DEF paintSteps, Pages
  <2>6. CASE RowsRead
    BY <1>0, <1>2, <2>6 DEF RowsRead, Pages
  <2>7. CASE hydrateSteps
    BY <1>0, <1>2, <2>7 DEF hydrateSteps, Pages
  <2>8. CASE HydrationFails
    BY <1>0, <1>2, <2>8 DEF HydrationFails, Pages
  <2>9. CASE Refetched /\ ~page.on
    BY <1>0, <2>9 DEF Refetched, Pages
  <2> QED BY <2>1, <2>2, <2>3, <2>4, <2>5, <2>6, <2>7, <2>8, <2>9
<1> QED BY <1>1, <1>3, StandsStill

LEMMA TrackStep == TrackInv /\ [TrackNext]_trackVars => TrackInv'
<1> SUFFICES ASSUME TrackInv, [TrackNext]_trackVars
             PROVE  TrackInv'
  OBVIOUS
<1>1. CASE Refused
  <2>1. page.asked \in Nat /\ page.asked = stored /\ \A i \in 1..page.asked : Accounted(i)
    <3>1. page.asked # -1 /\ page.loop = "fetching"
      BY <1>1 DEF Refused, Retained
    <3> QED BY <3>1, TrackNumbers DEF TrackInv, CursorHolds
  <2>2. onResync([page EXCEPT !.loop = "resync"], page.asked) /\ UNCHANGED <<journal, floor, breaks>>
    BY <1>1 DEF Refused
  <2> QED BY <2>1, <2>2, ResyncHolds
<1>2. CASE Control
  <2>1. page.at \in Nat /\ \A i \in 1..page.at : Accounted(i)
    BY <1>2, TrackNumbers DEF Control, TrackInv, CursorHolds
  <2>2. onResync([page EXCEPT !.loop = "backoff"], page.at) /\ UNCHANGED <<journal, floor, breaks>>
    BY <1>2 DEF Control
  <2> QED BY <2>1, <2>2, ResyncHolds
<1>3. CASE Wake \/ (Refetched /\ page.on)
  BY <1>3, Reconnects DEF Wake, Refetched
<1>4. CASE UNCHANGED trackVars
  <2>1. page \in Pages /\ floor \in 0..Last_ /\ breaks \in 0..MaxBreaks
    BY DEF TrackInv, TrackTypeOK
  <2> QED BY <1>4, <2>1, StandsStill DEF trackVars
<1> QED BY <1>1, <1>2, <1>3, <1>4, QuietSteps, JournalGrows, FrameHandled, StreamOpens, ReloadHolds
        DEF TrackNext

\* The cursor stands for what the page has handled or was told it would not
\* get, however connections break, stall, resync or start over.
THEOREM TrackInvariant == TrackSpec => []TrackInv
BY TrackInitHolds, TrackStep, PTL DEF TrackSpec

\* No row a live stream has passed is lost: it was handled, or the service
\* gave it up or was never asked for it.
THEOREM NothingSkipped == TrackSpec => []NoEventSkipped
<1>1. TrackInv => NoEventSkipped
  BY DEF TrackInv, CursorHolds, NoEventSkipped
<1> QED BY <1>1, TrackInvariant, PTL

\* A page handles the rows in journal order and none twice, although the
\* dedupe remembers only the last SeenCap of them.
THEOREM RowsHandledOnce == TrackSpec => []HandledInOrder
<1>1. TrackInv => HandledInOrder
  BY DEF TrackInv
<1> QED BY <1>1, TrackInvariant, PTL

\* A step shown settled stays settled while the page lives: a repeated start
\* and a late hydration leave it alone.
THEOREM SettledStepStays == TrackSpec => SettledStays
<1> DEFINE A == \A c \in Calls : (page.steps[c] = "completed" /\ page.hyd # "no")
                   => page'.steps[c] = "completed" \/ page'.hyd = "no"
<1>1. TrackInv /\ [TrackNext]_trackVars => [A]_trackVars
  <2> SUFFICES ASSUME TrackInv, TrackNext
               PROVE  A
    OBVIOUS
  <2>0. page \in Pages /\ page.steps \in Shown
    BY DEF TrackInv, TrackTypeOK, Pages
  <2>1. CASE page'.steps = page.steps
    BY <2>1
  <2>2. CASE Chunk
    <3>1. PICK i \in Frames :
             /\ floor < i /\ i <= Last_
             /\ page' = [dispatchFrame([page |-> page, cursor |-> stored], i).page EXCEPT !.at = i]
      BY <2>2 DEF Chunk
    <3>2. i \in 1..Last_ /\ stored \in Int /\ journal \in Seq(JournalRows) /\ Last_ <= MaxSeq
      BY <3>1, TrackNumbers DEF Frames, TrackInv, TrackTypeOK
    <3>3. PICK q : q = dispatchFrame([page |-> page, cursor |-> stored], i).page
      OBVIOUS
    <3>4. q = page \/ Handles(page, i, q)
      BY <2>0, <3>2, <3>3, Dispatched
    <3>5. page'.steps = q.steps
      BY <2>0, <3>1, <3>3, <3>4 DEF Handles, Pages
    <3>6. \A c \in Calls : page.steps[c] = "completed" => q.steps[c] = "completed"
      BY <2>0, <3>4 DEF Handles, Pages
    <3> QED BY <3>5, <3>6
  <2>3. CASE hydrateSteps
    <3>1. page'.steps = Merged
      BY <2>0, <2>3 DEF hydrateSteps, Pages
    <3> QED BY <2>0, <3>1 DEF Merged, Shown
  <2>4. CASE Reload
    <3>1. page'.hyd = "no"
      BY <2>4 DEF Reload, NewPage
    <3> QED BY <3>1
  <2>5. CASE Refused \/ Control
    BY <2>0, <2>1, <2>5 DEF Refused, Control, onResync, Pages
  <2>6. CASE Record \/ Trim
    BY <2>1, <2>6 DEF Record, Trim
  <2>7. CASE Accept
    BY <2>0, <2>1, <2>7 DEF Accept, Pages
  <2>8. CASE Refetched \/ Wake
    BY <2>0, <2>1, <2>8 DEF Refetched, Wake, Connecting, Pages
  <2>9. CASE Drop \/ HalfOpen \/ Stall \/ stop \/ paintSteps \/ RowsRead \/ HydrationFails
    BY <2>0, <2>1, <2>9 DEF Drop, HalfOpen, Stall, stop, paintSteps, RowsRead, HydrationFails, Pages
  <2> QED BY <2>2, <2>3, <2>4, <2>5, <2>6, <2>7, <2>8, <2>9 DEF TrackNext
<1> QED BY <1>1, TrackInvariant, PTL DEF TrackSpec, SettledStays

-----------------------------------------------------------------------------
(* Approvals and lease: types.                                             *)

CallsHold == \A op \in Ops : calls[op].at # "idle" => calls[op].what # ""

ControlBase == ControlTypeOK /\ CallsHold

LEMMA ControlNumbers ==
    ASSUME ControlTypeOK
    PROVE  /\ gen \in Nat /\ gen <= MaxGen /\ age \in Nat /\ age <= Lapses
           /\ failed \in Nat /\ failed <= MaxFailures /\ clicks \in Nat /\ clicks <= MaxClicks
           /\ MaxGen \in Nat /\ Beat \in Nat /\ Lapses \in Nat /\ MaxFailures \in Nat
           /\ MaxClicks \in Nat
BY ControlAssumption DEF ControlTypeOK

LEMMA CurrentIsLease == ASSUME ControlTypeOK PROVE Current \in Leases
BY DEF ControlTypeOK, Current, Leases

LEMMA FailsType == ASSUME ControlTypeOK, Fails PROVE failed' \in 0..MaxFailures
BY ControlNumbers DEF Fails

\* What the service does to its own variables keeps their types.
LEMMA ServiceTypes ==
    ASSUME ControlTypeOK,
           \/ \E a \in Approvals : Propose(a) \/ Elsewhere(a)
           \/ OtherTakes \/ OtherReleases \/ Lapse
    PROVE  rows' \in ApprovalRows /\ gen' \in 0..MaxGen
           /\ holder' \in {"agent", "me", "other"} /\ age' \in 0..Lapses
<1> USE ControlAssumption DEF ControlTypeOK, ApprovalRows, States
<1>1. CASE \E a \in Approvals : Propose(a)
  BY <1>1 DEF Propose
<1>2. CASE \E a \in Approvals : Elsewhere(a)
  BY <1>2 DEF Elsewhere
<1>3. CASE OtherTakes
  BY <1>3 DEF OtherTakes, HandTo, Revoked
<1>4. CASE OtherReleases \/ Lapse
  BY <1>4 DEF OtherReleases, Lapse, HandTo
<1> QED BY <1>1, <1>2, <1>3, <1>4

LEMMA ServedTypes ==
    ASSUME ControlTypeOK, NEW c \in CallRows, c.what # "", Effect(c)
    PROVE  rows' \in ApprovalRows /\ gen' \in 0..MaxGen
           /\ holder' \in {"agent", "me", "other"} /\ age' \in 0..Lapses
<1> USE ControlAssumption DEF ControlTypeOK, ApprovalRows, States
<1>1. CASE c.what \in {"approved", "denied"}
  BY <1>1 DEF Effect
<1>2. CASE c.what = "revoke"
  BY <1>2 DEF Effect
<1>3. CASE c.what = "takeover"
  BY <1>3 DEF Effect, HandTo, Revoked
<1>4. CASE c.what = "resume"
  BY <1>4 DEF Effect, HandTo
<1> QED BY <1>1, <1>2, <1>3, <1>4 DEF CallRows

LEMMA ReplyTypes ==
    ASSUME NEW c \in CallRows, c.what # ""
    PROVE  ReplyTo(c) \in {"ok", "settled", "stale"}
BY DEF ReplyTo, CallRows

LEMMA AskTypes ==
    ASSUME ControlTypeOK, NEW by \in Callers
    PROVE  /\ Ask(by) => polls' \subseteq [by : Callers, rows : ApprovalRows]
           /\ AskLease(by) => reads' \subseteq [by : Callers, lease : Leases]
BY CurrentIsLease DEF ControlTypeOK, Ask, AskLease

\* A change of one call's row.
LEMMA CallTypes ==
    ASSUME ControlBase, NEW op \in Ops, NEW c \in CallRows, c.at # "idle" => c.what # "",
           calls' = [calls EXCEPT ![op] = c]
    PROVE  calls' \in [Ops -> CallRows] /\ CallsHold'
BY DEF ControlBase, ControlTypeOK, CallsHold

LEMMA IdleIsCall == Idle \in CallRows /\ Idle.at = "idle"
BY ControlAssumption DEF Idle, CallRows

\* The rest of a decision that waited for a lease.
LEMMA ResumedTypes ==
    ASSUME ControlBase, NEW l \in Leases, Resumed(l)
    PROVE  /\ calls' \in [Ops -> CallRows] /\ CallsHold'
           /\ polls' \subseteq [by : Callers, rows : ApprovalRows]
<1> DEFINE c == calls["decide"]
<1>0. c \in CallRows /\ "decide" \in Ops /\ polls \subseteq [by : Callers, rows : ApprovalRows]
  BY DEF ControlBase, ControlTypeOK, Ops
<1>1. CASE c.at = "wait"
  <2>1. PICK g \in 0..MaxGen : g = IF l.known THEN l.gen ELSE 0
    BY ControlAssumption DEF Leases
  <2>2. calls' = [calls EXCEPT !["decide"].at = "sent", !["decide"].gen = g] /\ UNCHANGED polls
    BY <1>1, <2>1 DEF Resumed
  <2>3. calls' = [calls EXCEPT !["decide"] = [c EXCEPT !.at = "sent", !.gen = g]]
    BY <1>0, <2>2 DEF ControlBase, ControlTypeOK
  <2>4. [c EXCEPT !.at = "sent", !.gen = g] \in CallRows
    BY <1>0 DEF CallRows
  <2>5. [c EXCEPT !.at = "sent", !.gen = g].what # ""
    BY <1>0, <1>1 DEF CallRows, ControlBase, CallsHold
  <2> QED BY <1>0, <2>2, <2>3, <2>4, <2>5, CallTypes
<1>2. CASE c.at = "reread"
  <2>1. calls' = [calls EXCEPT !["decide"] = Idle] /\ Ask("call")
    BY <1>2 DEF Resumed
  <2>2. "call" \in Callers
    BY DEF Callers
  <2> QED BY <1>0, <2>1, <2>2, CallTypes, IdleIsCall, AskTypes DEF ControlBase
<1>3. CASE c.at \notin {"wait", "reread"}
  <2>1. UNCHANGED <<calls, polls>>
    BY <1>3 DEF Resumed
  <2> QED BY <1>0, <2>1 DEF ControlBase, ControlTypeOK, CallsHold
<1> QED BY <1>1, <1>2, <1>3

\* Bounded counting of periods.
LEMMA OlderType == \A n \in 0..Lapses : Older(n) \in 0..Lapses
BY ControlAssumption DEF Older

LEMMA ControlInitBase == ControlInit => ControlBase
<1> SUFFICES ASSUME ControlInit
             PROVE  ControlBase
  OBVIOUS
<1>1. rows \in ApprovalRows /\ view \in ApprovalRows
  BY DEF ControlInit, ApprovalRows, States
<1>2. lease \in Leases /\ gen \in 0..MaxGen /\ age \in 0..Lapses
  BY ControlAssumption DEF ControlInit, Unknown, Leases
<1>3. calls \in [Ops -> CallRows] /\ CallsHold
  BY IdleIsCall DEF ControlInit, CallsHold
<1>4. failed \in 0..MaxFailures /\ clicks \in 0..MaxClicks
  BY ControlAssumption DEF ControlInit
<1> QED BY <1>1, <1>2, <1>3, <1>4 DEF ControlInit, ControlBase, ControlTypeOK

LEMMA PollTypes ==
    ASSUME ControlBase,
           \/ pollSession \/ SessionFails \/ poll \/ maybeHeartbeat \/ PeriodEnds \/ Disarm
           \/ \E p \in polls : pollApprovals(p) \/ PollFails(p)
    PROVE  ControlBase'
<1> USE DEF ControlBase, serverVars, shownVars, pollVars, callVars
<1>0. UNCHANGED calls
  BY DEF pollSession, SessionFails, poll, maybeHeartbeat, PeriodEnds, Disarm, pollApprovals, PollFails
<1>1. CallsHold'
  BY <1>0 DEF CallsHold
<1>2. CASE pollSession \/ SessionFails
  <2>1. failed' \in 0..MaxFailures
    BY <1>2, FailsType DEF pollSession, SessionFails, ControlTypeOK
  <2> QED BY <1>1, <1>2, <2>1 DEF pollSession, SessionFails, ControlTypeOK
<1>3. CASE poll
  <2>1. "poll" \in Callers
    BY DEF Callers
  <2>2. /\ polls' \subseteq [by : Callers, rows : ApprovalRows]
        /\ reads' \subseteq [by : Callers, lease : Leases]
    BY <1>3, <2>1, AskTypes DEF poll
  <2> QED BY <1>1, <1>3, <2>2 DEF poll, ControlTypeOK
<1>4. CASE maybeHeartbeat
  <2>1. age' \in 0..Lapses
    BY <1>4, ControlNumbers DEF maybeHeartbeat, HeartbeatServed
  <2>2. failed' \in 0..MaxFailures
    BY <1>4, FailsType DEF maybeHeartbeat, ControlTypeOK
  <2> QED BY <1>1, <1>4, <2>1, <2>2 DEF maybeHeartbeat, ControlTypeOK
<1>5. CASE PeriodEnds
  <2>1. age' \in 0..Lapses
    BY <1>5, OlderType DEF PeriodEnds, ControlTypeOK
  <2>2. lease' \in Leases
    BY <1>5, OlderType DEF PeriodEnds, ControlTypeOK, Leases
  <2> QED BY <1>1, <1>5, <2>1, <2>2 DEF PeriodEnds, ControlTypeOK
<1>6. CASE Disarm
  BY <1>1, <1>6 DEF Disarm, ControlTypeOK
<1>7. ASSUME NEW p \in polls, pollApprovals(p)
      PROVE  ControlBase'
  <2>1. p.rows \in ApprovalRows
    BY DEF ControlTypeOK
  <2>2. pended' \in [Approvals -> {"no", "shown", "dropped"}]
    <3>1. \A a \in Approvals : Standing(a, p.rows[a]) \in {"no", "shown", "dropped"}
      BY DEF Standing, ControlTypeOK
    <3> QED BY <1>7, <3>1 DEF pollApprovals
  <2>3. projected' \subseteq Approvals
    BY <1>7 DEF pollApprovals, projectTerminalStep, Projected, ControlTypeOK
  <2> QED BY <1>1, <1>7, <2>1, <2>2, <2>3 DEF pollApprovals, ControlTypeOK
<1>8. ASSUME NEW p \in polls, PollFails(p)
      PROVE  ControlBase'
  BY <1>1, <1>8, FailsType DEF PollFails, ControlTypeOK
<1> QED BY <1>2, <1>3, <1>4, <1>5, <1>6, <1>7, <1>8

LEMMA ReadTypes ==
    ASSUME ControlBase, NEW r \in reads, pollLease(r) \/ ReadFails(r)
    PROVE  ControlBase'
<1> USE DEF ControlBase, serverVars, shownVars
<1>1. PICK l \in Leases : Returned(r, l)
  BY DEF pollLease, ReadFails, ControlTypeOK
<1>2. failed' \in 0..MaxFailures
  BY FailsType DEF pollLease, ReadFails, ControlTypeOK
<1>3. /\ calls' \in [Ops -> CallRows] /\ CallsHold'
      /\ polls' \subseteq [by : Callers, rows : ApprovalRows]
  BY <1>1, ResumedTypes DEF Returned, ControlTypeOK, CallsHold
<1> QED BY <1>1, <1>2, <1>3 DEF Returned, ControlTypeOK

LEMMA NewCall ==
    ASSUME ControlBase, NEW op \in Ops, NEW id \in Approvals \cup {NoOne}, NEW at \in {"sent", "wait"},
           NEW what \in {"approved", "denied", "revoke", "takeover", "resume"},
           Call(op, what, id, at)
    PROVE  /\ calls' \in [Ops -> CallRows] /\ CallsHold'
           /\ notice' \in {"none", "failed", "moved"} /\ clicks' \in 0..MaxClicks
<1> DEFINE c == [at |-> at, what |-> what, id |-> id, gen |-> lease.gen, reply |-> ""]
<1>1. c \in CallRows /\ c.what # ""
  BY DEF ControlBase, ControlTypeOK, Leases, CallRows
<1>2. calls' = [calls EXCEPT ![op] = c]
  BY DEF Call
<1>3. notice' \in {"none", "failed", "moved"}
  BY DEF Call, ControlBase, ControlTypeOK
<1>4. clicks' \in 0..MaxClicks
  <2>1. clicks < MaxClicks /\ clicks' = clicks + 1
    BY DEF Call
  <2>2. clicks \in Nat /\ MaxClicks \in Nat
    BY ControlNumbers DEF ControlBase
  <2> QED BY <2>1, <2>2
<1> QED BY <1>1, <1>2, <1>3, <1>4, CallTypes

LEMMA ClickTypes == ASSUME ControlBase, Click PROVE ControlBase'
<1> USE DEF ControlBase, serverVars, shownVars, pollVars
<1>1. ASSUME NEW a \in Approvals, revokeApproval(a)
      PROVE  ControlBase'
  <2>1. CASE Call("revoke", "revoke", a, "sent")
    <3>1. /\ calls' \in [Ops -> CallRows] /\ CallsHold'
          /\ notice' \in {"none", "failed", "moved"} /\ clicks' \in 0..MaxClicks
      BY <2>1, NewCall DEF Ops
    <3> QED BY <1>1, <3>1 DEF revokeApproval, ControlTypeOK
  <2>2. CASE UNCHANGED <<calls, notice, clicks>>
    BY <1>1, <2>2 DEF revokeApproval, ControlTypeOK, CallsHold
  <2> QED BY <1>1, <2>1, <2>2 DEF revokeApproval
<1>2. ASSUME NEW a \in Approvals, NEW v \in {"approved", "denied"}, decide(a, v)
      PROVE  ControlBase'
  <2>1. PICK at \in {"sent", "wait"} : Call("decide", v, a, at)
    BY <1>2 DEF decide
  <2>2. /\ calls' \in [Ops -> CallRows] /\ CallsHold'
        /\ notice' \in {"none", "failed", "moved"} /\ clicks' \in 0..MaxClicks
    BY <2>1, NewCall DEF Ops
  <2>3. reads' \subseteq [by : Callers, lease : Leases]
    <3>1. "decide" \in Callers
      BY DEF Callers
    <3> QED BY <1>2, <3>1, AskTypes DEF decide, ControlTypeOK
  <2> QED BY <1>2, <2>2, <2>3 DEF decide, ControlTypeOK
<1>3. ASSUME NEW what \in {"takeover", "resume"}, leaseMutate(what)
      PROVE  ControlBase'
  <2>1. CASE Call("lease", what, NoOne, "sent")
    <3>1. /\ calls' \in [Ops -> CallRows] /\ CallsHold'
          /\ notice' \in {"none", "failed", "moved"} /\ clicks' \in 0..MaxClicks
      BY <2>1, NewCall DEF Ops
    <3> QED BY <1>3, <3>1 DEF leaseMutate, ControlTypeOK
  <2>2. CASE UNCHANGED <<calls, notice, clicks>>
    BY <1>3, <2>2 DEF leaseMutate, ControlTypeOK, CallsHold
  <2> QED BY <1>3, <2>1, <2>2 DEF leaseMutate
<1> QED BY <1>1, <1>2, <1>3 DEF Click

LEMMA AnswerTypes ==
    ASSUME ControlBase, NEW op \in Ops, NEW reply \in {"ok", "settled", "stale", "lost"},
           calls[op].at # "idle", Answer(op, reply)
    PROVE  calls' \in [Ops -> CallRows] /\ CallsHold'
<1> DEFINE c == [calls[op] EXCEPT !.at = "answered", !.reply = reply]
<1>1. calls[op] \in CallRows
  BY DEF ControlBase, ControlTypeOK
<1>2. c \in CallRows
  BY <1>1 DEF CallRows
<1>3. c.what # ""
  BY <1>1 DEF CallRows, ControlBase, CallsHold
<1>4. calls' = [calls EXCEPT ![op] = c]
  BY DEF Answer, ControlBase, ControlTypeOK
<1> QED BY <1>2, <1>3, <1>4, CallTypes

LEMMA PostTypes ==
    ASSUME ControlBase, NEW op \in Ops, ServeCall(op) \/ Lose(op) \/ Finish(op)
    PROVE  ControlBase'
<1> USE DEF ControlBase, serverVars, shownVars, pollVars, Page
<1>0. calls[op] \in CallRows
  BY DEF ControlTypeOK
<1>1. CASE ServeCall(op)
  <2>1. calls[op].at = "sent" /\ calls[op].what # ""
    BY <1>1 DEF ServeCall, CallsHold
  <2>2. ReplyTo(calls[op]) \in {"ok", "settled", "stale"}
    BY <1>0, <2>1, ReplyTypes
  <2>3. calls' \in [Ops -> CallRows] /\ CallsHold'
    BY <1>1, <2>1, <2>2, AnswerTypes DEF ServeCall
  <2>4. /\ rows' \in ApprovalRows /\ gen' \in 0..MaxGen
        /\ holder' \in {"agent", "me", "other"} /\ age' \in 0..Lapses
    <3>1. CASE Effect(calls[op])
      BY <1>0, <2>1, <3>1, ServedTypes
    <3>2. CASE UNCHANGED serverVars
      BY <3>2 DEF ControlTypeOK
    <3> QED BY <1>1, <3>1, <3>2 DEF ServeCall
  <2> QED BY <1>1, <2>3, <2>4 DEF ServeCall, ControlTypeOK
<1>2. CASE Lose(op)
  <2>1. calls' \in [Ops -> CallRows] /\ CallsHold'
    BY <1>2, AnswerTypes DEF Lose
  <2> QED BY <1>2, <2>1, FailsType DEF Lose, ControlTypeOK
<1>3. CASE Finish(op)
  <2>0. "decide" \in Callers /\ "call" \in Callers
    BY DEF Callers
  <2>1. CASE op = "decide" /\ calls[op].reply = "stale"
    <3> DEFINE c == [calls[op] EXCEPT !.at = "reread"]
    <3>1. calls' = [calls EXCEPT ![op].at = "reread"] /\ AskLease("decide")
          /\ UNCHANGED <<notice, polls>>
      BY <1>3, <2>1 DEF Finish
    <3>2. calls' = [calls EXCEPT ![op] = c]
      BY <3>1 DEF ControlTypeOK
    <3>3. c \in CallRows
      BY <1>0 DEF CallRows
    <3>4. c.what # ""
      BY <1>0, <1>3 DEF CallRows, CallsHold, Finish
    <3>5. calls' \in [Ops -> CallRows] /\ CallsHold'
      BY <3>2, <3>3, <3>4, CallTypes
    <3>6. reads' \subseteq [by : Callers, lease : Leases]
      BY <2>0, <3>1, AskTypes
    <3> QED BY <1>3, <3>1, <3>5, <3>6 DEF Finish, ControlTypeOK
  <2>2. CASE ~(op = "decide" /\ calls[op].reply = "stale")
    <3>1. calls' = [calls EXCEPT ![op] = Idle]
      BY <1>3, <2>2 DEF Finish
    <3>2. calls' \in [Ops -> CallRows] /\ CallsHold'
      BY <3>1, CallTypes, IdleIsCall
    <3>3. /\ reads' \subseteq [by : Callers, lease : Leases]
          /\ polls' \subseteq [by : Callers, rows : ApprovalRows]
          /\ notice' \in {"none", "failed", "moved"}
      BY <1>3, <2>0, <2>2, AskTypes DEF Finish, ControlTypeOK, Told
    <3> QED BY <1>3, <3>2, <3>3 DEF Finish, ControlTypeOK
  <2> QED BY <2>1, <2>2
<1> QED BY <1>1, <1>2, <1>3

LEMMA ControlBaseStep == ControlBase /\ [ControlNext]_controlVars => ControlBase'
<1> SUFFICES ASSUME ControlBase, [ControlNext]_controlVars
             PROVE  ControlBase'
  OBVIOUS
<1>1. CASE External
  <2>1. /\ rows' \in ApprovalRows /\ gen' \in 0..MaxGen
        /\ holder' \in {"agent", "me", "other"} /\ age' \in 0..Lapses
    BY <1>1, ServiceTypes DEF External, ControlBase
  <2> QED BY <1>1, <2>1 DEF External, shownVars, pollVars, callVars, ControlBase, ControlTypeOK,
             CallsHold
<1>2. CASE UNCHANGED controlVars
  BY <1>2 DEF controlVars, serverVars, shownVars, pollVars, callVars, ControlBase, ControlTypeOK,
     CallsHold
<1> QED BY <1>1, <1>2, PollTypes, ReadTypes, ClickTypes, PostTypes DEF ControlNext

THEOREM ControlTypeCorrect == ControlSpec => []ControlTypeOK
<1>1. ControlBase => ControlTypeOK
  BY DEF ControlBase
<1> QED BY <1>1, ControlInitBase, ControlBaseStep, PTL DEF ControlSpec

-----------------------------------------------------------------------------
(* Approvals: every settled request that stayed on the page has its step.  *)

\* A request remembered as shown is on the page, undecided or settled.
ShownIsViewed ==
    \A a \in Approvals : pended[a] = "shown" => view[a] \in Settled \cup {"pending"}

LEMMA ProjectionStep ==
    ControlBase /\ ShownIsViewed /\ SettledIsProjected /\ [ControlNext]_controlVars =>
        ShownIsViewed' /\ SettledIsProjected'
<1> SUFFICES ASSUME ControlBase, ShownIsViewed, SettledIsProjected, [ControlNext]_controlVars
             PROVE  ShownIsViewed' /\ SettledIsProjected'
  OBVIOUS
<1>1. CASE UNCHANGED shownVars
  BY <1>1 DEF shownVars, ShownIsViewed, SettledIsProjected
<1>2. ASSUME NEW p \in polls, pollApprovals(p)
      PROVE  ShownIsViewed' /\ SettledIsProjected'
  <2>1. /\ view' = p.rows /\ projected' = projected \cup Projected(p.rows)
        /\ \A a \in Approvals : pended'[a] = Standing(a, p.rows[a])
    BY <1>2 DEF pollApprovals, projectTerminalStep
  <2> SUFFICES ASSUME NEW a \in Approvals, pended'[a] = "shown"
               PROVE  /\ view'[a] \in Settled \cup {"pending"}
                      /\ view'[a] \in Settled => a \in projected'
    BY DEF ShownIsViewed, SettledIsProjected
  <2>2. p.rows[a] \in States
    BY DEF ControlBase, ControlTypeOK, ApprovalRows
  <2>3. CASE p.rows[a] = "pending"
    BY <2>1, <2>3 DEF Settled
  <2>4. CASE p.rows[a] \in Settled
    <3>1. pended[a] = "shown"
      BY <2>1, <2>4 DEF Standing, Settled
    <3>2. a \in Projected(p.rows) \/ a \in projected
      BY <2>4, <3>1 DEF ShownIsViewed, SettledIsProjected, Projected
    <3> QED BY <2>1, <2>4, <3>2
  <2>5. CASE p.rows[a] \in {"none", "approved"}
    BY <2>1, <2>5 DEF Standing
  <2> QED BY <2>2, <2>3, <2>4, <2>5 DEF States, Settled
<1>3. CASE External \/ pollSession \/ SessionFails \/ poll \/ maybeHeartbeat \/ PeriodEnds \/ Disarm
           \/ Click
  BY <1>1, <1>3 DEF External, pollSession, SessionFails, poll, maybeHeartbeat, PeriodEnds, Disarm,
     Click, revokeApproval, decide, leaseMutate
<1>4. CASE (\E p \in polls : PollFails(p)) \/ (\E r \in reads : pollLease(r) \/ ReadFails(r))
  BY <1>1, <1>4 DEF PollFails, pollLease, ReadFails, Returned
<1>5. CASE \E op \in Ops : ServeCall(op) \/ Lose(op) \/ Finish(op)
  BY <1>1, <1>5 DEF ServeCall, Lose, Finish, Page
<1>6. CASE UNCHANGED controlVars
  BY <1>1, <1>6 DEF controlVars
<1> QED BY <1>2, <1>3, <1>4, <1>5, <1>6 DEF ControlNext

\* A settled request that has stayed on the page since it was shown as pending
\* has its terminal step, in whatever order overlapping answers arrive.
THEOREM StepsAreProjected == ControlSpec => []SettledIsProjected
<1>1. ControlInit => ShownIsViewed /\ SettledIsProjected
  BY DEF ControlInit, ShownIsViewed, SettledIsProjected
<1> QED BY <1>1, ControlInitBase, ControlBaseStep, ProjectionStep, PTL DEF ControlSpec

-----------------------------------------------------------------------------
(* The lease: a hold is kept.                                              *)

\* Periods the hold may be old when its heartbeat is due.
DueAt == IF Beat > 1 THEN Beat ELSE 1

\* The age of a hold a period can end with, when its heartbeat was sent.
Fresh == age <= DueAt - 1 + failed

\* The age of this device's hold is what its failed requests explain.
AgeExplained ==
    holder = "me" /\ device = "known" =>
        /\ age <= DueAt + failed
        /\ polled /\ ~polling => Fresh

\* An age of this device's hold has been the same since the period began, so
\* that every answer under way shows it; and the period's own answer, when it
\* has come, is on the page.
AgeShown ==
    holder = "me" /\ age > 0 =>
        /\ \A r \in reads : r.lease = Current
        /\ polling /\ device = "known" /\ (\A r \in reads : r.by # "poll") =>
              lease = Current \/ Fresh

NewIsYoung == device = "asked" => age = 0

HoldInv == ControlBase /\ AgeExplained /\ AgeShown /\ NewIsYoung

\* A step that leaves hold, page and answers alone keeps it.
LEMMA HoldUntouched ==
    ASSUME HoldInv, UNCHANGED <<gen, holder, age, device, polled, polling, lease>>,
           \A r \in reads' : r \in reads \/ r.lease = Current,
           \A r \in reads : r.by = "poll" => r \in reads',
           failed' = failed \/ failed' = failed + 1
    PROVE  AgeExplained' /\ AgeShown' /\ NewIsYoung'
<1>0. age \in Nat /\ DueAt \in Nat /\ DueAt' = DueAt /\ Current' = Current
  BY ControlNumbers DEF HoldInv, ControlBase, DueAt, Current
<1>b. age \in Int /\ DueAt \in Int /\ failed \in Int
  BY <1>0, ControlNumbers DEF HoldInv, ControlBase
<1>a. age' = age /\ holder' = holder /\ device' = device /\ polled' = polled /\ polling' = polling
  OBVIOUS
<1>1. Fresh => Fresh'
  <2> SUFFICES ASSUME age <= DueAt - 1 + failed
               PROVE  age <= DueAt - 1 + failed'
    BY <1>0, <1>a DEF Fresh
  <2> QED BY <1>b
<1>2. AgeExplained'
  <2> SUFFICES ASSUME holder = "me", device = "known"
               PROVE  /\ age' <= DueAt' + failed'
                      /\ polled /\ ~polling => Fresh'
    BY <1>a DEF AgeExplained
  <2>1. age <= DueAt + failed /\ (polled /\ ~polling => Fresh)
    BY DEF HoldInv, AgeExplained
  <2>2. age <= DueAt + failed'
    BY <1>b, <2>1
  <2>3. age' <= DueAt' + failed'
    BY <1>0, <1>a, <2>2
  <2> QED BY <1>1, <2>1, <2>3
<1>3. NewIsYoung'
  BY DEF HoldInv, NewIsYoung
<1>4. ASSUME holder = "me", age > 0
      PROVE  /\ \A r \in reads' : r.lease = Current
             /\ polling /\ device = "known" /\ (\A r \in reads' : r.by # "poll") =>
                   lease = Current \/ Fresh'
  <2>1. \A r \in reads : r.lease = Current
    BY <1>4 DEF HoldInv, AgeShown
  <2>2. (\A r \in reads' : r.by # "poll") => (\A r \in reads : r.by # "poll")
    OBVIOUS
  <2> QED BY <1>1, <1>4, <2>1, <2>2 DEF HoldInv, AgeShown
<1>5. AgeShown'
  BY <1>0, <1>4 DEF AgeShown
<1> QED BY <1>2, <1>3, <1>5

\* A change of hands begins a hold of age 0, or ends it.
LEMMA YoungHold ==
    ASSUME HoldInv, age' = 0, failed' = failed \/ failed' = failed + 1
    PROVE  AgeExplained' /\ AgeShown' /\ NewIsYoung'
<1>1. DueAt' \in Nat \ {0} /\ failed' \in Nat
  BY ControlNumbers, ControlAssumption DEF HoldInv, ControlBase, DueAt
<1>2. PICK d \in Nat \ {0}, f \in Nat : d = DueAt' /\ f = failed'
  BY <1>1
<1>3. 0 <= d - 1 + f /\ 0 <= d + f /\ ~(0 > 0)
  OBVIOUS
<1>4. age' <= DueAt' - 1 + failed'
  BY <1>2, <1>3
<1>5. Fresh' /\ age' <= DueAt' + failed' /\ ~(age' > 0)
  BY <1>2, <1>3, <1>4 DEF Fresh
<1> QED BY <1>5 DEF AgeExplained, AgeShown, NewIsYoung

\* A period's poll asks for the lease: its answer is under way.
LEMMA PollAsks == ASSUME HoldInv, poll PROVE AgeExplained' /\ AgeShown' /\ NewIsYoung'
<1>1. /\ UNCHANGED <<gen, holder, age, device, lease, failed>> /\ polling' = TRUE
      /\ reads' = reads \cup {[by |-> "poll", lease |-> Current]}
  BY DEF poll, AskLease, serverVars
<1>2. Current' = Current
  BY <1>1 DEF Current
<1>3. AgeExplained'
  BY <1>1 DEF HoldInv, AgeExplained, Fresh
<1>4. \E r \in reads' : r.by = "poll"
  <2>1. PICK own : own = [by |-> "poll", lease |-> Current]
    OBVIOUS
  <2>2. own \in reads' /\ own.by = "poll"
    BY <1>1, <2>1
  <2> QED BY <2>2
<1>6. holder' = "me" /\ age' > 0 => \A r \in reads' : r.lease = Current
  BY <1>1 DEF HoldInv, AgeShown
<1>7. AgeShown'
  BY <1>2, <1>4, <1>6 DEF AgeShown
<1>5. NewIsYoung'
  BY <1>1 DEF HoldInv, NewIsYoung
<1> QED BY <1>3, <1>5, <1>7

\* A read that is lost is a failure more, which explains a period more.
LEMMA FailureExplains ==
    ASSUME HoldInv, holder = "me", device = "known", age' = age, failed' = failed + 1
    PROVE  Fresh'
<1>1. age \in Int /\ DueAt \in Int /\ failed \in Int
  BY ControlNumbers DEF HoldInv, ControlBase, DueAt
<1>2. age <= DueAt + failed
  BY DEF HoldInv, AgeExplained
<1>3. age <= DueAt - 1 + (failed + 1)
  BY <1>1, <1>2
<1> QED BY <1>3 DEF Fresh

LEMMA LeaseAnswers ==
    ASSUME HoldInv, NEW r \in reads, pollLease(r) \/ ReadFails(r)
    PROVE  AgeExplained' /\ AgeShown' /\ NewIsYoung'
<1>1. /\ UNCHANGED <<gen, holder, age, device, polled, polling>>
      /\ reads' = reads \ {r}
  BY DEF pollLease, ReadFails, Returned, serverVars
<1>2. \/ lease' = r.lease /\ failed' = failed
      \/ lease' = lease /\ failed' = failed + 1
  BY DEF pollLease, ReadFails, Returned, Fails
<1>3. Current' = Current
  BY <1>1 DEF Current
<1>4. CASE lease' = lease /\ r.by # "poll"
  <2>1. \A s \in reads : s.by = "poll" => s \in reads'
    BY <1>1, <1>4
  <2> QED BY <1>1, <1>2, <1>4, <2>1, HoldUntouched
<1>5. CASE lease' = r.lease /\ failed' = failed
  <2>1. AgeExplained'
    BY <1>1, <1>5 DEF HoldInv, AgeExplained, Fresh
  <2>2. AgeShown'
    BY <1>1, <1>3, <1>5 DEF HoldInv, AgeShown
  <2>3. NewIsYoung'
    BY <1>1 DEF HoldInv, NewIsYoung
  <2> QED BY <2>1, <2>2, <2>3
<1>6. CASE lease' = lease /\ failed' = failed + 1
  <2>1. holder = "me" /\ device = "known" => Fresh'
    BY <1>1, <1>6, FailureExplains
  <2>2. AgeExplained'
    <3>1. holder = "me" /\ device = "known" => age' <= DueAt + failed'
      <4>1. age \in Int /\ DueAt \in Int /\ failed \in Int
        BY ControlNumbers DEF HoldInv, ControlBase, DueAt
      <4> QED BY <1>1, <1>6, <4>1 DEF HoldInv, AgeExplained
    <3> QED BY <1>1, <2>1, <3>1 DEF AgeExplained
  <2>3. AgeShown'
    BY <1>1, <1>3, <1>6, <2>1 DEF HoldInv, AgeShown
  <2>4. NewIsYoung'
    BY <1>1 DEF HoldInv, NewIsYoung
  <2> QED BY <2>2, <2>3, <2>4
<1> QED BY <1>2, <1>4, <1>5, <1>6

\* The poll is over: a hold that is due was refreshed, unless the request or
\* the read of the lease before it failed.
LEMMA HeartbeatBeats == ASSUME HoldInv, maybeHeartbeat PROVE AgeExplained' /\ AgeShown' /\ NewIsYoung'
<1>0. /\ UNCHANGED <<gen, holder, device, lease, reads, polled>> /\ polling /\ polling' = FALSE
      /\ \A r \in reads : r.by # "poll"
  BY DEF maybeHeartbeat, Own
<1>1. age \in Nat /\ DueAt \in Nat \ {0} /\ failed \in Nat /\ Beat \in Nat
  BY ControlNumbers DEF HoldInv, ControlBase, DueAt
<1>2. CASE age' = 0 /\ failed' = failed
  BY <1>2, YoungHold
<1>3. ASSUME age' = age, age > 0, failed' = failed \/ failed' = failed + 1,
             holder = "me" /\ device = "known" => Fresh'
      PROVE  AgeExplained' /\ AgeShown' /\ NewIsYoung'
  <2>1. AgeExplained'
    <3>1. holder = "me" /\ device = "known" => age' <= DueAt + failed'
      BY <1>1, <1>3 DEF HoldInv, AgeExplained
    <3> QED BY <1>0, <1>3, <3>1 DEF AgeExplained
  <2>2. AgeShown'
    <3>1. Current' = Current
      BY <1>0, <1>3 DEF Current
    <3> QED BY <1>0, <1>3, <3>1 DEF HoldInv, AgeShown
  <2>3. NewIsYoung'
    BY <1>0, <1>3 DEF HoldInv, NewIsYoung
  <2> QED BY <2>1, <2>2, <2>3
<1>4. CASE age' = age /\ failed' = failed + 1
  <2>1. CASE age = 0
    BY <1>4, <2>1, YoungHold
  <2>2. CASE age > 0
    BY <1>3, <1>4, <2>2, FailureExplains
  <2> QED BY <1>1, <2>1, <2>2
<1>5. CASE age' = age /\ failed' = failed /\ (~HeartbeatDue \/ ~(holder = "me" /\ gen = lease.gen))
  <2>1. CASE age = 0
    BY <1>5, <2>1, YoungHold
  <2>2. CASE age > 0
    <3>1. ASSUME holder = "me", device = "known"
          PROVE  Fresh
      <4>1. lease = Current \/ Fresh
        BY <1>0, <2>2, <3>1 DEF HoldInv, AgeShown
      <4>2. ASSUME lease = Current
            PROVE  Fresh
        <5>1. lease.known /\ lease.gen = gen /\ lease.holder = "me" /\ lease.age = age
          BY <3>1, <4>2 DEF Current
        <5>2. ~(lease.age >= Beat)
          BY <1>5, <3>1, <5>1 DEF HeartbeatDue, Mine
        <5>3. age < Beat
          BY <1>1, <5>1, <5>2
        <5>4. age <= DueAt - 1
          BY <1>1, <5>3 DEF DueAt
        <5>5. age <= DueAt - 1 + failed
          BY <1>1, <5>4
        <5> QED BY <5>5 DEF Fresh
      <4> QED BY <4>1, <4>2
    <3>2. Fresh => Fresh'
      BY <1>5 DEF Fresh
    <3> QED BY <1>3, <1>5, <2>2, <3>1, <3>2
  <2> QED BY <1>1, <2>1, <2>2
<1>6. \/ age' = 0 /\ failed' = failed
      \/ age' = age /\ failed' = failed + 1
      \/ age' = age /\ failed' = failed /\ (~HeartbeatDue \/ ~(holder = "me" /\ gen = lease.gen))
  BY DEF maybeHeartbeat, HeartbeatServed, Fails
<1> QED BY <1>2, <1>4, <1>5, <1>6

\* A period more: no answer is under way, and the poll of the period is over.
LEMMA PeriodAges == ASSUME HoldInv, PeriodEnds PROVE AgeExplained' /\ AgeShown' /\ NewIsYoung'
<1>1. /\ UNCHANGED <<gen, holder, device, failed, polling, reads>>
      /\ polled /\ ~polling /\ polled' = FALSE /\ reads = {} /\ device # "asked"
      /\ age' = IF holder = "me" THEN Older(age) ELSE age
  BY DEF PeriodEnds
<1>2. age \in Nat /\ DueAt \in Nat \ {0} /\ failed \in Nat
  BY ControlNumbers DEF HoldInv, ControlBase, DueAt
<1>3. ASSUME holder = "me", device = "known"
      PROVE  age' <= DueAt + failed
  <2>1. age <= DueAt - 1 + failed
    BY <1>1, <1>3 DEF HoldInv, AgeExplained, Fresh
  <2>2. age' = age \/ age' = age + 1
    BY <1>1 DEF Older
  <2> QED BY <1>2, <2>1, <2>2
<1>4. AgeExplained'
  BY <1>1, <1>3 DEF AgeExplained
<1>5. AgeShown'
  BY <1>1 DEF AgeShown
<1>6. NewIsYoung'
  BY <1>1 DEF NewIsYoung
<1> QED BY <1>4, <1>5, <1>6

LEMMA HoldStep == HoldInv /\ [ControlNext]_controlVars => HoldInv'
<1> SUFFICES ASSUME HoldInv, [ControlNext]_controlVars
             PROVE  AgeExplained' /\ AgeShown' /\ NewIsYoung'
  BY ControlBaseStep DEF HoldInv
<1> USE DEF serverVars, shownVars, pollVars, callVars
<1>1. CASE UNCHANGED <<gen, holder, age, device, polled, polling, lease, failed, reads>>
  BY <1>1, HoldUntouched
<1>2. ASSUME NEW by \in {"call", "decide"}, AskLease(by),
             UNCHANGED <<gen, holder, age, device, polled, polling, lease, failed>>
      PROVE  AgeExplained' /\ AgeShown' /\ NewIsYoung'
  <2>1. \A r \in reads' : r \in reads \/ r.lease = Current
    BY <1>2 DEF AskLease
  <2>2. \A r \in reads : r.by = "poll" => r \in reads'
    BY <1>2 DEF AskLease
  <2> QED BY <1>2, <2>1, <2>2, HoldUntouched
<1>3. CASE External
  <2>1. CASE OtherTakes \/ OtherReleases \/ Lapse
    BY <1>3, <2>1, YoungHold DEF External, OtherTakes, OtherReleases, Lapse, HandTo
  <2>2. CASE \E a \in Approvals : Propose(a) \/ Elsewhere(a)
    BY <1>1, <1>3, <2>2 DEF External, Propose, Elsewhere
  <2> QED BY <1>3, <2>1, <2>2 DEF External
<1>4. CASE pollSession \/ SessionFails
  <2>1. age = 0
    BY <1>4 DEF pollSession, SessionFails, HoldInv, NewIsYoung
  <2> QED BY <1>4, <2>1, YoungHold DEF pollSession, SessionFails, Fails
<1>5. CASE Disarm \/ \E p \in polls : pollApprovals(p)
  BY <1>1, <1>5 DEF Disarm, pollApprovals
<1>6. ASSUME UNCHANGED <<gen, holder, age, device, polled, polling, lease, reads>>, Fails
      PROVE  AgeExplained' /\ AgeShown' /\ NewIsYoung'
  BY <1>6, HoldUntouched DEF Fails
<1>7. CASE \E p \in polls : PollFails(p)
  BY <1>6, <1>7 DEF PollFails
<1>8. CASE Click
  <2>1. CASE \E a \in Approvals, v \in {"approved", "denied"} : decide(a, v)
    <3>1. UNCHANGED <<gen, holder, age, device, polled, polling, lease, failed>>
      BY <2>1 DEF decide
    <3>2. AskLease("decide") \/ UNCHANGED reads
      BY <2>1 DEF decide
    <3> QED BY <1>1, <1>2, <3>1, <3>2
  <2>2. CASE (\E a \in Approvals : revokeApproval(a))
             \/ (\E what \in {"takeover", "resume"} : leaseMutate(what))
    BY <1>1, <2>2 DEF revokeApproval, leaseMutate
  <2> QED BY <1>8, <2>1, <2>2 DEF Click
<1>9. ASSUME NEW op \in Ops, ServeCall(op)
      PROVE  AgeExplained' /\ AgeShown' /\ NewIsYoung'
  <2>1. UNCHANGED <<device, polled, polling, lease, failed, reads>>
    BY <1>9 DEF ServeCall, Page
  <2>2. calls[op] \in CallRows /\ calls[op].what # ""
    BY <1>9 DEF ServeCall, HoldInv, ControlBase, ControlTypeOK, CallsHold
  <2>3. UNCHANGED <<gen, holder, age>> \/ age' = 0
    BY <1>9, <2>2 DEF ServeCall, Effect, HandTo, CallRows
  <2> QED BY <1>1, <2>1, <2>3, YoungHold
<1>10. ASSUME NEW op \in Ops, Lose(op)
       PROVE  AgeExplained' /\ AgeShown' /\ NewIsYoung'
  BY <1>6, <1>10 DEF Lose, Page
<1>11. ASSUME NEW op \in Ops, Finish(op)
       PROVE  AgeExplained' /\ AgeShown' /\ NewIsYoung'
  <2>1. UNCHANGED <<gen, holder, age, device, polled, polling, lease, failed>>
    BY <1>11 DEF Finish
  <2>2. AskLease("decide") \/ AskLease("call") \/ UNCHANGED reads
    BY <1>11 DEF Finish
  <2> QED BY <1>1, <1>2, <2>1, <2>2
<1>12. CASE UNCHANGED controlVars
  BY <1>1, <1>12 DEF controlVars
<1> QED BY <1>3, <1>4, <1>5, <1>7, <1>8, <1>9, <1>10, <1>11, <1>12, PollAsks, LeaseAnswers,
        HeartbeatBeats, PeriodAges DEF ControlNext

\* The heartbeat has room for every request that may fail: it is due, and the
\* failures are used up, before the service's deadline.
HeartbeatMargin == Beat + MaxFailures < Lapses /\ 1 + MaxFailures < Lapses

\* While this device holds the computer with the page open, the hold does not
\* lapse, whatever MaxFailures requests fail, if the heartbeat has room for
\* as many.
THEOREM HoldIsKept == ASSUME HeartbeatMargin PROVE ControlSpec => []HoldKept
<1>1. ControlInit => HoldInv
  <2> SUFFICES ASSUME ControlInit
               PROVE  HoldInv
    OBVIOUS
  <2>1. age = 0 /\ failed = 0 /\ DueAt \in Nat \ {0}
    BY ControlAssumption DEF ControlInit, DueAt
  <2>2. Fresh /\ age <= DueAt + failed
    BY <2>1 DEF Fresh
  <2> QED BY <2>1, <2>2, ControlInitBase DEF HoldInv, AgeExplained, AgeShown, NewIsYoung
<1>2. HoldInv => HoldKept
  <2> SUFFICES ASSUME HoldInv, holder = "me", device # "failed"
               PROVE  age < Lapses
    BY DEF HoldKept
  <2>1. age \in Nat /\ failed \in 0..MaxFailures /\ MaxFailures \in Nat /\ Lapses \in Nat
        /\ Beat \in Nat
    BY ControlNumbers DEF HoldInv, ControlBase
  <2>2. CASE device = "asked"
    BY <2>1, <2>2 DEF HoldInv, NewIsYoung, HeartbeatMargin
  <2>3. CASE device = "known"
    <3>1. age <= DueAt + failed
      BY <2>3 DEF HoldInv, AgeExplained
    <3> QED BY <2>1, <3>1 DEF DueAt, HeartbeatMargin
  <2> QED BY <2>2, <2>3 DEF HoldInv, ControlBase, ControlTypeOK
<1> QED BY <1>1, <1>2, HoldStep, PTL DEF ControlSpec
=============================================================================
