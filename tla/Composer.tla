------------------------------ MODULE Composer ------------------------------
(***************************************************************************)
(* The composer of apps/poc/public/app.js: one text box and one list of    *)
(* attachments shared by all conversations, a draft remembered for each,   *)
(* attachments read in the background, and a submission that keeps its     *)
(* request key until the service has answered.                             *)
(*                                                                         *)
(* The service is external: it admits a message once per request key and   *)
(* may refuse one it has not admitted; requests and answers may be lost,   *)
(* and a session that has ended refuses any request until the user pairs   *)
(* the page again, which keeps its drafts.  mind is history: what the user *)
(* has put in each draft.                                                  *)
(***************************************************************************)
EXTENDS Integers, FiniteSets

CONSTANTS
    Convs,      \* conversation ids
    Texts,      \* texts a user may type
    Files,      \* attachments
    MaxKeys,    \* bound on the request keys made
    MaxFaults   \* requests, answers and reads that may fail, sessions that end

ASSUME ComposerAssumption ==
    MaxKeys \in Nat /\ MaxFaults \in Nat /\ "new" \notin Convs

VARIABLES
    selected,   \* the conversation on view, "new" for none
    box,        \* the prompt and the attachments on view
    drafts,     \* Map of drafts by conversation or "new"
    removed,    \* attachments "Undo" would bring back
    sending,    \* the submission under way
    upload,     \* the files being read, and for which draft
    convs, log, \* the service: conversations, messages admitted
    made,       \* request keys made
    mind,       \* history: each draft as the user made it,
    turn,       \* how many messages it has sent,
    lapsed,     \* how many of its attempts met a session that had ended,
    overrun,    \* and the drafts an acceptance cleared from the box unsent
    faults

serverVars == <<convs, log>>
historyVars == <<mind, turn, lapsed, overrun>>
vars == <<selected, box, drafts, removed, sending, upload, serverVars, made, historyVars, faults>>

Keys == Convs \cup {"new"}
Empty == [text |-> "", files |-> {}]
NoPending == [key |-> 0, text |-> "", files |-> {}, conv |-> "new"]
NoDraft == [text |-> "", files |-> {}, pending |-> NoPending]
Idle == [at |-> "idle", key |-> "new", reply |-> "", conv |-> "new"]
NoUpload == [on |-> FALSE, key |-> "new", file |-> ""]
Nothing == [kept |-> FALSE, files |-> {}]

Init ==
    /\ convs \in {{}, {CHOOSE c \in Convs : TRUE}}
    /\ selected = "new" /\ box = Empty /\ drafts = [k \in Keys |-> NoDraft]
    /\ removed = [k \in Keys |-> Nothing] /\ sending = Idle /\ upload = NoUpload
    /\ log = {} /\ made = 0 /\ faults = 0
    /\ mind = [k \in Keys |-> Empty] /\ turn = [k \in Keys |-> 0]
    /\ lapsed = [k \in Keys |-> 0] /\ overrun = {}

Fault == faults < MaxFaults /\ faults' = faults + 1

Pending(k) == drafts[k].pending # NoPending
Submitting == sending.at # "idle"

\* render: what enables the box, the attachments and their buttons.
PromptEnabled == ~Submitting /\ ~Pending(selected)
UploadEnabled == ~Submitting /\ ~upload.on /\ ~Pending(selected)

(***************************************************************************)
(* Drafts.                                                                 *)
(***************************************************************************)
\* rememberDraft, in drafts d: Object.assign on the draft, its pending kept.
Remembered(d) == [d EXCEPT ![selected].text = box.text, ![selected].files = box.files]

Show(d, k) == selected' = k /\ box' = [text |-> d[k].text, files |-> d[k].files]

\* selectConversation, and newTask for "new".
selectConversation(k) ==
    /\ k \in convs \cup {"new"} /\ k # selected
    /\ drafts' = Remembered(drafts)
    /\ Show(drafts', k)
    /\ UNCHANGED <<removed, sending, upload, serverVars, made, historyVars, faults>>

Type(t) ==
    /\ PromptEnabled /\ box.text # t
    /\ box' = [box EXCEPT !.text = t]
    /\ mind' = [mind EXCEPT ![selected].text = t]
    /\ UNCHANGED <<selected, drafts, removed, sending, upload, serverVars, made, turn, lapsed, overrun, faults>>

\* "/new" clears the draft it is typed in and the draft of a new chat.
SlashNew ==
    /\ PromptEnabled /\ ~upload.on
    /\ drafts' = [Remembered(drafts) EXCEPT ![selected].text = "", ![selected].files = {},
                                            !["new"] = NoDraft]
    /\ removed' = [removed EXCEPT !["new"] = Nothing]
    /\ Show(drafts', "new")
    /\ mind' = [k \in Keys |-> IF k \in {selected, "new"} THEN Empty ELSE mind[k]]
    /\ turn' = [turn EXCEPT !["new"] = @ + IF Pending("new") THEN 1 ELSE 0]
    /\ UNCHANGED <<sending, upload, serverVars, made, lapsed, overrun, faults>>

(***************************************************************************)
(* Attachments.                                                            *)
(***************************************************************************)
\* validateAttachments: no two of one name; the limits on size and number are
\* left out.
Valid(files, f) == f \notin files

attachFiles(f) ==
    /\ UploadEnabled /\ Valid(box.files, f)
    /\ drafts' = Remembered(drafts)
    /\ upload' = [on |-> TRUE, key |-> selected, file |-> f]
    /\ UNCHANGED <<selected, box, removed, sending, serverVars, made, historyVars, faults>>

\* Bug: the file joins whatever draft is on view when its bytes are read.
AttachedOnView ==
    /\ upload.on /\ upload' = NoUpload
    /\ drafts' = [drafts EXCEPT ![selected].files = @ \cup {upload.file}]
    /\ box' = [box EXCEPT !.files = @ \cup {upload.file}]
    /\ mind' = [mind EXCEPT ![upload.key].files = @ \cup {upload.file}]
    /\ UNCHANGED <<selected, removed, sending, serverVars, made, turn, lapsed, overrun, faults>>

\* The bytes are read: the file joins the draft it was chosen for, which may
\* no longer be the one on view.
Attached ==
    LET k == upload.key
        files == drafts[k].files \cup {upload.file}
    IN /\ upload.on /\ upload' = NoUpload
       /\ IF Pending(k) \/ ~Valid(drafts[k].files, upload.file)
          THEN UNCHANGED <<box, drafts, removed, mind>>
          ELSE /\ drafts' = [drafts EXCEPT ![k].files = files]
               /\ removed' = [removed EXCEPT ![k] = Nothing]
               /\ box' = IF selected = k THEN [box EXCEPT !.files = files] ELSE box
               /\ mind' = [mind EXCEPT ![k].files = @ \cup {upload.file}]
       /\ UNCHANGED <<selected, sending, serverVars, made, turn, lapsed, overrun, faults>>

AttachFails == /\ Fault /\ upload.on /\ upload' = NoUpload
               /\ UNCHANGED <<selected, box, drafts, removed, sending, serverVars, made, historyVars>>

SetFiles(files) ==
    /\ box' = [box EXCEPT !.files = files]
    /\ drafts' = [drafts EXCEPT ![selected].text = box.text, ![selected].files = files]
    /\ mind' = [mind EXCEPT ![selected].files = files]
    /\ UNCHANGED <<selected, sending, upload, serverVars, made, turn, lapsed, overrun, faults>>

\* One chip's x, or "Remove all".
RemoveAttachments(keep) ==
    /\ UploadEnabled /\ keep \subseteq box.files /\ keep # box.files
    /\ removed' = [removed EXCEPT ![selected] = [kept |-> TRUE, files |-> box.files]]
    /\ SetFiles(keep)

UndoAttachments ==
    /\ UploadEnabled /\ removed[selected].kept
    /\ removed' = [removed EXCEPT ![selected] = Nothing]
    /\ SetFiles(removed[selected].files)

(***************************************************************************)
(* Submission.                                                             *)
(***************************************************************************)
\* Bug: every attempt makes a request key.
PendingAnew(d) == [key |-> made + 1, text |-> box.text, files |-> box.files, conv |-> selected]

\* draft.pending ??= : a retry sends what the first attempt sent.
PendingOf(d) == IF d.pending # NoPending THEN d.pending
                ELSE [key |-> made + 1, text |-> box.text, files |-> box.files, conv |-> selected]

Submit ==
    /\ box.text # "" /\ ~Submitting /\ ~upload.on
    /\ LET d == Remembered(drafts)
           p == PendingOf(d[selected])
       IN /\ p.key <= MaxKeys
          /\ drafts' = [d EXCEPT ![selected].pending = p]
          /\ made' = IF p.key > made THEN p.key ELSE made
    /\ sending' = [Idle EXCEPT !.at = "sent", !.key = selected]
    /\ UNCHANGED <<selected, box, removed, upload, serverVars, historyVars, faults>>

Sent == drafts[sending.key].pending
Admitted(p) == {m \in log : m.key = p.key}

\* External: the service admits the message, or finds it admitted.
Admit ==
    /\ sending.at = "sent"
    /\ \E c \in IF Sent.conv # "new" THEN {Sent.conv} ELSE Convs \ convs :
          IF Admitted(Sent) = {}
          THEN /\ log' = log \cup {[key |-> Sent.key, conv |-> c, from |-> sending.key,
                                    turn |-> turn[sending.key], lapsed |-> lapsed[sending.key],
                                    text |-> Sent.text, files |-> Sent.files]}
               /\ convs' = convs \cup {c}
               /\ sending' = [sending EXCEPT !.at = "answered", !.reply = "ok", !.conv = c]
          ELSE /\ UNCHANGED serverVars
               /\ sending' = [sending EXCEPT !.at = "answered", !.reply = "ok",
                                             !.conv = (CHOOSE m \in Admitted(Sent) : TRUE).conv]
    /\ UNCHANGED <<selected, box, drafts, removed, upload, made, historyVars, faults>>

\* External: a status below 500; a message already admitted is found first.
Refuse ==
    /\ Fault /\ sending.at = "sent"
    /\ Admitted(Sent) = {}
    /\ sending' = [sending EXCEPT !.at = "answered", !.reply = "refused"]
    /\ UNCHANGED <<selected, box, drafts, removed, upload, serverVars, made, historyVars>>

\* External: the session has ended.  The status, 401, is looked at before the
\* message is, and the page takes it like any other below 500.
SessionEnds ==
    /\ Fault /\ sending.at = "sent"
    /\ sending' = [sending EXCEPT !.at = "answered", !.reply = "refused"]
    /\ lapsed' = [lapsed EXCEPT ![sending.key] = @ + 1]
    /\ UNCHANGED <<selected, box, drafts, removed, upload, serverVars, made, mind, turn, overrun>>

\* A request or an answer is lost, or the service is unavailable.
Lose ==
    /\ Fault /\ sending.at \in {"sent", "answered"}
    /\ sending' = [sending EXCEPT !.at = "answered", !.reply = "lost"]
    /\ UNCHANGED <<selected, box, drafts, removed, upload, serverVars, made, historyVars>>

\* Accepted: the draft is done with; the box is cleared if it still shows it.
\* The submission goes on until the refresh it awaits.
Accepted ==
    LET k == sending.key IN
    /\ sending.at = "answered" /\ sending.reply = "ok"
    /\ drafts' = [drafts EXCEPT ![k] = NoDraft]
    /\ removed' = [removed EXCEPT ![k] = Nothing]
    /\ IF selected = k THEN selected' = sending.conv /\ box' = Empty
                       ELSE UNCHANGED <<selected, box>>
    /\ sending' = [sending EXCEPT !.at = "refreshing"]
    /\ mind' = [mind EXCEPT ![k] = Empty] /\ turn' = [turn EXCEPT ![k] = @ + 1]
    /\ overrun' = IF selected = k /\ mind'[sending.conv] # Empty
                  THEN overrun \cup {sending.conv} ELSE overrun
    /\ UNCHANGED <<upload, serverVars, made, lapsed, faults>>

\* Refused: the key is dropped with the attempt, whatever an earlier attempt
\* may have done with it.  Lost: it is kept.
Rejected ==
    /\ sending.at = "answered" /\ sending.reply # "ok"
    /\ drafts' = IF sending.reply = "refused"
                 THEN [drafts EXCEPT ![sending.key].pending = NoPending] ELSE drafts
    /\ sending' = Idle
    /\ UNCHANGED <<selected, box, removed, upload, serverVars, made, historyVars, faults>>

Refreshed == /\ sending.at = "refreshing" /\ sending' = Idle
             /\ UNCHANGED <<selected, box, drafts, removed, upload, serverVars, made,
                            historyVars, faults>>

Next ==
    \/ \E k \in Keys : selectConversation(k)
    \/ \E t \in Texts \cup {""} : Type(t)
    \/ \E f \in Files : attachFiles(f)
    \/ \E keep \in SUBSET Files : RemoveAttachments(keep)
    \/ SlashNew \/ Attached \/ AttachFails \/ UndoAttachments
    \/ Submit \/ Admit \/ Refuse \/ SessionEnds \/ Lose \/ Accepted \/ Rejected \/ Refreshed

Spec == Init /\ [][Next]_vars

-----------------------------------------------------------------------------
(***************************************************************************)
(* Properties.                                                             *)
(***************************************************************************)
Bodies == [text : Texts \cup {""}, files : SUBSET Files]

\* Every variable keeps its type.
ComposerTypeOK ==
    /\ selected \in Keys /\ convs \subseteq Convs /\ box \in Bodies
    /\ \A k \in Keys :
          /\ mind[k] \in Bodies /\ turn[k] \in Nat /\ lapsed[k] \in Nat
          /\ [text |-> drafts[k].text, files |-> drafts[k].files] \in Bodies
          /\ drafts[k].pending.key \in 0..MaxKeys /\ drafts[k].pending.conv \in Keys
          /\ removed[k].kept \in BOOLEAN /\ removed[k].files \subseteq Files
    /\ sending.at \in {"idle", "sent", "answered", "refreshing"} /\ sending.key \in Keys
    /\ upload.on \in BOOLEAN /\ upload.key \in Keys /\ upload.file \in Files \cup {""}
    /\ overrun \subseteq Convs
    /\ made \in 0..MaxKeys /\ faults \in 0..MaxFaults

Shown(k) == IF selected = k THEN box ELSE [text |-> drafts[k].text, files |-> drafts[k].files]

\* Nothing the user wrote or attached is lost or turns up in another chat, by
\* switching, a slow attachment, a refused, lost or accepted message
\* (rememberDraft, selectConversation, attachFiles, onsubmit), but for a draft
\* begun in a conversation whose first message the page still retries.
DraftIntact == \A k \in Keys \ overrun : Shown(k) = mind[k]

\* Each conversation owns its draft: the same without the exception.
DraftOwned == \A k \in Keys : Shown(k) = mind[k]

\* What Retry will send is what the user sees, and all of it: nothing is
\* typed, attached or removed under a pending message (but for the same).
RetrySendsDraft ==
    \A k \in Keys \ overrun : Pending(k) =>
        [text |-> drafts[k].pending.text, files |-> drafts[k].pending.files] = mind[k]

\* A draft the user sends is admitted once, however often it is sent again
\* until the page learns that it was (onsubmit keeps draft.pending), but for
\* the attempts after one that met a session that had ended: the page then
\* gives up the key an earlier attempt was sent with.
SentOnce ==
    \A m, n \in log : m.from = n.from /\ m.turn = n.turn /\ m.lapsed = n.lapsed => m = n

\* "Retry sends the same message once", whatever the retries meet.
RetrySendsOnce ==
    \A m, n \in log : /\ m.from = n.from /\ m.turn = n.turn
                      /\ m.text = n.text /\ m.files = n.files
                      => m = n
=============================================================================
