--------------------------- MODULE ComposerProofs ---------------------------
(***************************************************************************)
(* The composer loses no draft, and a message is admitted once but for a   *)
(* session that ends on its way, for every value of the constants.         *)
(***************************************************************************)
EXTENDS Composer, TLAPS

Prompts  == Texts \cup {""}
Pendings == [key : Nat, text : Prompts, files : SUBSET Files, conv : Keys]
Drafts   == [text : Prompts, files : SUBSET Files, pending : Pendings]
Messages == [key : Nat, conv : Convs, from : Keys, turn : Nat, lapsed : Nat,
             text : Prompts, files : SUBSET Files]

\* The types of what a submission depends on.
BoxTypes ==
    /\ selected \in Keys /\ box \in Bodies
    /\ drafts \in [Keys -> Drafts]
    /\ removed \in [Keys -> [kept : BOOLEAN, files : SUBSET Files]]
    /\ upload \in [on : BOOLEAN, key : Keys, file : Files \cup {""}]
    /\ upload.on => upload.file \in Files

SendTypes ==
    /\ sending \in [at : {"idle", "sent", "answered", "refreshing"}, key : Keys,
                    reply : {"", "ok", "refused", "lost"}, conv : Keys]
    /\ turn \in [Keys -> Nat] /\ lapsed \in [Keys -> Nat] /\ made \in Nat
    /\ log \subseteq Messages

\* A pending message has a key that was made, and a submission a pending message.
KeysAreMade ==
    /\ \A k \in Keys : Pending(k) => drafts[k].pending.key \in 1..made
    /\ sending.at \in {"sent", "answered"} => Pending(sending.key)

\* What was admitted of the turn a draft is in, since a session last ended on
\* it, bears the key it still waits with; what was refused was not admitted
\* since then.
CurrentIsPending ==
    /\ \A m \in log : /\ m.key \in 1..made
                      /\ m.turn <= turn[m.from] /\ m.lapsed <= lapsed[m.from]
                      /\ m.turn = turn[m.from] /\ m.lapsed = lapsed[m.from]
                           => m.key = drafts[m.from].pending.key
    /\ (sending.at = "answered" /\ sending.reply = "refused")
         => \A m \in log : m.from = sending.key
               => m.turn # turn[sending.key] \/ m.lapsed # lapsed[sending.key]

OnceInv == BoxTypes /\ SendTypes /\ KeysAreMade /\ CurrentIsPending /\ SentOnce

PendingsKept == \A k \in Keys : drafts'[k].pending = drafts[k].pending

-----------------------------------------------------------------------------
(* Types: what each step makes of the drafts, the box and the submission.    *)

\* rememberDraft touches the text and the files only.
LEMMA RememberedKeeps ==
    ASSUME BoxTypes
    PROVE  /\ Remembered(drafts) \in [Keys -> Drafts]
           /\ \A k \in Keys : Remembered(drafts)[k].pending = drafts[k].pending
<1>1. /\ drafts \in [Keys -> Drafts] /\ selected \in Keys
      /\ box.text \in Prompts /\ box.files \in SUBSET Files
  BY DEF BoxTypes, Bodies, Prompts
<1> QED BY <1>1 DEF Remembered, Drafts

\* What is written, attached, shown or taken off waits under no other key for it.
LEMMA EditTypes ==
    ASSUME BoxTypes,
           \/ \E k \in Keys : selectConversation(k)
           \/ \E t \in Texts \cup {""} : Type(t)
           \/ \E f \in Files : attachFiles(f)
           \/ Attached \/ AttachFails
           \/ \E keep \in SUBSET Files : RemoveAttachments(keep)
           \/ UndoAttachments
    PROVE  BoxTypes' /\ PendingsKept /\ UNCHANGED <<sending, log, convs, turn, lapsed, made>>
<1>1. UNCHANGED <<sending, log, convs, turn, lapsed, made>>
  BY DEF selectConversation, Type, attachFiles, Attached, AttachFails, RemoveAttachments,
         UndoAttachments, SetFiles, serverVars, historyVars
<1>2. ASSUME NEW k \in Keys, selectConversation(k)
      PROVE  BoxTypes' /\ PendingsKept
  <2>1. drafts' \in [Keys -> Drafts] /\ PendingsKept
    BY <1>2, RememberedKeeps DEF selectConversation, PendingsKept
  <2>2. box' \in Bodies /\ selected' \in Keys
    BY <1>2, <2>1 DEF selectConversation, Show, Drafts, Bodies, Prompts
  <2> QED BY <1>2, <2>1, <2>2 DEF selectConversation, BoxTypes
<1>3. ASSUME NEW t \in Texts \cup {""}, Type(t)
      PROVE  BoxTypes' /\ PendingsKept
  BY <1>3 DEF Type, BoxTypes, Bodies, PendingsKept
<1>4. ASSUME NEW f \in Files, attachFiles(f)
      PROVE  BoxTypes' /\ PendingsKept
  <2>1. drafts' \in [Keys -> Drafts] /\ PendingsKept
    BY <1>4, RememberedKeeps DEF attachFiles, PendingsKept
  <2> QED BY <1>4, <2>1 DEF attachFiles, BoxTypes
<1>5. ASSUME Attached
      PROVE  BoxTypes' /\ PendingsKept
  <2> DEFINE k == upload.key
             files == drafts[k].files \cup {upload.file}
  <2>1. k \in Keys /\ files \in SUBSET Files
    BY <1>5 DEF Attached, BoxTypes, Drafts
  <2>2. CASE UNCHANGED <<box, drafts, removed, mind>>
    BY <1>5, <2>2 DEF Attached, BoxTypes, NoUpload, Keys, PendingsKept
  <2>3. CASE /\ drafts' = [drafts EXCEPT ![k].files = files]
             /\ removed' = [removed EXCEPT ![k] = Nothing]
             /\ box' = IF selected = k THEN [box EXCEPT !.files = files] ELSE box
    <3>1. drafts' \in [Keys -> Drafts] /\ PendingsKept
      <4>1. drafts \in [Keys -> Drafts]
        BY DEF BoxTypes
      <4> HIDE DEF k, files
      <4> QED BY <2>1, <2>3, <4>1 DEF Drafts, PendingsKept
    <3>2. box' \in Bodies /\ removed' \in [Keys -> [kept : BOOLEAN, files : SUBSET Files]]
      BY <2>1, <2>3 DEF BoxTypes, Bodies, Nothing
    <3> QED BY <1>5, <3>1, <3>2 DEF Attached, BoxTypes, NoUpload, Keys
  <2> QED BY <1>5, <2>2, <2>3 DEF Attached
<1>6. ASSUME AttachFails
      PROVE  BoxTypes' /\ PendingsKept
  BY <1>6 DEF AttachFails, BoxTypes, NoUpload, Keys, PendingsKept
<1>7. ASSUME NEW files \in SUBSET Files, SetFiles(files),
             removed' \in [Keys -> [kept : BOOLEAN, files : SUBSET Files]]
      PROVE  BoxTypes' /\ PendingsKept
  <2>1. drafts' = [drafts EXCEPT ![selected].text = box.text, ![selected].files = files]
    BY <1>7 DEF SetFiles
  <2>2. drafts' \in [Keys -> Drafts] /\ PendingsKept
    <3>1. drafts \in [Keys -> Drafts] /\ selected \in Keys /\ box.text \in Prompts
      BY DEF BoxTypes, Bodies, Prompts
    <3> QED BY <1>7, <2>1, <3>1 DEF PendingsKept, Drafts
  <2> QED BY <1>7, <2>2 DEF SetFiles, BoxTypes, Bodies
<1>8. ASSUME NEW keep \in SUBSET Files, RemoveAttachments(keep)
      PROVE  BoxTypes' /\ PendingsKept
  BY <1>7, <1>8 DEF RemoveAttachments, BoxTypes, Bodies
<1>9. ASSUME UndoAttachments
      PROVE  BoxTypes' /\ PendingsKept
  BY <1>7, <1>9 DEF UndoAttachments, Nothing, BoxTypes
<1> QED BY <1>1, <1>2, <1>3, <1>4, <1>5, <1>6, <1>8, <1>9

\* "/new" is not typed while a submission is under way; what the new chat waits
\* with is given up, and a turn of it with that.
LEMMA SlashNewTypes ==
    ASSUME BoxTypes, SendTypes, SlashNew
    PROVE  /\ BoxTypes' /\ SendTypes' /\ UNCHANGED lapsed
           /\ drafts'["new"] = NoDraft
           /\ \A k \in Keys \ {"new"} : drafts'[k].pending = drafts[k].pending
           /\ \A k \in Keys \ {"new"} : turn'[k] = turn[k]
           /\ drafts["new"].pending # NoPending => turn'["new"] = turn["new"] + 1
           /\ drafts["new"].pending = NoPending => turn'["new"] = turn["new"]
<1>1. /\ sending.at = "idle" /\ UNCHANGED <<sending, log, convs, made, lapsed, upload>>
      /\ drafts' = [Remembered(drafts) EXCEPT ![selected].text = "", ![selected].files = {},
                                              !["new"] = NoDraft]
      /\ removed' = [removed EXCEPT !["new"] = Nothing]
      /\ turn' = [turn EXCEPT !["new"] = @ + IF Pending("new") THEN 1 ELSE 0]
      /\ selected' = "new"
  BY DEF SlashNew, PromptEnabled, Submitting, serverVars, Show
<1>2. "new" \in Keys /\ NoDraft \in Drafts
  BY DEF Keys, NoDraft, NoPending, Drafts, Pendings, Prompts
<1>3. /\ drafts' \in [Keys -> Drafts] /\ drafts'["new"] = NoDraft
      /\ \A k \in Keys \ {"new"} : drafts'[k].pending = drafts[k].pending
  <2> DEFINE d == Remembered(drafts)
  <2>1. d \in [Keys -> Drafts] /\ selected \in Keys
        /\ \A k \in Keys : d[k].pending = drafts[k].pending
    BY RememberedKeeps DEF BoxTypes
  <2> HIDE DEF d
  <2>2. "" \in Prompts /\ {} \in SUBSET Files
    BY DEF Prompts
  <2> DEFINE e == [d EXCEPT ![selected].text = "", ![selected].files = {}]
  <2>3. e \in [Keys -> Drafts] /\ \A k \in Keys : e[k].pending = d[k].pending
    BY <2>1, <2>2 DEF Drafts
  <2>4. drafts' = [e EXCEPT !["new"] = NoDraft]
    BY <1>1 DEF d
  <2> HIDE DEF e
  <2> QED BY <1>2, <2>1, <2>3, <2>4
<1>4. BoxTypes'
  <2>1. box' \in Bodies
    BY <1>2, <1>3 DEF SlashNew, Show, Drafts, Bodies, Prompts
  <2>2. removed' \in [Keys -> [kept : BOOLEAN, files : SUBSET Files]]
    BY <1>1, <1>2 DEF BoxTypes, Nothing
  <2> QED BY <1>1, <1>2, <1>3, <2>1, <2>2 DEF BoxTypes
<1>5. /\ SendTypes'
      /\ \A k \in Keys \ {"new"} : turn'[k] = turn[k]
      /\ drafts["new"].pending # NoPending => turn'["new"] = turn["new"] + 1
      /\ drafts["new"].pending = NoPending => turn'["new"] = turn["new"]
  <2> DEFINE given == IF drafts["new"].pending # NoPending THEN 1 ELSE 0
  <2>1. given \in Nat
    OBVIOUS
  <2>2. turn' = [turn EXCEPT !["new"] = turn["new"] + given]
    BY <1>1 DEF Pending
  <2> HIDE DEF given
  <2>3. turn \in [Keys -> Nat]
    BY DEF SendTypes
  <2>4. turn["new"] + given \in Nat
    BY <1>2, <2>1, <2>3
  <2>5. turn' \in [Keys -> Nat] /\ turn'["new"] = turn["new"] + given
        /\ \A k \in Keys \ {"new"} : turn'[k] = turn[k]
    BY <1>2, <2>2, <2>3, <2>4
  <2>6. turn["new"] + 0 = turn["new"]
    BY <1>2, <2>3
  <2>7. SendTypes'
    BY <1>1, <2>5 DEF SendTypes
  <2> QED BY <2>5, <2>6, <2>7 DEF given
<1> QED BY <1>1, <1>3, <1>4, <1>5

\* A submission, and what becomes of it, keeps the types, whatever is refused.
LEMMA SubmitTypes ==
    ASSUME BoxTypes, SendTypes, Submit
    PROVE  BoxTypes' /\ SendTypes'
<1> DEFINE d == Remembered(drafts)
           p == PendingOf(d[selected])
           n == made + 1
<1>1. /\ d \in [Keys -> Drafts] /\ selected \in Keys /\ made \in Nat
      /\ box.text \in Prompts /\ box.files \in SUBSET Files
  BY RememberedKeeps DEF BoxTypes, SendTypes, Bodies, Prompts
<1>2. /\ drafts' = [d EXCEPT ![selected].pending = p]
      /\ made' = IF p.key > made THEN p.key ELSE made
      /\ sending' = [Idle EXCEPT !.at = "sent", !.key = selected]
      /\ UNCHANGED <<selected, box, removed, upload, log, turn, lapsed>>
  BY DEF Submit, serverVars, historyVars
<1>3. \/ p = d[selected].pending
      \/ p = [key |-> n, text |-> box.text, files |-> box.files, conv |-> selected]
  BY DEF PendingOf
<1> HIDE DEF d, p
<1>4. n \in Nat
  BY <1>1
<1> HIDE DEF n
<1>5. p \in Pendings /\ p.key \in Nat
  BY <1>1, <1>3, <1>4 DEF Drafts, Pendings
<1>6. drafts' \in [Keys -> Drafts] /\ made' \in Nat
  BY <1>1, <1>2, <1>5 DEF Drafts
<1>7. sending' = [at |-> "sent", key |-> selected, reply |-> "", conv |-> "new"]
  BY <1>2 DEF Idle
<1>8. sending' \in [at : {"idle", "sent", "answered", "refreshing"}, key : Keys,
                    reply : {"", "ok", "refused", "lost"}, conv : Keys]
  BY <1>1, <1>7 DEF Keys
<1>9. BoxTypes'
  BY <1>2, <1>6 DEF BoxTypes
<1> QED BY <1>2, <1>6, <1>8, <1>9 DEF SendTypes

\* A counter of the drafts goes up.
LEMMA OneMore ==
    ASSUME NEW f \in [Keys -> Nat], NEW k \in Keys
    PROVE  [f EXCEPT ![k] = f[k] + 1] \in [Keys -> Nat]
<1>1. f[k] + 1 \in Nat
  BY f[k] \in Nat
<1> QED BY <1>1

LEMMA AnswerTypes ==
    ASSUME BoxTypes, SendTypes, Admit \/ Refuse \/ SessionEnds \/ Lose \/ Refreshed
    PROVE  BoxTypes' /\ SendTypes'
<1> DEFINE Sendings == [at : {"idle", "sent", "answered", "refreshing"}, key : Keys,
                        reply : {"", "ok", "refused", "lost"}, conv : Keys]
<1>1. /\ BoxTypes' /\ UNCHANGED <<made, turn>> /\ sending.key \in Keys
      /\ UNCHANGED lapsed \/ lapsed' = [lapsed EXCEPT ![sending.key] = lapsed[sending.key] + 1]
  BY DEF Admit, Refuse, SessionEnds, Lose, Refreshed, historyVars, BoxTypes, SendTypes
<1>2. lapsed' \in [Keys -> Nat]
  <2>1. lapsed \in [Keys -> Nat]
    BY DEF SendTypes
  <2>2. [lapsed EXCEPT ![sending.key] = lapsed[sending.key] + 1] \in [Keys -> Nat]
    BY <1>1, <2>1, OneMore
  <2> QED BY <1>1, <2>1, <2>2
<1>3. ASSUME Refuse \/ SessionEnds \/ Lose \/ Refreshed
      PROVE  SendTypes'
  <2>1. /\ UNCHANGED log
        /\ \/ sending' = [sending EXCEPT !.at = "answered", !.reply = "refused"]
           \/ sending' = [sending EXCEPT !.at = "answered", !.reply = "lost"]
           \/ sending' = Idle
    BY <1>3 DEF Refuse, SessionEnds, Lose, Refreshed, serverVars
  <2>2. sending' \in Sendings
    <3>1. Idle \in Sendings
      BY DEF Idle, Keys
    <3>2. sending \in Sendings
      BY DEF SendTypes
    <3> QED BY <2>1, <3>1, <3>2
  <2> QED BY <1>1, <1>2, <2>1, <2>2 DEF SendTypes
<1>4. ASSUME Admit
      PROVE  SendTypes'
  <2> DEFINE s == sending.key
  <2>1. drafts[s].pending \in Pendings /\ turn[s] \in Nat /\ lapsed[s] \in Nat
    BY <1>1 DEF BoxTypes, SendTypes, Drafts
  <2>2. PICK c \in IF Sent.conv # "new" THEN {Sent.conv} ELSE Convs \ convs :
          \/ /\ log' = log \cup {[key |-> Sent.key, conv |-> c, from |-> s, turn |-> turn[s],
                                  lapsed |-> lapsed[s], text |-> Sent.text, files |-> Sent.files]}
             /\ sending' = [sending EXCEPT !.at = "answered", !.reply = "ok", !.conv = c]
          \/ /\ Admitted(Sent) # {} /\ UNCHANGED log
             /\ sending' = [sending EXCEPT !.at = "answered", !.reply = "ok",
                                           !.conv = (CHOOSE m \in Admitted(Sent) : TRUE).conv]
    BY <1>4 DEF Admit, serverVars
  <2>3. c \in Convs
    BY <2>1, <2>2 DEF Sent, Pendings, Keys
  <2>4. CASE /\ log' = log \cup {[key |-> Sent.key, conv |-> c, from |-> s, turn |-> turn[s],
                                  lapsed |-> lapsed[s], text |-> Sent.text, files |-> Sent.files]}
             /\ sending' = [sending EXCEPT !.at = "answered", !.reply = "ok", !.conv = c]
    <3>1. sending' \in Sendings
      BY <2>3, <2>4 DEF SendTypes, Keys
    <3>2. [key |-> Sent.key, conv |-> c, from |-> s, turn |-> turn[s],
           lapsed |-> lapsed[s], text |-> Sent.text, files |-> Sent.files] \in Messages
      BY <1>1, <2>1, <2>3 DEF Messages, Sent, Pendings
    <3>3. log' \subseteq Messages
      BY <2>4, <3>2 DEF SendTypes
    <3> QED BY <1>1, <1>2, <3>1, <3>3 DEF SendTypes
  <2>5. CASE /\ Admitted(Sent) # {} /\ UNCHANGED log
             /\ sending' = [sending EXCEPT !.at = "answered", !.reply = "ok",
                                           !.conv = (CHOOSE m \in Admitted(Sent) : TRUE).conv]
    <3>1. (CHOOSE m \in Admitted(Sent) : TRUE) \in log
      BY <2>5 DEF Admitted
    <3>2. (CHOOSE m \in Admitted(Sent) : TRUE).conv \in Keys
      BY <3>1 DEF SendTypes, Messages, Keys
    <3>3. sending' \in Sendings
      BY <2>5, <3>2 DEF SendTypes
    <3> QED BY <1>1, <1>2, <2>5, <3>3 DEF SendTypes
  <2> QED BY <2>2, <2>4, <2>5
<1> QED BY <1>1, <1>3, <1>4

LEMMA AcceptedTypes ==
    ASSUME BoxTypes, SendTypes, Accepted
    PROVE  BoxTypes' /\ SendTypes'
<1>1. /\ sending.key \in Keys /\ sending.conv \in Keys /\ NoDraft \in Drafts
      /\ Empty \in Bodies
  BY DEF SendTypes, NoDraft, NoPending, Drafts, Pendings, Prompts, Keys, Empty, Bodies
<1>2. /\ drafts' = [drafts EXCEPT ![sending.key] = NoDraft]
      /\ turn' = [turn EXCEPT ![sending.key] = turn[sending.key] + 1]
      /\ removed' = [removed EXCEPT ![sending.key] = Nothing]
      /\ sending' = [sending EXCEPT !.at = "refreshing"]
      /\ UNCHANGED <<upload, log, made, lapsed>>
      /\ \/ selected' = sending.conv /\ box' = Empty
         \/ UNCHANGED <<selected, box>>
  BY DEF Accepted, serverVars
<1>3. drafts' \in [Keys -> Drafts] /\ selected' \in Keys /\ box' \in Bodies
  BY <1>1, <1>2 DEF BoxTypes
<1>4. removed' \in [Keys -> [kept : BOOLEAN, files : SUBSET Files]]
  BY <1>1, <1>2 DEF BoxTypes, Nothing
<1>5. turn \in [Keys -> Nat] /\ turn[sending.key] + 1 \in Nat
  <2>1. turn \in [Keys -> Nat]
    BY DEF SendTypes
  <2>2. turn[sending.key] \in Nat
    BY <1>1, <2>1
  <2> QED BY <2>1, <2>2
<1>6. turn' \in [Keys -> Nat]
  BY <1>1, <1>2, <1>5
<1>7. BoxTypes'
  BY <1>2, <1>3, <1>4 DEF BoxTypes
<1> QED BY <1>2, <1>6, <1>7 DEF SendTypes

LEMMA RejectedTypes ==
    ASSUME BoxTypes, SendTypes, Rejected
    PROVE  /\ BoxTypes' /\ SendTypes'
           /\ \A k \in Keys : /\ drafts'[k].text = drafts[k].text
                              /\ drafts'[k].files = drafts[k].files
<1>1. /\ sending.key \in Keys /\ drafts \in [Keys -> Drafts] /\ NoPending \in Pendings
  BY DEF BoxTypes, SendTypes, NoPending, Pendings, Prompts, Keys
<1>2. /\ sending' = Idle /\ UNCHANGED <<selected, box, removed, upload, log, made, turn, lapsed>>
      /\ drafts' \in {drafts, [drafts EXCEPT ![sending.key].pending = NoPending]}
  BY DEF Rejected, serverVars, historyVars
<1>3. /\ drafts' \in [Keys -> Drafts]
      /\ \A k \in Keys : /\ drafts'[k].text = drafts[k].text
                         /\ drafts'[k].files = drafts[k].files
  BY <1>1, <1>2 DEF Drafts
<1>4. BoxTypes' /\ SendTypes'
  BY <1>2, <1>3 DEF BoxTypes, SendTypes, Idle, Keys
<1> QED BY <1>3, <1>4

-----------------------------------------------------------------------------
(* Writing, attaching and looking around, in OnceInv.                        *)

\* A step of the user that sends nothing, and keeps what waits.
LEMMA WritingKeeps ==
    ASSUME OnceInv, BoxTypes', PendingsKept, UNCHANGED <<sending, log, convs, turn, lapsed, made>>
    PROVE  OnceInv'
<1>1. SendTypes'
  BY DEF OnceInv, SendTypes
<1>2. KeysAreMade'
  BY DEF OnceInv, SendTypes, KeysAreMade, Pending, PendingsKept
<1>3. CurrentIsPending'
  BY DEF OnceInv, SendTypes, CurrentIsPending, Admitted, Sent, PendingsKept, Messages
<1>4. SentOnce'
  BY DEF OnceInv, SentOnce
<1> QED BY <1>1, <1>2, <1>3, <1>4 DEF OnceInv

LEMMA EditIsWriting ==
    ASSUME OnceInv,
           \/ \E k \in Keys : selectConversation(k)
           \/ \E t \in Texts \cup {""} : Type(t)
           \/ \E f \in Files : attachFiles(f)
           \/ Attached \/ AttachFails
           \/ \E keep \in SUBSET Files : RemoveAttachments(keep)
           \/ UndoAttachments
    PROVE  OnceInv'
BY EditTypes, WritingKeeps DEF OnceInv

LEMMA NoPendingHasNoKey == NoPending.key = 0
BY DEF NoPending

LEMMA SlashNewKeeps ==
    ASSUME OnceInv, SlashNew
    PROVE  OnceInv'
<1>1. /\ sending.at = "idle" /\ UNCHANGED <<sending, log, convs, made, lapsed>>
  BY DEF SlashNew, PromptEnabled, Submitting, serverVars
<1>2. "new" \in Keys
  BY DEF Keys
<1>3. /\ drafts'["new"] = NoDraft /\ NoDraft.pending = NoPending
      /\ \A k \in Keys \ {"new"} : drafts'[k].pending = drafts[k].pending
  BY SlashNewTypes DEF OnceInv, NoDraft
<1>4. BoxTypes' /\ SendTypes'
  BY SlashNewTypes DEF OnceInv
<1>5. /\ \A k \in Keys \ {"new"} : turn'[k] = turn[k]
      /\ drafts["new"].pending # NoPending => turn'["new"] = turn["new"] + 1
      /\ drafts["new"].pending = NoPending => turn'["new"] = turn["new"]
  BY SlashNewTypes DEF OnceInv
<1>6. KeysAreMade'
  BY <1>1, <1>3 DEF OnceInv, KeysAreMade, Pending
<1>7. CurrentIsPending'
  <2>1. ASSUME NEW m \in log
        PROVE  /\ m.key \in 1..made
               /\ m.turn <= turn'[m.from] /\ m.lapsed <= lapsed[m.from]
               /\ m.turn = turn'[m.from] /\ m.lapsed = lapsed[m.from]
                    => m.key = drafts'[m.from].pending.key
    <3>1. /\ m.from \in Keys /\ m.turn \in Nat /\ turn[m.from] \in Nat /\ m.key \in 1..made
          /\ m.turn <= turn[m.from] /\ m.lapsed <= lapsed[m.from]
          /\ m.turn = turn[m.from] /\ m.lapsed = lapsed[m.from]
               => m.key = drafts[m.from].pending.key
      BY DEF OnceInv, SendTypes, CurrentIsPending, Messages
    <3>2. CASE m.from # "new"
      BY <1>3, <1>5, <3>1, <3>2
    <3>3. CASE m.from = "new" /\ drafts["new"].pending # NoPending
      BY <1>5, <3>1, <3>3
    <3>4. CASE m.from = "new" /\ drafts["new"].pending = NoPending
      <4>1. drafts["new"].pending.key = 0
        BY <3>4, NoPendingHasNoKey
      <4>2. turn'["new"] = turn["new"]
        BY <1>5, <3>4
      <4> QED BY <3>1, <3>4, <4>1, <4>2
    <3> QED BY <3>2, <3>3, <3>4
  <2> QED BY <1>1, <2>1 DEF CurrentIsPending
<1>8. SentOnce'
  BY <1>1 DEF OnceInv, SentOnce
<1> QED BY <1>4, <1>6, <1>7, <1>8 DEF OnceInv

-----------------------------------------------------------------------------
(* The submission.                                                         *)

\* A retry sends under the key of the first attempt; another draft has a new one.
LEMMA SubmitKeeps ==
    ASSUME OnceInv, Submit
    PROVE  OnceInv'
<1> DEFINE d == Remembered(drafts)
           p == PendingOf(d[selected])
<1>1. /\ d \in [Keys -> Drafts] /\ selected \in Keys /\ box \in Bodies
      /\ \A k \in Keys : d[k].pending = drafts[k].pending
  BY RememberedKeeps DEF OnceInv, BoxTypes
<1>2. /\ drafts' = [d EXCEPT ![selected].pending = p]
      /\ made' = IF p.key > made THEN p.key ELSE made
      /\ sending.at = "idle" /\ sending' = [Idle EXCEPT !.at = "sent", !.key = selected]
      /\ UNCHANGED <<selected, box, removed, upload, log, convs, turn, lapsed>>
  BY DEF Submit, Submitting, serverVars, historyVars
<1>3. made \in Nat
  BY DEF OnceInv, SendTypes
<1>4. /\ p \in Pendings /\ p.key \in 1..made' /\ p # NoPending
      /\ made' \in Nat /\ made <= made'
      /\ Pending(selected) => p = drafts[selected].pending
  <2>1. CASE drafts[selected].pending # NoPending
    <3>1. p = drafts[selected].pending
      BY <1>1, <2>1 DEF PendingOf
    <3>2. p.key \in 1..made /\ p \in Pendings
      BY <1>1, <2>1, <3>1 DEF OnceInv, KeysAreMade, Pending, Drafts
    <3> HIDE DEF p
    <3>3. made' = made
      BY <1>2, <1>3, <3>2
    <3> QED BY <1>3, <2>1, <3>1, <3>2, <3>3
  <2>2. CASE drafts[selected].pending = NoPending
    <3>1. p = [key |-> made + 1, text |-> box.text, files |-> box.files, conv |-> selected]
      BY <1>1, <2>2 DEF PendingOf
    <3>2. p.key = made + 1 /\ p \in Pendings
      <4> DEFINE n == made + 1
      <4>1. n \in Nat /\ box.text \in Prompts /\ box.files \in SUBSET Files
        <5>1. box.text \in Prompts /\ box.files \in SUBSET Files
          BY DEF OnceInv, BoxTypes, Bodies, Prompts
        <5> HIDE DEF d, p
        <5> QED BY <1>3, <5>1
      <4>2. p = [key |-> n, text |-> box.text, files |-> box.files, conv |-> selected]
        BY <3>1
      <4> HIDE DEF n, p
      <4>3. p.key = n /\ p \in Pendings
        BY <1>1, <4>1, <4>2 DEF Pendings
      <4> QED BY <4>3 DEF n
    <3>3. ~Pending(selected)
      BY <2>2 DEF Pending
    <3> HIDE DEF p
    <3>4. made' = made + 1
      BY <1>2, <1>3, <3>2
    <3>5. p # NoPending
      BY <1>3, <3>2, NoPendingHasNoKey
    <3> QED BY <1>3, <3>2, <3>3, <3>4, <3>5
  <2> QED BY <2>1, <2>2
<1> HIDE DEF d, p
<1>5. /\ drafts' \in [Keys -> Drafts] /\ drafts'[selected].pending = p
      /\ \A k \in Keys \ {selected} : drafts'[k].pending = drafts[k].pending
  BY <1>1, <1>2, <1>4 DEF Drafts
<1>6. BoxTypes'
  BY <1>2, <1>5 DEF OnceInv, BoxTypes
<1>7. sending' = [at |-> "sent", key |-> selected, reply |-> "", conv |-> "new"]
  BY <1>2 DEF Idle
<1>8. SendTypes'
  <2>1. sending' \in [at : {"idle", "sent", "answered", "refreshing"}, key : Keys,
                      reply : {"", "ok", "refused", "lost"}, conv : Keys]
    <3>1. "new" \in Keys
      BY DEF Keys
    <3> QED BY <1>1, <1>7, <3>1
  <2> QED BY <1>2, <1>4, <2>1 DEF OnceInv, SendTypes
<1>9. KeysAreMade'
  <2>1. ASSUME NEW k \in Keys, Pending(k)'
        PROVE  drafts'[k].pending.key \in 1..made'
    <3>1. CASE k = selected
      BY <1>4, <1>5, <3>1
    <3>2. CASE k # selected
      <4>1. drafts'[k].pending = drafts[k].pending /\ drafts[k].pending.key \in 1..made
        BY <1>5, <2>1, <3>2 DEF OnceInv, KeysAreMade, Pending
      <4> QED BY <1>3, <1>4, <4>1
    <3> QED BY <3>1, <3>2
  <2>2. Pending(selected)'
    BY <1>2, <1>4, <1>5 DEF Pending
  <2> QED BY <1>2, <1>7, <2>1, <2>2 DEF KeysAreMade
<1>10. CurrentIsPending'
  <2>1. ASSUME NEW m \in log
        PROVE  /\ m.key \in 1..made'
               /\ m.turn <= turn[m.from] /\ m.lapsed <= lapsed[m.from]
               /\ m.turn = turn[m.from] /\ m.lapsed = lapsed[m.from]
                    => m.key = drafts'[m.from].pending.key
    <3>1. /\ m.from \in Keys /\ m.key \in 1..made
          /\ m.turn <= turn[m.from] /\ m.lapsed <= lapsed[m.from]
          /\ m.turn = turn[m.from] /\ m.lapsed = lapsed[m.from]
               => m.key = drafts[m.from].pending.key
      BY DEF OnceInv, SendTypes, CurrentIsPending, Messages
    <3>2. m.key \in 1..made' /\ m.key # 0
      BY <1>3, <1>4, <3>1
    <3>3. CASE m.from # selected
      BY <1>5, <3>1, <3>2, <3>3
    <3>4. CASE m.from = selected
      <4>1. drafts[selected].pending = NoPending
              => m.turn # turn[selected] \/ m.lapsed # lapsed[selected]
        BY <3>1, <3>2, <3>4, NoPendingHasNoKey
      <4>2. drafts[selected].pending # NoPending
              => drafts'[selected].pending = drafts[selected].pending
        BY <1>4, <1>5 DEF Pending
      <4> QED BY <3>1, <3>2, <3>4, <4>1, <4>2
    <3> QED BY <3>3, <3>4
  <2> QED BY <1>2, <1>7, <2>1 DEF CurrentIsPending
<1>11. SentOnce'
  BY <1>2 DEF OnceInv, SentOnce
<1> QED BY <1>6, <1>8, <1>9, <1>10, <1>11 DEF OnceInv

\* The service finds a message it has admitted by its key.
LEMMA AdmitKeeps ==
    ASSUME OnceInv, Admit
    PROVE  OnceInv'
<1> DEFINE s == sending.key
<1>1. /\ s \in Keys /\ drafts \in [Keys -> Drafts] /\ Pending(s)
      /\ drafts[s].pending \in Pendings /\ drafts[s].pending.key \in 1..made
      /\ turn[s] \in Nat /\ lapsed[s] \in Nat
  BY DEF Admit, OnceInv, BoxTypes, SendTypes, KeysAreMade, Drafts
<1>2. UNCHANGED <<selected, box, drafts, removed, upload, made, turn, lapsed>>
  BY DEF Admit, historyVars
<1>3. BoxTypes' /\ \A k \in Keys : Pending(k)' <=> Pending(k)
  BY <1>2 DEF OnceInv, BoxTypes, Pending
<1>4. PICK c \in IF Sent.conv # "new" THEN {Sent.conv} ELSE Convs \ convs :
        \/ /\ Admitted(Sent) = {}
           /\ log' = log \cup {[key |-> Sent.key, conv |-> c, from |-> s, turn |-> turn[s],
                                lapsed |-> lapsed[s], text |-> Sent.text, files |-> Sent.files]}
           /\ convs' = convs \cup {c}
           /\ sending' = [sending EXCEPT !.at = "answered", !.reply = "ok", !.conv = c]
        \/ /\ Admitted(Sent) # {} /\ UNCHANGED <<log, convs>>
           /\ sending' = [sending EXCEPT !.at = "answered", !.reply = "ok",
                                         !.conv = (CHOOSE m \in Admitted(Sent) : TRUE).conv]
  BY DEF Admit, serverVars
<1>5. c \in Convs
  BY <1>1, <1>4 DEF Sent, Pendings, Keys
<1>6. /\ sending'.key = s /\ sending'.reply = "ok"
      /\ sending' \in [at : {"idle", "sent", "answered", "refreshing"}, key : Keys,
                       reply : {"", "ok", "refused", "lost"}, conv : Keys]
  <2>1. Admitted(Sent) # {} => (CHOOSE m \in Admitted(Sent) : TRUE) \in log
    BY DEF Admitted
  <2>2. Admitted(Sent) # {} => (CHOOSE m \in Admitted(Sent) : TRUE).conv \in Keys
    BY <2>1 DEF OnceInv, SendTypes, Messages, Keys
  <2> QED BY <1>4, <1>5, <2>2 DEF OnceInv, SendTypes, Keys
<1>7. KeysAreMade'
  BY <1>1, <1>2, <1>3, <1>6 DEF OnceInv, KeysAreMade, Pending
<1>8. CASE UNCHANGED <<log, convs>>
  <2>1. SendTypes'
    BY <1>2, <1>6, <1>8 DEF OnceInv, SendTypes
  <2>2. CurrentIsPending' /\ SentOnce'
    BY <1>2, <1>6, <1>8 DEF OnceInv, CurrentIsPending, SentOnce
  <2> QED BY <1>3, <1>7, <2>1, <2>2 DEF OnceInv
<1>9. CASE /\ Admitted(Sent) = {} /\ convs' = convs \cup {c}
           /\ log' = log \cup {[key |-> Sent.key, conv |-> c, from |-> s, turn |-> turn[s],
                                lapsed |-> lapsed[s], text |-> Sent.text, files |-> Sent.files]}
  <2> DEFINE n == [key |-> Sent.key, conv |-> c, from |-> s, turn |-> turn[s],
                   lapsed |-> lapsed[s], text |-> Sent.text, files |-> Sent.files]
  <2>1. /\ n \in Messages /\ n.from = s /\ n.turn = turn[s]
        /\ n.lapsed = lapsed[s] /\ n.key = drafts[s].pending.key
    BY <1>1, <1>5 DEF Messages, Sent, Pendings
  <2> HIDE DEF n
  <2>2. log' = log \cup {n}
    BY <1>9 DEF n
  <2>3. SendTypes'
    BY <1>2, <1>5, <1>6, <1>9, <2>1, <2>2 DEF OnceInv, SendTypes
  <2>4. CurrentIsPending'
    <3>1. ASSUME NEW m \in log'
          PROVE  /\ m.key \in 1..made
                 /\ m.turn <= turn[m.from] /\ m.lapsed <= lapsed[m.from]
                 /\ m.turn = turn[m.from] /\ m.lapsed = lapsed[m.from]
                      => m.key = drafts[m.from].pending.key
      <4>1. CASE m = n
        BY <1>1, <2>1, <4>1
      <4>2. CASE m \in log
        BY <4>2 DEF OnceInv, CurrentIsPending
      <4> QED BY <2>2, <3>1, <4>1, <4>2
    <3>2. ~(sending'.at = "answered" /\ sending'.reply = "refused")
      BY <1>6
    <3> QED BY <1>2, <3>1, <3>2 DEF CurrentIsPending
  <2>5. \A m \in log : ~(m.from = s /\ m.turn = turn[s] /\ m.lapsed = lapsed[s])
    BY <1>9 DEF Admitted, Sent, OnceInv, CurrentIsPending
  <2>6. SentOnce'
    BY <2>1, <2>2, <2>5 DEF OnceInv, SentOnce
  <2> QED BY <1>3, <1>7, <2>3, <2>4, <2>6 DEF OnceInv
<1> QED BY <1>4, <1>8, <1>9

\* Refused is what was not admitted since a session last ended on the draft.
LEMMA RefuseKeeps ==
    ASSUME OnceInv, Refuse \/ SessionEnds \/ Lose
    PROVE  OnceInv'
<1> DEFINE s == sending.key
<1>1. /\ UNCHANGED <<selected, box, drafts, removed, upload, log, made, turn>>
      /\ sending.at \in {"sent", "answered"} /\ s \in Keys
  BY DEF Refuse, SessionEnds, Lose, serverVars, historyVars, OnceInv, SendTypes
<1>2. PICK r \in {"refused", "lost"} :
        sending' = [sending EXCEPT !.at = "answered", !.reply = r]
  BY DEF Refuse, SessionEnds, Lose
<1>3. /\ sending'.at = "answered" /\ sending'.key = s /\ sending'.reply = r
      /\ sending' \in [at : {"idle", "sent", "answered", "refreshing"}, key : Keys,
                       reply : {"", "ok", "refused", "lost"}, conv : Keys]
  BY <1>2 DEF OnceInv, SendTypes
<1>4. BoxTypes' /\ SendTypes' /\ SentOnce'
  BY <1>1, <1>3, AnswerTypes DEF OnceInv, SentOnce
<1>5. KeysAreMade'
  BY <1>1, <1>3 DEF OnceInv, KeysAreMade, Pending
<1>6. /\ \A k \in Keys : lapsed[k] \in Nat
      /\ \A m \in log : m.from \in Keys /\ m.lapsed \in Nat
  BY DEF OnceInv, SendTypes, Messages
<1>7. ASSUME UNCHANGED lapsed /\ (r = "refused" => Admitted(Sent) = {})
      PROVE  CurrentIsPending'
  <2>1. ASSUME NEW m \in log, m.from = s, Admitted(Sent) = {}
        PROVE  m.turn # turn[s] \/ m.lapsed # lapsed[s]
    BY <2>1 DEF OnceInv, CurrentIsPending, Admitted, Sent
  <2>2. r = "refused" => \A m \in log : m.from = s => m.turn # turn[s] \/ m.lapsed # lapsed[s]
    BY <1>7, <2>1
  <2> HIDE DEF s
  <2> QED BY <1>1, <1>3, <1>7, <2>2 DEF OnceInv, CurrentIsPending
<1>8. ASSUME lapsed' = [lapsed EXCEPT ![s] = lapsed[s] + 1]
      PROVE  CurrentIsPending'
  <2>1. /\ lapsed'[s] = lapsed[s] + 1
        /\ \A k \in Keys \ {s} : lapsed'[k] = lapsed[k]
    BY <1>1, <1>8 DEF OnceInv, SendTypes
  <2>2. ASSUME NEW m \in log
        PROVE  /\ m.key \in 1..made /\ m.turn <= turn[m.from] /\ m.lapsed <= lapsed'[m.from]
               /\ m.turn = turn[m.from] /\ m.lapsed = lapsed'[m.from]
                    => m.key = drafts[m.from].pending.key
               /\ m.from = s => m.lapsed # lapsed'[s]
    <3>1. /\ m.key \in 1..made /\ m.turn <= turn[m.from] /\ m.lapsed <= lapsed[m.from]
          /\ m.turn = turn[m.from] /\ m.lapsed = lapsed[m.from]
               => m.key = drafts[m.from].pending.key
      BY DEF OnceInv, CurrentIsPending
    <3>2. CASE m.from = s
      BY <1>6, <2>1, <3>1, <3>2
    <3>3. CASE m.from # s
      BY <1>6, <2>1, <3>1, <3>3
    <3> QED BY <3>2, <3>3
  <2>3. /\ log' = log /\ made' = made /\ turn' = turn /\ drafts' = drafts
        /\ sending'.key = s
    BY <1>1, <1>3
  <2> HIDE DEF s
  <2> QED BY <2>2, <2>3 DEF CurrentIsPending
<1>9. \/ UNCHANGED lapsed /\ (r = "refused" => Admitted(Sent) = {})
      \/ lapsed' = [lapsed EXCEPT ![s] = lapsed[s] + 1]
  <2>1. CASE Refuse
    BY <2>1 DEF Refuse, historyVars
  <2>2. CASE SessionEnds
    BY <2>2 DEF SessionEnds
  <2>3. CASE Lose
    <3>1. sending'.reply = "lost"
      BY <2>3 DEF Lose, OnceInv, SendTypes
    <3> QED BY <1>3, <2>3, <3>1 DEF Lose, historyVars
  <2> QED BY <2>1, <2>2, <2>3
<1> QED BY <1>4, <1>5, <1>7, <1>8, <1>9 DEF OnceInv

\* What was admitted is of an earlier turn once the draft is cleared.
LEMMA AcceptedKeeps ==
    ASSUME OnceInv, Accepted
    PROVE  OnceInv'
<1> DEFINE s == sending.key
<1>1. /\ s \in Keys /\ drafts \in [Keys -> Drafts] /\ turn \in [Keys -> Nat]
      /\ sending.conv \in Keys /\ NoDraft \in Drafts
  BY DEF OnceInv, BoxTypes, SendTypes, NoDraft, NoPending, Drafts, Pendings, Prompts, Keys
<1>2. /\ drafts' = [drafts EXCEPT ![s] = NoDraft] /\ turn' = [turn EXCEPT ![s] = turn[s] + 1]
      /\ removed' = [removed EXCEPT ![s] = Nothing]
      /\ sending' = [sending EXCEPT !.at = "refreshing"]
      /\ UNCHANGED <<upload, log, made, lapsed>>
      /\ \/ selected' = sending.conv /\ box' = Empty
         \/ UNCHANGED <<selected, box>>
  BY DEF Accepted, serverVars
<1> HIDE DEF s
<1>3. /\ drafts' \in [Keys -> Drafts] /\ drafts'[s].pending = NoPending
      /\ \A k \in Keys \ {s} : drafts'[k].pending = drafts[k].pending
      /\ turn[s] + 1 \in Nat /\ turn' \in [Keys -> Nat] /\ turn'[s] = turn[s] + 1
      /\ \A k \in Keys \ {s} : turn'[k] = turn[k]
  <2>1. NoDraft.pending = NoPending
    BY DEF NoDraft
  <2>2. /\ drafts' \in [Keys -> Drafts] /\ drafts'[s] = NoDraft
        /\ \A k \in Keys \ {s} : drafts'[k] = drafts[k]
    BY <1>1, <1>2
  <2>3. turn[s] + 1 \in Nat
    BY <1>1
  <2>4. /\ turn' \in [Keys -> Nat] /\ turn'[s] = turn[s] + 1
        /\ \A k \in Keys \ {s} : turn'[k] = turn[k]
    BY <1>1, <1>2, <2>3
  <2> QED BY <2>1, <2>2, <2>3, <2>4
<1>4. BoxTypes'
  <2>1. selected' \in Keys /\ box' \in Bodies
    <3>1. Empty \in Bodies
      BY DEF Empty, Bodies
    <3> QED BY <1>1, <1>2, <3>1 DEF OnceInv, BoxTypes
  <2>2. removed' \in [Keys -> [kept : BOOLEAN, files : SUBSET Files]]
    BY <1>1, <1>2 DEF OnceInv, BoxTypes, Nothing
  <2> QED BY <1>2, <1>3, <2>1, <2>2 DEF OnceInv, BoxTypes
<1>5. SendTypes' /\ sending'.at = "refreshing"
  BY <1>2, <1>3 DEF OnceInv, SendTypes
<1>6. KeysAreMade'
  BY <1>2, <1>3, <1>5 DEF OnceInv, KeysAreMade, Pending
<1>7. CurrentIsPending'
  <2>1. ASSUME NEW m \in log
        PROVE  /\ m.key \in 1..made
               /\ m.turn <= turn'[m.from] /\ m.lapsed <= lapsed[m.from]
               /\ m.turn = turn'[m.from] /\ m.lapsed = lapsed[m.from]
                    => m.key = drafts'[m.from].pending.key
    <3>1. /\ m.from \in Keys /\ m.turn \in Nat /\ turn[m.from] \in Nat
          /\ m.key \in 1..made /\ m.turn <= turn[m.from] /\ m.lapsed <= lapsed[m.from]
          /\ m.turn = turn[m.from] /\ m.lapsed = lapsed[m.from]
               => m.key = drafts[m.from].pending.key
      BY DEF OnceInv, SendTypes, CurrentIsPending, Messages
    <3>2. CASE m.from = s
      BY <1>3, <3>1, <3>2
    <3>3. CASE m.from # s
      BY <1>3, <3>1, <3>3
    <3> QED BY <3>2, <3>3
  <2> QED BY <1>2, <1>5, <2>1 DEF CurrentIsPending
<1>8. SentOnce'
  BY <1>2 DEF OnceInv, SentOnce
<1> QED BY <1>4, <1>5, <1>6, <1>7, <1>8 DEF OnceInv

\* A refused message gives its key up, and nothing of its turn was admitted
\* since a session last ended on the draft.
LEMMA RejectedKeeps ==
    ASSUME OnceInv, Rejected
    PROVE  OnceInv'
<1> DEFINE s == sending.key
<1>1. /\ s \in Keys /\ drafts \in [Keys -> Drafts] /\ NoPending \in Pendings
  BY DEF OnceInv, BoxTypes, SendTypes, NoPending, Pendings, Prompts, Keys
<1>2. /\ sending' = Idle /\ UNCHANGED <<selected, box, removed, upload, log, made, turn, lapsed>>
      /\ \/ UNCHANGED drafts
         \/ /\ sending.at = "answered" /\ sending.reply = "refused"
            /\ drafts' = [drafts EXCEPT ![s].pending = NoPending]
  BY DEF Rejected, serverVars, historyVars
<1>3. SendTypes' /\ sending'.at = "idle"
  BY <1>2 DEF OnceInv, SendTypes, Idle, Keys
<1>4. SentOnce'
  BY <1>2 DEF OnceInv, SentOnce
<1>5. CASE UNCHANGED drafts
  BY <1>2, <1>3, <1>4, <1>5 DEF OnceInv, BoxTypes, KeysAreMade, CurrentIsPending, Pending
<1>6. CASE /\ sending.at = "answered" /\ sending.reply = "refused"
           /\ drafts' = [drafts EXCEPT ![s].pending = NoPending]
  <2>1. \A m \in log : m.from = s => m.turn # turn[s] \/ m.lapsed # lapsed[s]
    BY <1>6 DEF OnceInv, CurrentIsPending
  <2> HIDE DEF s
  <2>2. /\ drafts' \in [Keys -> Drafts] /\ drafts'[s].pending = NoPending
        /\ \A k \in Keys \ {s} : drafts'[k].pending = drafts[k].pending
    BY <1>1, <1>6 DEF Drafts
  <2>3. BoxTypes'
    BY <1>2, <2>2 DEF OnceInv, BoxTypes
  <2>4. KeysAreMade'
    BY <1>2, <1>3, <2>2 DEF OnceInv, KeysAreMade, Pending
  <2>5. CurrentIsPending'
    <3>1. ASSUME NEW m \in log
          PROVE  /\ m.key \in 1..made
                 /\ m.turn <= turn[m.from] /\ m.lapsed <= lapsed[m.from]
                 /\ m.turn = turn[m.from] /\ m.lapsed = lapsed[m.from]
                      => m.key = drafts'[m.from].pending.key
      <4>1. /\ m.from \in Keys /\ m.key \in 1..made
            /\ m.turn <= turn[m.from] /\ m.lapsed <= lapsed[m.from]
            /\ m.turn = turn[m.from] /\ m.lapsed = lapsed[m.from]
                 => m.key = drafts[m.from].pending.key
        BY DEF OnceInv, SendTypes, CurrentIsPending, Messages
      <4> QED BY <2>1, <2>2, <4>1
    <3> QED BY <1>2, <1>3, <3>1 DEF CurrentIsPending
  <2> QED BY <1>3, <1>4, <2>3, <2>4, <2>5 DEF OnceInv
<1> QED BY <1>2, <1>5, <1>6

LEMMA RefreshedKeeps ==
    ASSUME OnceInv, Refreshed
    PROVE  OnceInv'
<1>1. /\ sending' = Idle
      /\ UNCHANGED <<selected, box, drafts, removed, upload, log, made, turn, lapsed>>
  BY DEF Refreshed, serverVars, historyVars
<1>2. SendTypes' /\ sending'.at = "idle"
  BY <1>1 DEF OnceInv, SendTypes, Idle, Keys
<1> QED BY <1>1, <1>2 DEF OnceInv, BoxTypes, KeysAreMade, CurrentIsPending, SentOnce, Pending

-----------------------------------------------------------------------------
(* The invariant and the theorem.                                          *)

LEMMA OnceInvInit == Init => OnceInv
<1> SUFFICES ASSUME Init PROVE OnceInv
  OBVIOUS
<1>1. "new" \in Keys /\ NoDraft \in Drafts /\ NoDraft.pending = NoPending
  BY DEF Keys, NoDraft, NoPending, Drafts, Pendings, Prompts
<1>2. BoxTypes
  BY <1>1 DEF Init, BoxTypes, Empty, Bodies, Nothing, NoUpload
<1>3. SendTypes /\ sending.at = "idle"
  BY <1>1 DEF Init, SendTypes, Idle
<1>4. KeysAreMade /\ CurrentIsPending /\ SentOnce
  BY <1>1, <1>3 DEF Init, KeysAreMade, Pending, CurrentIsPending, SentOnce
<1> QED BY <1>2, <1>3, <1>4 DEF OnceInv

LEMMA OnceInvStep ==
    ASSUME OnceInv, [Next]_vars
    PROVE  OnceInv'
<1>1. CASE UNCHANGED vars
  <2>1. UNCHANGED <<selected, box, drafts, removed, upload, sending, turn, lapsed, made, log>>
    BY <1>1 DEF vars, serverVars, historyVars
  <2> QED BY <2>1 DEF OnceInv, BoxTypes, SendTypes, KeysAreMade, CurrentIsPending, SentOnce,
                      Pending, Admitted, Sent
<1>2. CASE Next
  BY <1>2, EditIsWriting, SlashNewKeeps, SubmitKeeps, AdmitKeeps, RefuseKeeps, AcceptedKeeps,
     RejectedKeeps, RefreshedKeeps DEF Next
<1> QED BY <1>1, <1>2

\* A draft the user sends is admitted once, however many requests and answers
\* are lost and however often it is sent again (onsubmit keeps the request key
\* in draft.pending until the service has answered), for any conversations,
\* texts, files and keys, and whatever session ends meanwhile; excepted are the
\* attempts after one that met a session that had ended, as the page then gives
\* the key up.
THEOREM RetriedOnce == Spec => []SentOnce
<1>1. Init => OnceInv
  BY OnceInvInit
<1>2. OnceInv /\ [Next]_vars => OnceInv'
  BY OnceInvStep
<1>3. OnceInv => SentOnce
  BY DEF OnceInv
<1> QED BY <1>1, <1>2, <1>3, PTL DEF Spec

-----------------------------------------------------------------------------
(* No draft is lost or turns up in another chat.                             *)

\* The box shows the files of the draft that files are being read for, and no
\* submission goes on meanwhile.
UploadIsShown ==
    upload.on => /\ sending.at = "idle"
                 /\ selected = upload.key => box.files = drafts[selected].files

IntactInv ==
    /\ BoxTypes /\ SendTypes
    /\ mind \in [Keys -> Bodies]
    /\ UploadIsShown /\ DraftIntact

\* rememberDraft: then every draft, the one on view too, is what was shown.
LEMMA RememberedIsShown ==
    ASSUME BoxTypes, NEW k \in Keys
    PROVE  [text |-> Remembered(drafts)[k].text, files |-> Remembered(drafts)[k].files] = Shown(k)
<1>1. /\ drafts \in [Keys -> Drafts] /\ selected \in Keys
      /\ box = [text |-> box.text, files |-> box.files]
  BY DEF BoxTypes, Bodies
<1>2. /\ k = selected => /\ Remembered(drafts)[k].text = box.text
                         /\ Remembered(drafts)[k].files = box.files
      /\ k # selected => /\ Remembered(drafts)[k].text = drafts[k].text
                         /\ Remembered(drafts)[k].files = drafts[k].files
  BY <1>1 DEF Remembered, Drafts
<1> QED BY <1>1, <1>2 DEF Shown

\* A step after which each draft is shown, and meant, as before.
LEMMA ShownKeeps ==
    ASSUME IntactInv, BoxTypes', SendTypes', UploadIsShown', UNCHANGED <<mind, overrun>>,
           \A k \in Keys : Shown(k)' = Shown(k)
    PROVE  IntactInv'
BY DEF IntactInv, DraftIntact

LEMMA SwitchKeeps ==
    ASSUME IntactInv, NEW k \in Keys, selectConversation(k)
    PROVE  IntactInv'
<1>1. BoxTypes' /\ SendTypes'
  BY EditTypes DEF IntactInv, SendTypes
<1>2. /\ drafts' = Remembered(drafts) /\ selected' = k
      /\ box' = [text |-> drafts'[k].text, files |-> drafts'[k].files]
      /\ UNCHANGED <<upload, sending, mind, overrun>>
  BY DEF selectConversation, Show, historyVars
<1>3. UploadIsShown'
  BY <1>2 DEF IntactInv, UploadIsShown
<1>4. \A j \in Keys : Shown(j)' = Shown(j)
  BY <1>2, RememberedIsShown DEF IntactInv, Shown
<1> QED BY <1>1, <1>2, <1>3, <1>4, ShownKeeps

LEMMA TypeKeeps ==
    ASSUME IntactInv, NEW t \in Prompts, Type(t)
    PROVE  IntactInv'
<1>1. BoxTypes' /\ SendTypes'
  BY EditTypes DEF IntactInv, SendTypes, Prompts
<1>2. /\ box' = [box EXCEPT !.text = t] /\ mind' = [mind EXCEPT ![selected].text = t]
      /\ UNCHANGED <<selected, drafts, upload, sending, overrun>>
  BY DEF Type
<1>3. /\ box \in Bodies /\ selected \in Keys /\ mind \in [Keys -> Bodies]
  BY DEF IntactInv, BoxTypes
<1>4. /\ mind' \in [Keys -> Bodies] /\ box'.files = box.files
      /\ mind[selected] = box => mind'[selected] = box'
      /\ \A k \in Keys \ {selected} : mind'[k] = mind[k]
  BY <1>2, <1>3 DEF Bodies, Prompts
<1>5. UploadIsShown'
  BY <1>2, <1>4 DEF IntactInv, UploadIsShown
<1>6. DraftIntact'
  BY <1>2, <1>3, <1>4 DEF IntactInv, DraftIntact, Shown
<1> QED BY <1>1, <1>4, <1>5, <1>6 DEF IntactInv

LEMMA SlashNewIsMeant ==
    ASSUME IntactInv, SlashNew
    PROVE  IntactInv'
<1> DEFINE d == Remembered(drafts)
<1>1. BoxTypes' /\ SendTypes' /\ drafts'["new"] = NoDraft
  BY SlashNewTypes DEF IntactInv
<1>2. /\ drafts' = [d EXCEPT ![selected].text = "", ![selected].files = {}, !["new"] = NoDraft]
      /\ selected' = "new"
      /\ box' = [text |-> drafts'["new"].text, files |-> drafts'["new"].files]
      /\ mind' = [k \in Keys |-> IF k \in {selected, "new"} THEN Empty ELSE mind[k]]
      /\ ~upload.on /\ UNCHANGED <<upload, overrun>>
  BY DEF SlashNew, Show
<1>3. d \in [Keys -> Drafts] /\ selected \in Keys /\ "new" \in Keys /\ Empty \in Bodies
  BY RememberedKeeps DEF IntactInv, BoxTypes, Keys, Empty, Bodies
<1>4. \A k \in Keys : Shown(k) = [text |-> d[k].text, files |-> d[k].files]
  BY RememberedIsShown DEF IntactInv
<1> HIDE DEF d
<1>5. mind' \in [Keys -> Bodies]
  BY <1>2, <1>3 DEF IntactInv
<1>6. UploadIsShown'
  BY <1>2 DEF UploadIsShown
<1>7. ASSUME NEW k \in Keys \ overrun
      PROVE  Shown(k)' = mind'[k]
  <2>1. CASE k = "new"
    BY <1>1, <1>2, <1>3, <2>1 DEF Shown, NoDraft, Empty
  <2>2. CASE k # "new" /\ k = selected
    <3>1. drafts'[k].text = "" /\ drafts'[k].files = {}
      BY <1>2, <1>3, <2>2 DEF Drafts
    <3> QED BY <1>2, <2>2, <3>1 DEF Shown, Empty
  <2>3. CASE k # "new" /\ k # selected
    <3>1. drafts'[k] = d[k]
      BY <1>2, <1>3, <2>3
    <3> QED BY <1>2, <1>4, <2>3, <3>1 DEF Shown, IntactInv, DraftIntact
  <2> QED BY <2>1, <2>2, <2>3
<1>8. DraftIntact'
  BY <1>2, <1>7 DEF DraftIntact
<1> QED BY <1>1, <1>5, <1>6, <1>8 DEF IntactInv

\* The box is remembered before the files are read, and "busy" keeps the rest off.
LEMMA AttachBegins ==
    ASSUME IntactInv, NEW f \in Files, attachFiles(f)
    PROVE  IntactInv'
<1>1. BoxTypes' /\ SendTypes'
  BY EditTypes DEF IntactInv, SendTypes
<1>2. /\ drafts' = Remembered(drafts) /\ upload'.key = selected /\ sending.at = "idle"
      /\ UNCHANGED <<selected, box, sending, mind, overrun>>
  BY DEF attachFiles, UploadEnabled, Submitting, historyVars
<1>3. \A k \in Keys : [text |-> drafts'[k].text, files |-> drafts'[k].files] = Shown(k)
  BY <1>2, RememberedIsShown DEF IntactInv
<1>4. drafts'[selected].files = box.files
  <2>1. selected \in Keys /\ Shown(selected) = box
    BY DEF Shown, IntactInv, BoxTypes
  <2>2. [text |-> drafts'[selected].text, files |-> drafts'[selected].files] = box
    BY <1>3, <2>1
  <2> QED BY <2>2
<1>5. UploadIsShown'
  BY <1>2, <1>4 DEF UploadIsShown
<1>6. \A k \in Keys : Shown(k)' = Shown(k)
  BY <1>2, <1>3 DEF Shown
<1> QED BY <1>1, <1>2, <1>5, <1>6, ShownKeeps

\* The file that was read joins the draft it was chosen for, and the box only if
\* that draft is still on view.
LEMMA AttachEnds ==
    ASSUME IntactInv, Attached
    PROVE  IntactInv'
<1> DEFINE k == upload.key
           files == drafts[k].files \cup {upload.file}
<1>1. BoxTypes' /\ SendTypes'
  BY EditTypes DEF IntactInv, SendTypes
<1>2. /\ upload.on /\ upload' = NoUpload /\ UNCHANGED <<selected, sending, overrun>>
      /\ k \in Keys /\ files \in SUBSET Files
  BY DEF Attached, IntactInv, BoxTypes, Drafts
<1>3. UploadIsShown'
  BY <1>2 DEF UploadIsShown, NoUpload
<1>4. CASE UNCHANGED <<box, drafts, removed, mind>>
  BY <1>1, <1>2, <1>3, <1>4, ShownKeeps DEF Shown
<1>5. CASE /\ drafts' = [drafts EXCEPT ![k].files = files]
           /\ box' = IF selected = k THEN [box EXCEPT !.files = files] ELSE box
           /\ mind' = [mind EXCEPT ![k].files = @ \cup {upload.file}]
  <2> DEFINE m == mind[k].files \cup {upload.file}
  <2>1. /\ drafts \in [Keys -> Drafts] /\ box \in Bodies /\ mind \in [Keys -> Bodies]
        /\ upload.file \in Files
    BY <1>2 DEF IntactInv, BoxTypes
  <2>2. m \in SUBSET Files
    BY <1>2, <2>1 DEF Bodies
  <2>3. /\ files = drafts[k].files \cup {upload.file} /\ m = mind[k].files \cup {upload.file}
        /\ mind' = [mind EXCEPT ![k].files = m]
    BY <1>5
  <2>4. selected = k => box.files = drafts[k].files
    BY <1>2 DEF IntactInv, UploadIsShown
  <2> HIDE DEF k, files, m
  <2>5. /\ mind' \in [Keys -> Bodies] /\ \A j \in Keys \ {k} : mind'[j] = mind[j]
        /\ mind'[k] = [text |-> mind[k].text, files |-> m]
    BY <1>2, <2>1, <2>2, <2>3 DEF Bodies
  <2>6. /\ \A j \in Keys \ {k} : drafts'[j] = drafts[j]
        /\ drafts'[k].text = drafts[k].text /\ drafts'[k].files = files
    BY <1>2, <1>5, <2>1 DEF Drafts
  <2>7. /\ selected = k => box' = [text |-> box.text, files |-> files]
        /\ selected # k => box' = box
    BY <1>5, <2>1 DEF Bodies
  <2>8. ASSUME NEW j \in Keys \ overrun
        PROVE  Shown(j)' = mind'[j]
    <3>1. Shown(j) = mind[j]
      BY DEF IntactInv, DraftIntact
    <3>2. CASE j # k
      BY <1>2, <2>5, <2>6, <2>7, <3>1, <3>2 DEF Shown
    <3>3. CASE j = k /\ selected = k
      <4>1. box = mind[k]
        BY <3>1, <3>3 DEF Shown
      <4>2. files = m
        BY <2>3, <2>4, <3>3, <4>1
      <4> QED BY <1>2, <2>5, <2>7, <3>3, <4>1, <4>2 DEF Shown
    <3>4. CASE j = k /\ selected # k
      <4>1. mind[k].text = drafts[k].text /\ mind[k].files = drafts[k].files
        BY <3>1, <3>4 DEF Shown
      <4>2. files = m
        BY <2>3, <4>1
      <4> QED BY <1>2, <2>5, <2>6, <3>4, <4>1, <4>2 DEF Shown
    <3> QED BY <3>2, <3>3, <3>4
  <2>9. DraftIntact'
    BY <1>2, <2>8 DEF DraftIntact
  <2> QED BY <1>1, <1>3, <2>5, <2>9 DEF IntactInv
<1> QED BY <1>4, <1>5 DEF Attached

\* A chip's x, "Remove all", "Undo": no files are being read.
LEMMA SetFilesKeeps ==
    ASSUME IntactInv, BoxTypes', SendTypes', UploadEnabled, NEW files \in SUBSET Files,
           SetFiles(files)
    PROVE  IntactInv'
<1>1. /\ box' = [box EXCEPT !.files = files]
      /\ drafts' = [drafts EXCEPT ![selected].text = box.text, ![selected].files = files]
      /\ mind' = [mind EXCEPT ![selected].files = files]
      /\ ~upload.on /\ UNCHANGED <<selected, sending, upload, overrun>>
  BY DEF SetFiles, UploadEnabled
<1>2. /\ box \in Bodies /\ selected \in Keys /\ mind \in [Keys -> Bodies]
      /\ drafts \in [Keys -> Drafts]
  BY DEF IntactInv, BoxTypes
<1>3. /\ mind' \in [Keys -> Bodies]
      /\ mind[selected] = box => mind'[selected] = box'
      /\ \A k \in Keys \ {selected} : mind'[k] = mind[k]
  BY <1>1, <1>2 DEF Bodies
<1>4. \A k \in Keys \ {selected} : drafts'[k] = drafts[k]
  BY <1>1, <1>2
<1>5. DraftIntact'
  BY <1>1, <1>2, <1>3, <1>4 DEF IntactInv, DraftIntact, Shown
<1>6. UploadIsShown'
  BY <1>1 DEF UploadIsShown
<1> QED BY <1>3, <1>5, <1>6 DEF IntactInv

\* No files are read while a message is sent, and nothing is written.
LEMMA SubmitIsShown ==
    ASSUME IntactInv, Submit
    PROVE  IntactInv'
<1> DEFINE d == Remembered(drafts)
           p == PendingOf(d[selected])
<1>1. BoxTypes' /\ SendTypes'
  BY SubmitTypes DEF IntactInv
<1>2. /\ drafts' = [d EXCEPT ![selected].pending = p]
      /\ ~upload.on /\ UNCHANGED <<selected, box, upload, mind, overrun>>
  BY DEF Submit, historyVars
<1>3. /\ d \in [Keys -> Drafts] /\ selected \in Keys
      /\ \A k \in Keys : Shown(k) = [text |-> d[k].text, files |-> d[k].files]
  BY RememberedKeeps, RememberedIsShown DEF IntactInv, BoxTypes
<1> HIDE DEF d, p
<1>4. \A k \in Keys : drafts'[k].text = d[k].text /\ drafts'[k].files = d[k].files
  BY <1>2, <1>3 DEF Drafts
<1>5. \A k \in Keys : Shown(k)' = Shown(k)
  <2>1. Shown(selected) = box
    BY DEF Shown
  <2> QED BY <1>2, <1>3, <1>4, <2>1 DEF Shown
<1>6. UploadIsShown'
  BY <1>2 DEF UploadIsShown
<1> QED BY <1>1, <1>2, <1>5, <1>6, ShownKeeps

\* The draft that was accepted is done with; the one the box then turns to is as
\* it was left, or noted in overrun.
LEMMA AcceptedIsMeant ==
    ASSUME IntactInv, Accepted
    PROVE  IntactInv'
<1> DEFINE s == sending.key
           c == sending.conv
<1>1. BoxTypes' /\ SendTypes'
  BY AcceptedTypes DEF IntactInv
<1>2. /\ drafts' = [drafts EXCEPT ![s] = NoDraft] /\ mind' = [mind EXCEPT ![s] = Empty]
      /\ IF selected = s THEN selected' = c /\ box' = Empty ELSE UNCHANGED <<selected, box>>
      /\ overrun' = IF selected = s /\ mind'[c] # Empty THEN overrun \cup {c} ELSE overrun
      /\ sending.at = "answered" /\ UNCHANGED upload
  BY DEF Accepted
<1>3. /\ s \in Keys /\ c \in Keys /\ Empty \in Bodies
      /\ drafts \in [Keys -> Drafts] /\ mind \in [Keys -> Bodies]
  BY DEF IntactInv, BoxTypes, SendTypes, Empty, Bodies
<1> HIDE DEF s, c
<1>4. /\ mind' \in [Keys -> Bodies] /\ mind'[s] = Empty /\ drafts'[s] = NoDraft
      /\ \A k \in Keys \ {s} : mind'[k] = mind[k] /\ drafts'[k] = drafts[k]
  BY <1>2, <1>3
<1>5. UploadIsShown'
  BY <1>2 DEF IntactInv, UploadIsShown
<1>6. ASSUME NEW k \in Keys \ overrun'
      PROVE  Shown(k)' = mind'[k]
  <2>0. k \notin overrun
    BY <1>2
  <2>1. CASE selected = s /\ k = c
    BY <1>2, <2>1 DEF Shown
  <2>2. CASE k = s /\ ~(selected = s /\ k = c)
    <3>1. selected' # k
      BY <1>2, <2>2
    <3>2. drafts'[k].text = "" /\ drafts'[k].files = {}
      <4>1. drafts'[k] = NoDraft
        BY <1>4, <2>2
      <4>2. NoDraft.text = "" /\ NoDraft.files = {}
        BY DEF NoDraft
      <4> QED BY <4>1, <4>2
    <3> QED BY <1>4, <2>2, <3>1, <3>2 DEF Shown, Empty
  <2>3. CASE k # s /\ ~(selected = s /\ k = c)
    BY <1>2, <1>4, <2>0, <2>3 DEF Shown, IntactInv, DraftIntact
  <2> QED BY <2>1, <2>2, <2>3
<1>7. DraftIntact'
  BY <1>6 DEF DraftIntact
<1> QED BY <1>1, <1>4, <1>5, <1>7 DEF IntactInv

LEMMA IntactInvInit == Init => IntactInv
<1> SUFFICES ASSUME Init PROVE IntactInv
  OBVIOUS
<1>1. BoxTypes /\ SendTypes
  BY OnceInvInit DEF OnceInv
<1>2. mind \in [Keys -> Bodies]
  BY DEF Init, Empty, Bodies
<1>3. UploadIsShown /\ DraftIntact
  BY DEF Init, UploadIsShown, NoUpload, DraftIntact, Shown, NoDraft, Empty
<1> QED BY <1>1, <1>2, <1>3 DEF IntactInv

LEMMA IntactInvStep ==
    ASSUME IntactInv, [Next]_vars
    PROVE  IntactInv'
<1>1. CASE UNCHANGED vars
  <2>1. UNCHANGED <<selected, box, drafts, removed, upload, sending, turn, lapsed, made, log, mind,
                    overrun>>
    BY <1>1 DEF vars, serverVars, historyVars
  <2> QED BY <2>1 DEF IntactInv, BoxTypes, SendTypes, UploadIsShown, DraftIntact, Shown
<1>2. ASSUME AttachFails
      PROVE  IntactInv'
  <2>1. BoxTypes' /\ SendTypes'
    BY <1>2, EditTypes DEF IntactInv, SendTypes
  <2> QED BY <1>2, <2>1, ShownKeeps
          DEF AttachFails, NoUpload, UploadIsShown, Shown, historyVars
<1>3. ASSUME NEW keep \in SUBSET Files, RemoveAttachments(keep)
      PROVE  IntactInv'
  <2>1. BoxTypes' /\ SendTypes'
    BY <1>3, EditTypes DEF IntactInv, SendTypes
  <2> QED BY <1>3, <2>1, SetFilesKeeps DEF RemoveAttachments
<1>4. ASSUME UndoAttachments
      PROVE  IntactInv'
  <2>1. BoxTypes' /\ SendTypes'
    BY <1>4, EditTypes DEF IntactInv, SendTypes
  <2>2. removed[selected].files \in SUBSET Files
    BY DEF IntactInv, BoxTypes
  <2> QED BY <1>4, <2>1, <2>2, SetFilesKeeps DEF UndoAttachments
<1>5. ASSUME Admit \/ Refuse \/ SessionEnds \/ Lose \/ Refreshed
      PROVE  IntactInv'
  <2>1. BoxTypes' /\ SendTypes'
    BY <1>5, AnswerTypes DEF IntactInv
  <2>2. /\ UNCHANGED <<selected, box, drafts, upload, mind, overrun>>
        /\ sending.at # "idle"
    BY <1>5 DEF Admit, Refuse, SessionEnds, Lose, Refreshed, historyVars
  <2> QED BY <2>1, <2>2, ShownKeeps DEF IntactInv, UploadIsShown, Shown
<1>6. ASSUME Rejected
      PROVE  IntactInv'
  <2>1. /\ BoxTypes' /\ SendTypes'
        /\ \A k \in Keys : /\ drafts'[k].text = drafts[k].text
                           /\ drafts'[k].files = drafts[k].files
    BY <1>6, RejectedTypes DEF IntactInv
  <2>2. UNCHANGED <<selected, box, upload, mind, overrun>> /\ sending.at = "answered"
    BY <1>6 DEF Rejected, historyVars
  <2>3. UploadIsShown'
    BY <2>2 DEF IntactInv, UploadIsShown
  <2> QED BY <2>1, <2>2, <2>3, ShownKeeps DEF Shown
<1> QED BY <1>1, <1>2, <1>3, <1>4, <1>5, <1>6, SwitchKeeps, TypeKeeps, SlashNewIsMeant,
           AttachBegins, AttachEnds, SubmitIsShown, AcceptedIsMeant DEF Next, Prompts

\* Nothing the user wrote or attached is lost or turns up in another chat, by
\* switching, a slow attachment, a refused, lost or accepted message
\* (rememberDraft, selectConversation, attachFiles, onsubmit), for any
\* conversations, texts, files and keys, and whatever session ends
\* meanwhile; excepted is a draft begun in a conversation whose first message the
\* page still retries (overrun).
THEOREM DraftsKept == Spec => []DraftIntact
<1>1. IntactInv => DraftIntact
  BY DEF IntactInv
<1> QED BY <1>1, IntactInvInit, IntactInvStep, PTL DEF Spec
=============================================================================
