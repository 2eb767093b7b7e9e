---------------------------- MODULE EventJournal ----------------------------
(***************************************************************************)
(* What the worker seam promises about the events of one turn, with no     *)
(* batches, messages, retries or saves: the worker emits events in order,  *)
(* the service keeps a growing prefix of them on disk, and a worker that   *)
(* sees an event acknowledged can rely on it (and on every earlier one)    *)
(* being on disk.                                                          *)
(***************************************************************************)
EXTENDS Naturals, FiniteSets

CONSTANT NEvents        \* the events of the turn are 1..NEvents

VARIABLES emitted,      \* how many events the worker has emitted
          stored,       \* how many of them are on disk, as a prefix
          acked         \* how many of them the worker knows to be on disk

journalVars == <<emitted, stored, acked>>

Init == emitted = 0 /\ stored = 0 /\ acked = 0

Emit == /\ emitted < NEvents
        /\ emitted' = emitted + 1
        /\ UNCHANGED <<stored, acked>>

Store == /\ \E n \in (stored + 1)..emitted : stored' = n
         /\ UNCHANGED <<emitted, acked>>

Acknowledge == /\ \E n \in (acked + 1)..stored : acked' = n
               /\ UNCHANGED <<emitted, stored>>

Next == Emit \/ Store \/ Acknowledge

JournalSpec == Init /\ [][Next]_journalVars
=============================================================================
