-------------------------- MODULE ApprovalContract --------------------------
(***************************************************************************)
(* What the approval path promises, whatever the tables look like          *)
(* (docs/design/approval-path.md sections 2, 3 and 5): an approval is asked *)
(* once, answered at most once, and its grant is used at most once; when a *)
(* human seizes the computer everything still undecided closes in the same *)
(* step, so nobody grants a request that predates their control.           *)
(***************************************************************************)
EXTENDS Naturals

CONSTANT Approvals

VARIABLES
    phase,  \* where each approval is
    era,    \* how often the undecided surface was seized
    born    \* the era an approval was opened in

contractVars == <<phase, era, born>>

Phases == {"none", "open", "granted", "used", "closed"}

Move(S, to) == phase' = [a \in Approvals |-> IF a \in S THEN to ELSE phase[a]]

Open(a) ==
    /\ phase[a] = "none"
    /\ Move({a}, "open")
    /\ born' = [born EXCEPT ![a] = era]
    /\ UNCHANGED era

Grant(a) ==
    /\ phase[a] = "open"
    /\ born[a] = era
    /\ Move({a}, "granted")
    /\ UNCHANGED <<era, born>>

\* Denied, expired or withdrawn.
Close(S) ==
    /\ \A a \in S : phase[a] = "open"
    /\ Move(S, "closed")
    /\ UNCHANGED <<era, born>>

\* The single-use claim.
Use(a) ==
    /\ phase[a] = "granted"
    /\ Move({a}, "used")
    /\ UNCHANGED <<era, born>>

\* A grant can be withdrawn until it is used.
TakeBack(a) ==
    /\ phase[a] = "granted"
    /\ Move({a}, "closed")
    /\ UNCHANGED <<era, born>>

Seize ==
    /\ era' = era + 1
    /\ Move({a \in Approvals : phase[a] = "open"}, "closed")
    /\ UNCHANGED born

ContractInit ==
    /\ phase = [a \in Approvals |-> "none"]
    /\ era = 0
    /\ born = [a \in Approvals |-> 0]

ContractNext ==
    \/ \E a \in Approvals : Open(a) \/ Grant(a) \/ Use(a) \/ TakeBack(a)
    \/ \E S \in SUBSET Approvals : Close(S)
    \/ Seize

ContractSpec == ContractInit /\ [][ContractNext]_contractVars

=============================================================================
