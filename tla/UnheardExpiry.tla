---------------------------- MODULE UnheardExpiry ----------------------------
(***************************************************************************)
(* TurnSupervisor with a history of the approvals a read expired, for TLC. *)
(* GET /approvals settles a row that is due and wakes nobody, and a turn   *)
(* that sleeps on it hangs: what is promised to blocked turns is stated    *)
(* beside those rows, and no others.                                       *)
(***************************************************************************)
EXTENDS TurnSupervisor

VARIABLE unheard   \* the approvals a read expired since the service started

ReadExpiring(d) ==
    /\ Serve(ReadApprovals(d))
    /\ unheard' = unheard \cup {a \in Pending : state'[a] = "expired"}

ReadInit == SupInit /\ unheard = {}

\* Its steps are those of SupSpec.
ReadSpec ==
    /\ ReadInit
    /\ [][\/ HeardNext /\ unheard' = IF service' = "up" THEN unheard ELSE {}
          \/ \E d \in Devices : ReadExpiring(d)]_<<vars, unheard>>
    /\ Fairness

\* A blocked turn is released by a verdict, a revocation or its deadline,
\* whoever settles the row and in whatever order the wake-ups are delivered
\* (request_approval, sweep_once, the handlers): it hangs only on a row that a
\* read of the approvals expired (get_approval, get_approvals).
ReleasedUnlessRead == At("blocked") ~> ~At("blocked") \/ asked \in unheard

\* Every turn the pump starts ends, and the next queued run gets its chance,
\* but for a turn that hangs on such a row.
EndsUnlessRead == ~At("idle") ~> At("idle") \/ asked \in unheard
=============================================================================
