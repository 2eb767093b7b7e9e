---------------------------- MODULE AuthorityLink ----------------------------
(***************************************************************************)
(* RustAuthority of experiments/rust-browser-control.mjs and the process   *)
(* it owns ("agentmeld-m0 supervise"): commands written to a pipe, applied *)
(* and answered in order, one deadline for each, and a transport that any  *)
(* failure kills for good, with every command that was waiting.            *)
(***************************************************************************)
EXTENDS DurableJournal, Sequences

CONSTANTS
    Callers,    \* the host's tasks that wait for an answer
    MaxLines,   \* lines the journal may hold (LIMIT, in bytes, in the code)
    MaxFaults   \* failures that may still happen

ASSUME LinkAssumption == MaxLines \in Nat \ {0} /\ MaxFaults \in Nat

VARIABLES
    mem, disk,  \* the snapshot in the process and the one its file ends with
    poisoned,   \* a write failed: the process refuses everything
    dead,       \* RustAuthority.dead
    gen,        \* RustAuthority.current.generation
    pipe,       \* callers waiting, in the order they wrote
    call,       \* what each has asked and been answered
    faults

linkVars == <<mem, disk, poisoned, dead, gen, pipe, call, faults>>

NoCommand == [op |-> "none"]
NoCall == [at |-> "idle", cmd |-> NoCommand, ok |-> FALSE, state |-> Blank]

LinkInit ==
    /\ mem = Reopened(Blank) /\ disk = mem /\ poisoned = FALSE
    /\ dead = FALSE /\ gen = 0 /\ pipe = <<>>
    /\ call = [b \in Callers |-> NoCall] /\ faults = 0

Fault == faults < MaxFaults /\ faults' = faults + 1

\* request, by caller b with answers k pending; a dead transport rejects.
Asked(k, b, c) ==
    [k EXCEPT ![b] = IF dead THEN [NoCall EXCEPT !.at = "answered"]
                     ELSE [NoCall EXCEPT !.at = "sent", !.cmd = c]]

request(b, c) ==
    /\ call' = Asked(call, b, c)
    /\ pipe' = IF dead THEN pipe ELSE Append(pipe, b)
    /\ UNCHANGED <<mem, disk, poisoned, dead, gen, faults>>

\* The caller has its answer, and asks for c next; or for nothing.
Answered(b) == call[b].at = "answered" \/ (pipe # <<>> /\ Head(pipe) = b /\ call[b].at = "served")
Left(b) == IF call[b].at = "served" THEN Tail(pipe) ELSE pipe
Seen(b) == gen' = IF call[b].ok THEN call[b].state.gen ELSE gen

then(b, c) ==
    /\ Seen(b)
    /\ call' = Asked(call, b, c)
    /\ pipe' = IF dead THEN Left(b) ELSE Append(Left(b), b)
    /\ UNCHANGED <<mem, disk, poisoned, dead, faults>>

done(b) ==
    /\ Seen(b)
    /\ call' = [call EXCEPT ![b] = NoCall] /\ pipe' = Left(b)
    /\ UNCHANGED <<mem, disk, poisoned, dead, faults>>

\* What the process may make of a command: a write that fails, or the
\* limit, poisons it, and whether the line reached the file is not known.
Result(ok, state, file, sick, fault) ==
    [ok |-> ok, mem |-> state, disk |-> file, poisoned |-> sick, faults |-> faults + fault]
Results(c) ==
    LET s == Written(Effect(mem, c))
        refused == Result(FALSE, mem, disk, poisoned, 0)
    IN CASE poisoned -> {refused}
         [] ~poisoned /\ c.op = "state" -> {[refused EXCEPT !.ok = TRUE]}
         [] ~poisoned /\ c.op # "state" /\ ~Permits(mem, c) -> {refused}
         [] OTHER ->
              IF mem.seq = MaxLines THEN {[refused EXCEPT !.poisoned = TRUE]}
              ELSE {Result(TRUE, s, s, FALSE, 0)} \cup
                   IF faults = MaxFaults THEN {}
                   ELSE {Result(FALSE, mem, file, TRUE, 1) : file \in {disk, s}}

Becomes(r) ==
    /\ mem' = r.mem /\ disk' = r.disk /\ poisoned' = r.poisoned /\ faults' = r.faults

\* The process takes the next command of the pipe.
Waiting == {i \in DOMAIN pipe : call[pipe[i]].at = "sent"
                                 /\ \A k \in 1..i - 1 : call[pipe[k]].at # "sent"}
Serve ==
    /\ \E i \in Waiting : \E r \in Results(call[pipe[i]].cmd) :
          /\ Becomes(r)
          /\ call' = [call EXCEPT ![pipe[i]] =
                        [@ EXCEPT !.at = "served", !.ok = r.ok,
                                  !.state = IF r.ok THEN r.mem ELSE Blank]]
    /\ UNCHANGED <<dead, gen, pipe>>

\* A command whose caller does nothing between its write and its answer: it
\* is enough to say when the process takes it, and what it answers.
Heard(c) == IF dead THEN {Result(FALSE, mem, disk, poisoned, 0)} ELSE Results(c)
Hears(r) ==
    /\ Becomes(r)
    /\ gen' = IF r.ok THEN r.mem.gen ELSE gen
    /\ UNCHANGED <<dead, pipe, call>>
Asks(c) == \E r \in Heard(c) : Hears(r)

\* A "state" that is answered.
Readable == ~dead /\ ~poisoned

\* fail: a timeout, an exit or a bad answer; every waiter is rejected.
Fails ==
    /\ Fault /\ ~dead /\ dead' = TRUE
    /\ pipe' = <<>>
    /\ call' = [b \in Callers |-> IF call[b].at = "idle" THEN NoCall
                                  ELSE [NoCall EXCEPT !.at = "answered"]]
    /\ UNCHANGED <<mem, disk, poisoned, gen>>

\* RustAuthority.open in a new host process, on the same journal.
Opens ==
    /\ disk.seq < MaxLines
    /\ mem' = Reopened(disk) /\ disk' = mem' /\ poisoned' = FALSE
    /\ dead' = FALSE /\ gen' = mem'.gen /\ pipe' = <<>>
    /\ call' = [b \in Callers |-> NoCall]
=============================================================================
