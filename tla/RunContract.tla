----------------------------- MODULE RunContract -----------------------------
(***************************************************************************)
(* What a Run promises to the process that controls it, whatever happens   *)
(* inside the pipeline: how the status, the cancellation flag and the      *)
(* published result of its execution rounds may change.  RunEngine         *)
(* implements it; nothing here knows about stages, calls or checkpoints.   *)
(***************************************************************************)
EXTENDS Naturals

CONSTANT MaxRounds   \* bound: execution rounds of the Run

Rounds   == 1..MaxRounds
Terminal == {"succeeded", "failed", "cancelled", "interrupted"}
Statuses == {"none", "queued", "running", "needs_review"} \cup Terminal

VARIABLES
    round,     \* the current execution round
    status,    \* the status of each round, "none" before it exists
    cancel,    \* rounds whose cancellation was accepted
    result     \* the status a round's published result shows, "none" if unpublished

vars == <<round, status, cancel, result>>

Init ==
    /\ round = 1
    /\ status = [r \in Rounds |-> IF r = 1 THEN "queued" ELSE "none"]
    /\ cancel = [r \in Rounds |-> FALSE]
    /\ result = [r \in Rounds |-> "none"]

\* request_cancel: accepted for the current round until it has ended.
Cancel ==
    /\ status[round] \notin Terminal
    /\ cancel' = [cancel EXCEPT ![round] = TRUE]
    /\ UNCHANGED <<round, status, result>>

\* A writer takes the current round up, for the first time or again.
Begin ==
    /\ status[round] # "succeeded"
    /\ status' = [status EXCEPT ![round] = "running"]
    /\ UNCHANGED <<round, cancel, result>>

\* The round stops without success; a later entry finds an abandoned one interrupted.
Stop ==
    /\ status[round] = "running"
    /\ \E s \in {"needs_review", "failed", "cancelled", "interrupted"} :
          status' = [status EXCEPT ![round] = s]
    /\ UNCHANGED <<round, cancel, result>>

\* Success and its result become visible together, never after a cancellation.
Succeed ==
    /\ status[round] = "running" /\ ~cancel[round]
    /\ status' = [status EXCEPT ![round] = "succeeded"]
    /\ result' = [result EXCEPT ![round] = "succeeded"]
    /\ UNCHANGED <<round, cancel>>

\* The result of a round that stopped is published later, and may be published again.
Publish ==
    /\ status[round] \in {"needs_review", "failed", "cancelled"}
    /\ result' = [result EXCEPT ![round] = status[round]]
    /\ UNCHANGED <<round, status, cancel>>

\* retry_run: only a round nobody works on is followed by another.
NewRound ==
    /\ status[round] \notin {"queued", "running"} /\ round < MaxRounds
    /\ round' = round + 1
    /\ status' = [status EXCEPT ![round + 1] = "queued"]
    /\ UNCHANGED <<cancel, result>>

Next == Cancel \/ Begin \/ Stop \/ Succeed \/ Publish \/ NewRound

Spec == Init /\ [][Next]_vars

=============================================================================
