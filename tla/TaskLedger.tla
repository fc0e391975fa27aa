----------------------------- MODULE TaskLedger -----------------------------
(***************************************************************************)
(* What the engine promises about the execution of tasks, whatever happens *)
(* in between: a task is leased to at most one worker at a time, under an  *)
(* attempt number it never had before; it is completed at most once, by    *)
(* the worker it is leased to; a completed task is never leased again.     *)
(***************************************************************************)
EXTENDS Naturals

CONSTANTS Tasks, Workers, NoWorker

VARIABLES
    holder,   \* holder[t]: the worker task t is leased to, or NoWorker
    attempt,  \* attempt[t]: the last attempt number used for t
    doneBy    \* doneBy[t]: the worker whose report completed t, or NoWorker

ledger == <<holder, attempt, doneBy>>

Init ==
    /\ holder = [t \in Tasks |-> NoWorker]
    /\ attempt = [t \in Tasks |-> 0]
    /\ doneBy = [t \in Tasks |-> NoWorker]

(* A lease on a fresh attempt.                                             *)
Grant(t) ==
    /\ doneBy[t] = NoWorker
    /\ holder[t] = NoWorker
    /\ \E w \in Workers : holder' = [holder EXCEPT ![t] = w]
    /\ attempt' = [attempt EXCEPT ![t] = @ + 1]
    /\ UNCHANGED doneBy

(* An attempt number is used up by a claim that did not get through.       *)
Forfeit(t) ==
    /\ doneBy[t] = NoWorker
    /\ holder[t] = NoWorker
    /\ attempt' = [attempt EXCEPT ![t] = @ + 1]
    /\ UNCHANGED <<holder, doneBy>>

(* The holder's completion, and nobody else's, is accepted and recorded.   *)
Complete(t) ==
    /\ holder[t] # NoWorker
    /\ holder' = [holder EXCEPT ![t] = NoWorker]
    /\ doneBy' = [doneBy EXCEPT ![t] = holder[t]]
    /\ UNCHANGED attempt

(* Leases end without a completion: failure, expiry, deadline, checkpoint, *)
(* cancellation.                                                           *)
Release(S) ==
    /\ \A t \in S : holder[t] # NoWorker
    /\ holder' = [t \in Tasks |-> IF t \in S THEN NoWorker ELSE holder[t]]
    /\ UNCHANGED <<attempt, doneBy>>

Next ==
    \/ \E t \in Tasks : Grant(t) \/ Forfeit(t) \/ Complete(t)
    \/ \E S \in SUBSET Tasks : Release(S)

Spec == Init /\ [][Next]_ledger
=============================================================================
