----------------------------- MODULE EngineMoves -----------------------------
(***************************************************************************)
(* The moves that every step of Engine is a chain of.                      *)
(*                                                                         *)
(* A move is what one critical decision of a handler adds to the log: an   *)
(* event, or two that are decided together, under the condition the code   *)
(* checked before it.  Handlers commit chains of moves, whole or cut short *)
(* anywhere; so a set of states closed under moves, once entered, is not   *)
(* left.  An invariant, or what a step keeps of the state before it, is    *)
(* then shown move by move.                                                *)
(***************************************************************************)
EXTENDS EngineProperties

-----------------------------------------------------------------------------
(* Moves *)

ClosedUnderStart(P) ==
    \A s \in P : s.runState = "NONE" => WorkflowStarted(s) \in P

ClosedUnderClaims(P) ==
    \A s \in P, n \in Nodes, w \in Workers :
        LET a == s.node[n].attempt + 1
        IN  /\ s.runState \notin TerminalRunStates \cup {"NONE", "COMPENSATING"}
            /\ ~s.cancelRequested
            /\ s.node[n].state = "READY"
            => /\ LeaseGranted(s, n, w, a) \in P
               /\ NodeStarted(LeaseGranted(s, n, w, a), n, w, a) \in P

ClosedUnderCompletion(P) ==
    \A s \in P, n \in Nodes, spawned \in SUBSET Nodes :
        /\ ~s.cancelRequested
        /\ s.node[n].state = "RUNNING"
        /\ spawned \cap Present(s) = {}
        => NodeCompleted(s, n, s.node[n].worker, s.node[n].attempt, spawned) \in P

(* A failure comes alone, or with the timer of its retry.                  *)
ClosedUnderFailure(P) ==
    \A s \in P, n \in Nodes :
        LET a      == s.node[n].attempt
            failed == NodeFailed(s, n, s.node[n].worker, a)
        IN  /\ s.node[n].state \in {"READY", "RUNNING", "AWAITING_APPROVAL"} => failed \in P
            /\ s.node[n].state = "RUNNING" /\ a < Def[n].maxAttempts =>
                    TimerScheduled(failed, Timer(n, "retry_backoff", a)) \in P

ClosedUnderRelease(P) ==
    /\ \A s \in P, n \in Nodes :
        /\ s.node[n].state = "RUNNING" =>
                Release(s, n, "AWAITING_APPROVAL") \in P /\ Release(s, n, "CANCELLED") \in P
        /\ s.node[n].state = "AWAITING_APPROVAL" => Release(s, n, "READY") \in P
    /\ \A s \in P : \A ids \in SUBSET InState(s, {"RUNNING"}) : ExpireLeases(s, ids) \in P

ClosedUnderScheduling(P) ==
    \A s \in P, n \in Nodes, purpose \in Purposes \ {"retry_backoff"}, a \in Nat :
        TimerScheduled(s, Timer(n, purpose, a)) \in P

ClosedUnderFiring(P) ==
    \A s \in P : \A t \in s.pending : ~IsTerminal(s) => TimerFired(s, t) \in P

ClosedUnderTimers(P) == ClosedUnderScheduling(P) /\ ClosedUnderFiring(P)

ClosedUnderCancellation(P) ==
    \A s \in P : ~IsTerminal(s) =>
        /\ s.runState # "NONE" => CancellationRequested(s) \in P
        /\ s.cancelRequested => \A ids \in SUBSET Undispatched(s) : CancelNodes(s, ids) \in P

ClosedUnderAdvance(P) == \A s \in P : Advance(s) \in P

ClosedUnderCompensation(P) ==
    \A s \in P :
        s.active # NoCompensation =>
            /\ CompensationTaskCompleted(s, s.active.node) \in P
            /\ CompensationReleased(s) \in P
            /\ SetRunState(CompensationReleased(s), "FAILED") \in P

(* A compensation is handed out.                                           *)
ClosedUnderHandout(P) ==
    \A s \in P :
        s.runState = "COMPENSATING" /\ ~s.cancelRequested =>
            \A i \in DOMAIN s.stack, w \in Workers :
                IsNextCompensation(s, i) =>
                    CompensationTaskStarted(s, s.stack[i].node, w, s.stack[i].attempt + 1) \in P

(* The moves that neither hand out work nor accept its completion; only    *)
(* the timer monitor makes the last of them, which uses a timer up.        *)
ClosedUnderHandling(P) ==
    /\ ClosedUnderStart(P)
    /\ ClosedUnderFailure(P)
    /\ ClosedUnderRelease(P)
    /\ ClosedUnderScheduling(P)
    /\ ClosedUnderCancellation(P)
    /\ ClosedUnderAdvance(P)
    /\ ClosedUnderCompensation(P)

ClosedUnderUpkeep(P) == ClosedUnderHandling(P) /\ ClosedUnderFiring(P)

Closed(P) ==
    /\ ClosedUnderUpkeep(P)
    /\ ClosedUnderClaims(P)
    /\ ClosedUnderHandout(P)
    /\ ClosedUnderCompletion(P)
==============================================================================
