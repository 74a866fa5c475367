---------------------------- MODULE TaskContract ----------------------------
(***************************************************************************)
(* What the Global Task Framework promises about the status of a task, as  *)
(* the transition table of InternalStatusTransitionCommand, the docstring  *)
(* of abort_task and the DAG gate state it: a task is claimed once, may be *)
(* asked to stop, ends once, and keeps the status it ended in, because     *)
(* dependents and waiters act on it.  Ending a task frees its slot.        *)
(***************************************************************************)
EXTENDS TaskStatus

VARIABLES status, slot

Init == status = PENDING /\ slot = "active"

Claim == status = PENDING /\ status' = IN_PROGRESS /\ UNCHANGED slot

\* A user, the timeout or the fence asks a running task to stop.
RequestAbort == status = IN_PROGRESS /\ status' = ABORTING /\ UNCHANGED slot

EndWith(froms, to) == status \in froms /\ status' = to /\ slot' = "finished"

End ==
    \/ EndWith({IN_PROGRESS, ABORTING}, SUCCESS)
    \/ EndWith(ACTIVE_STATES, FAILURE)
    \/ EndWith({PENDING, ABORTING}, ABORTED)
    \/ EndWith({ABORTING}, TIMED_OUT)

Next == Claim \/ RequestAbort \/ End

Spec == Init /\ [][Next]_<<status, slot>>

=============================================================================
