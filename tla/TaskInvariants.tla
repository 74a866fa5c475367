-------------------------- MODULE TaskInvariants --------------------------
(***************************************************************************)
(* The inductive invariant behind the safety properties of TaskLifecycle.  *)
(* TypeOK, HandlerInv and CauseInv are each preserved by every step, given *)
(* the ones before it; together they imply AbortingHasHandler,             *)
(* OutcomeHasCause and HandlersHaveCause.                                  *)
(***************************************************************************)
EXTENDS TaskLifecycle

\* Where the main thread is before the task function has started.
EarlySpan == {"unsent", "queued", "claim", "context"} \cup PickupSpan

\* ABORTING is written only by actors that saw a registered handler, and no
\* handler is registered before the task function runs.
HandlerInv ==
    /\ submit = "enqueue" => pc = "unsent"
    /\ pc \in EarlySpan => ~handlers
    /\ abortable \/ pc \in {"appended", "registering"} => handlers
    /\ \A u \in Users : cancel[u] = "abort_running" => handlers
    /\ thread["timer"] \in {"mark", "read", "write"} => handlers
    /\ thread["fence"] \in {"read", "write"} => handlers
    /\ status = ABORTING => handlers

Asked == timeoutTriggered \/ fenceTriggered \/ UserAborted

\* Where a side thread is once it has a reason to abort the work.
Acting == {"read", "write", "elect", "detect", "handle"}

\* The reason for an abort is recorded before anything acts on it: each thread
\* that is about to act, and each outcome, still finds its reason in place.
CauseInv ==
    /\ status \in ABORT_STATES \/ detected \/ handlerRuns > 0 => Asked
    /\ pc = "handle" \/ thread["listener"] \in Acting => Asked
    /\ thread["timer"] \in Acting => timeoutTriggered
    /\ thread["fence"] \in Acting => fenceTriggered
    /\ status = ABORTED \/ pc \in {"loaded_aborted", "fin_aborted"} => UserAborted
    /\ status = TIMED_OUT \/ pc = "fin_timed_out" => timeoutTriggered
    /\ status = SUCCESS \/ pc \in {"returned", "commit"} => completed

\* The slot conjunct is inductive by itself: SlotAfter is part of every write.
IInv == TypeOK /\ TerminalFreesSlot /\ HandlerInv /\ CauseInv

============================================================================
