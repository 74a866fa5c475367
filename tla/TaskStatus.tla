---------------------------- MODULE TaskStatus ----------------------------
(***************************************************************************)
(* The status vocabulary of the Global Task Framework (GTF): the values of *)
(* the column tasks.status and the classes superset/tasks/constants.py     *)
(* sorts them into, with the two writes through which every status change  *)
(* reaches the row.                                                        *)
(***************************************************************************)

PENDING     == "pending"
IN_PROGRESS == "in_progress"
ABORTING    == "aborting"
SUCCESS     == "success"
FAILURE     == "failure"
ABORTED     == "aborted"
TIMED_OUT   == "timed_out"

TERMINAL_STATES  == {SUCCESS, FAILURE, ABORTED, TIMED_OUT}
ACTIVE_STATES    == {PENDING, IN_PROGRESS, ABORTING}
ABORTABLE_STATES == {PENDING, IN_PROGRESS}
ABORT_STATES     == {ABORTING, ABORTED}

Statuses == ACTIVE_STATES \cup TERMINAL_STATES

(***************************************************************************)
(* A task occupies the deduplication slot of its key ("active") until a    *)
(* write to a terminal status replaces dedup_key by the task's own uuid    *)
(* ("finished").  No write ever puts the active key back.                  *)
(***************************************************************************)
Slots == {"active", "finished"}

\* Mutants of SlotAfter: the status is written without dedup_key; dedup_key is
\* replaced by something that is not the uuid of the task.
SlotNeverFreed(slot, new) == slot
SlotRenamed(slot, new)    == IF new \in TERMINAL_STATES THEN new ELSE slot

SlotAfter(slot, new) == IF new \in TERMINAL_STATES THEN "finished" ELSE slot

===========================================================================
