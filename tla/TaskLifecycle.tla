--------------------------- MODULE TaskLifecycle ---------------------------
(***************************************************************************)
(* One task of the Global Task Framework, from the commit that creates its *)
(* row to the end of its life.  The actors are                             *)
(*                                                                         *)
(*   the submitter   enqueues the Celery message of the committed row;     *)
(*   the worker      the main thread of execute_task, and three threads    *)
(*                   that may abort the work from the side: the abort      *)
(*                   listener, the timeout timer and the heartbeat (which  *)
(*                   fences the worker when it cannot reach the metastore);*)
(*   the users       each may send one cancel request;                     *)
(*   the reaper      fails tasks whose heartbeat went stale.               *)
(*                                                                         *)
(* They share only the task's row.  Some of them write it through the      *)
(* compare-and-swap conditional_status_update (StatusCAS below), others    *)
(* through the ORM: they read the row, assign to the attribute, and the    *)
(* UPDATE that follows has no condition on the status it replaces          *)
(* (BlindWrite).  What the interleavings of the two kinds of write can and *)
(* cannot do is what this module is about.                                 *)
(***************************************************************************)
EXTENDS TaskStatus, Naturals, FiniteSets

CONSTANTS
    Subscribers,      \* users subscribed to the task when it is created
    Admins,           \* users that cancel with the admin-only force flag
    HasTimeout,       \* the submit configured a timeout
    HasPrerequisites, \* the task depends on other tasks
    Crashes,          \* the worker process may die at any step
    Outages,          \* the worker may lose its connection to the metastore
    BrokerFaults      \* publishing to the Celery broker may fail

ASSUME LifecycleAssumption ==
    /\ IsFiniteSet(Subscribers)
    /\ {HasTimeout, HasPrerequisites, Crashes, Outages, BrokerFaults}
           \subseteq BOOLEAN

Users == Subscribers \cup Admins

VARIABLES
    \* the row of the task
    status, slot, heartbeat, abortable, subscribers,
    \* what the prerequisites have come to: "waiting", "success" or "failed"
    prerequisites,
    \* whoever published the task's message, until it knows the outcome, and
    \* the worker's main thread: where each one is
    submit, pc,
    \* the side threads of the worker: where each one is
    thread,
    \* TaskContext: flags shared by the threads of the worker
    handlers, completed, detected, timeoutTriggered, fenceTriggered,
    handlersCompleted, failures, handlerRuns,
    \* cancel requests, the reaper, and the completions published so far
    cancel, reaper, announced

row     == <<status, slot, heartbeat, abortable, subscribers>>
context == <<handlers, completed, detected, timeoutTriggered, fenceTriggered,
             handlersCompleted, failures, handlerRuns>>
world   == <<prerequisites, submit, cancel, reaper, announced>>
vars    == <<row, context, world, pc, thread>>

Threads == {"listener", "timer", "fence"}

\* The part of execute_task that runs under the heartbeat.
HeartbeatSpan ==
    {"claim", "context", "body", "appended", "registering", "returned", "raised", "commit",
     "fail", "cleanup", "inspect", "handle", "tidy", "finalize", "fin_fenced",
     "fin_timed_out", "fin_aborted", "fin_stuck", "refresh"}

\* The part before it, in which a failure leaves the row untouched.
PickupSpan == {"loaded_aborted", "gate", "defer", "undeferrable", "unmet", "stamp"}

TypeOK ==
    /\ status \in Statuses
    /\ slot \in Slots
    /\ heartbeat \in {"null", "fresh", "stale"}
    /\ abortable \in BOOLEAN
    /\ subscribers \subseteq Subscribers
    /\ prerequisites \in {"waiting", "success", "failed"}
    /\ submit \in {"enqueue", "recover", "redefer", "done"}
    /\ pc \in {"unsent", "queued", "exited", "crashed"}
                  \cup PickupSpan \cup HeartbeatSpan
    /\ thread \in [Threads -> {"off", "watch", "mark", "read", "write",
                               "elect", "detect", "handle", "done"}]
    /\ handlers \in BOOLEAN /\ completed \in BOOLEAN /\ detected \in BOOLEAN
    /\ timeoutTriggered \in BOOLEAN /\ fenceTriggered \in BOOLEAN
    /\ handlersCompleted \in BOOLEAN
    /\ failures \subseteq {"abort", "cleanup"}
    /\ handlerRuns \in Nat
    /\ cancel \in [Users -> {"idle", "abort_pending", "abort_running", "aborted",
                             "unsubscribed", "refused"}]
    /\ reaper \in {"idle", "found"}
    /\ announced \subseteq TERMINAL_STATES

Init ==
    /\ status = PENDING /\ slot = "active" /\ heartbeat = "null"
    /\ abortable = FALSE /\ subscribers = Subscribers
    /\ prerequisites = IF HasPrerequisites THEN "waiting" ELSE "success"
    /\ submit = "enqueue" /\ pc = "unsent"
    /\ thread = [t \in Threads |-> "off"]
    /\ handlers = FALSE /\ completed = FALSE /\ detected = FALSE
    /\ timeoutTriggered = FALSE /\ fenceTriggered = FALSE
    /\ handlersCompleted = FALSE /\ failures = {} /\ handlerRuns = 0
    /\ cancel = [u \in Users |-> "idle"] /\ reaper = "idle" /\ announced = {}

----------------------------------------------------------------------------
(* The two ways to write a status.                                         *)

\* Mutant of StatusCAS: the UPDATE lost its condition on the status.
StatusSet(expected, new) ==
    /\ status' = new
    /\ slot'   = SlotAfter(slot, new)

StatusCAS(expected, new) ==
    /\ status' = IF status \in expected THEN new ELSE status
    /\ slot'   = IF status \in expected THEN SlotAfter(slot, new) ELSE slot

BlindWrite(new) ==
    /\ status' = new
    /\ slot'   = SlotAfter(slot, new)

\* publish_completion; it follows the commit it reports in the same thread.
AnnounceIf(condition, terminal) ==
    announced' = IF condition THEN announced \cup {terminal} ELSE announced

Goto(label) == pc' = label

Move(t, label) == thread' = [thread EXCEPT ![t] = label]

----------------------------------------------------------------------------
(* The submitter: TaskManager.submit_task after its row is committed.      *)

Enqueue ==
    /\ submit = "enqueue"
    /\ submit' = "done"
    /\ Goto("queued")
    /\ UNCHANGED <<row, context, prerequisites, cancel, reaper, announced, thread>>

\* delay() raised: the broker may or may not have taken the message.
EnqueueFails ==
    /\ BrokerFaults
    /\ submit = "enqueue"
    /\ submit' = "recover"
    /\ Goto("unsent") \/ Goto("queued")
    /\ UNCHANGED <<row, context, prerequisites, cancel, reaper, announced, thread>>

FailUnenqueued ==
    /\ submit = "recover"
    /\ submit' = "done"
    /\ \/ /\ StatusCAS({PENDING}, FAILURE)
          /\ AnnounceIf(status = PENDING, FAILURE)
       \/ Outages /\ UNCHANGED <<status, slot, announced>>
    /\ UNCHANGED <<heartbeat, abortable, subscribers, context, prerequisites,
                   cancel, reaper, pc, thread>>

----------------------------------------------------------------------------
(* The worker picks the message up: execute_task.                          *)

Load ==
    /\ pc = "queued"
    /\ Goto(IF status \in ABORT_STATES THEN "loaded_aborted" ELSE "gate")
    /\ UNCHANGED <<row, context, world, thread>>

FinishAborted ==
    /\ pc = "loaded_aborted"
    /\ StatusCAS({PENDING, ABORTING}, ABORTED)
    /\ AnnounceIf(status \in {PENDING, ABORTING}, ABORTED)
    /\ Goto("exited")
    /\ UNCHANGED <<heartbeat, abortable, subscribers, context, prerequisites,
                   submit, cancel, reaper, thread>>

\* unmet_prerequisite: all of them must have ended in SUCCESS.
Gate ==
    /\ pc = "gate"
    /\ Goto(CASE prerequisites = "success" -> "stamp"
              [] prerequisites = "waiting" -> "defer"
              [] prerequisites = "failed"  -> "unmet")
    /\ UNCHANGED <<row, context, world, thread>>

\* self.retry: a new message, and this execution ends.  When it raises instead,
\* the broker may have taken the message all the same: then another execution
\* begins while this one, as the task's publisher, fails it.
Defer ==
    /\ pc = "defer"
    /\ \/ Goto("queued") /\ UNCHANGED submit
       \/ BrokerFaults /\ Goto("undeferrable") /\ UNCHANGED submit
       \/ /\ BrokerFaults /\ submit = "done"
          /\ submit' = "redefer" /\ Goto("queued")
    /\ UNCHANGED <<row, context, prerequisites, cancel, reaper, announced, thread>>

\* Its write, which the end of its worker or an outage may prevent.
FailUndeferred ==
    /\ submit = "redefer"
    /\ submit' = "done"
    /\ \/ /\ StatusCAS({PENDING, ABORTING}, FAILURE)
          /\ AnnounceIf(status \in {PENDING, ABORTING}, FAILURE)
       \/ (Outages \/ Crashes) /\ UNCHANGED <<status, slot, announced>>
    /\ UNCHANGED <<heartbeat, abortable, subscribers, context, prerequisites,
                   cancel, reaper, pc, thread>>

\* A prerequisite failed, or the retry could not be published.
FailBeforeClaim ==
    /\ pc \in {"unmet", "undeferrable"}
    /\ StatusCAS({PENDING, ABORTING}, FAILURE)
    /\ AnnounceIf(status \in {PENDING, ABORTING}, FAILURE)
    /\ Goto("exited")
    /\ UNCHANGED <<heartbeat, abortable, subscribers, context, prerequisites,
                   submit, cancel, reaper, thread>>

\* _persist_celery_task_id, then the first stamp of the heartbeat.
Stamp ==
    /\ pc = "stamp"
    /\ heartbeat' = "fresh" \/ (Outages /\ UNCHANGED heartbeat)
    /\ Goto("claim")
    /\ UNCHANGED <<status, slot, abortable, subscribers, context, world, thread>>

----------------------------------------------------------------------------
(* The worker runs the task: _execute_task_body.                           *)

Claim ==
    /\ pc = "claim"
    /\ StatusCAS({PENDING}, IN_PROGRESS)
    /\ Goto(IF status = PENDING THEN "context" ELSE "exited")
    /\ UNCHANGED <<heartbeat, abortable, subscribers, context, world, thread>>

(***************************************************************************)
(* task.status = IN_PROGRESS assigns to an attribute of a persistent ORM   *)
(* entity that the claim's commit has just expired: the session flushes it *)
(* with its next statement, an UPDATE of the status keyed by the id alone. *)
(* The row stays locked from that flush to the commit that follows it, so  *)
(* the two are one step.  The fence and the timer are armed next.          *)
(***************************************************************************)
BuildContext ==
    /\ pc = "context"
    /\ BlindWrite(IN_PROGRESS)
    /\ thread' = [thread EXCEPT
                    !["fence"] = "watch",
                    !["timer"] = IF HasTimeout THEN "watch" ELSE "off"]
    /\ Goto("body")
    /\ UNCHANGED <<heartbeat, abortable, subscribers, context, world>>

\* ctx.on_abort appends its first handler to the list, ...
RegisterHandler ==
    /\ pc = "body" /\ ~handlers
    /\ handlers' = TRUE
    /\ Goto("appended")
    /\ UNCHANGED <<row, world, thread, completed, detected, timeoutTriggered,
                   fenceTriggered, handlersCompleted, failures, handlerRuns>>

\* ... sets is_abortable in the worker's cache of the properties, ...
CacheAbortable ==
    /\ pc = "appended"
    /\ Goto("registering")
    /\ UNCHANGED <<row, context, world, thread>>

CachedAbortable == handlers /\ pc # "appended"

\* ... writes it to the row, and starts the abort listener.
SetAbortable ==
    /\ pc = "registering"
    /\ abortable' = TRUE
    /\ Move("listener", "watch")
    /\ Goto("body")
    /\ UNCHANGED <<status, slot, heartbeat, subscribers, context, world>>

BodyEnds ==
    /\ pc = "body"
    /\ completed' = TRUE
    /\ Goto("returned") \/ Goto("raised")
    /\ UNCHANGED <<row, world, thread, handlers, detected, timeoutTriggered,
                   fenceTriggered, handlersCompleted, failures, handlerRuns>>

AbortingInFlight == detected \/ timeoutTriggered \/ fenceTriggered

Decide ==
    /\ pc \in {"returned", "raised"}
    /\ Goto(IF AbortingInFlight THEN "cleanup"
            ELSE IF pc = "returned" THEN "commit" ELSE "fail")
    /\ UNCHANGED <<row, context, world, thread>>

Commit ==
    /\ pc \in {"commit", "fail"}
    /\ StatusCAS({IN_PROGRESS, ABORTING}, IF pc = "commit" THEN SUCCESS ELSE FAILURE)
    /\ Goto("cleanup")
    /\ UNCHANGED <<heartbeat, abortable, subscribers, context, world, thread>>

----------------------------------------------------------------------------
(* The worker ends the task: TaskContext._run_cleanup and the finally      *)
(* block of _execute_task_body.                                            *)

\* Stopping cannot recall a listener that has seen the abort, nor a timer
\* that has fired.
StopThreads ==
    /\ pc = "cleanup"
    /\ thread' = [t \in Threads |-> IF t # "fence" /\ thread[t] = "watch"
                                    THEN "done" ELSE thread[t]]
    /\ Goto("inspect")
    /\ UNCHANGED <<row, context, world>>

\* Mutant of AbortUndetected: it does not look at the status.
NothingDetected == ~detected

\* The task ended before the listener saw the abort.
AbortUndetected == status \in ABORT_STATES /\ ~detected

InspectStatus ==
    /\ pc = "inspect"
    /\ Goto(IF AbortUndetected THEN "handle" ELSE "tidy")
    /\ UNCHANGED <<row, context, world, thread>>

\* _trigger_abort_handlers: every handler runs, failures are collected.
TriggerAbortHandlers ==
    \E ok \in BOOLEAN :
        LET failed == IF ok \/ ~handlers THEN failures ELSE failures \cup {"abort"}
        IN  /\ failures' = failed
            /\ handlersCompleted' = (handlersCompleted \/ "abort" \notin failed)
            /\ handlerRuns' = IF handlers THEN handlerRuns + 1 ELSE handlerRuns

HandleInCleanup ==
    /\ pc = "handle"
    /\ TriggerAbortHandlers
    /\ Goto("tidy")
    /\ UNCHANGED <<row, world, thread, handlers, completed, detected,
                   timeoutTriggered, fenceTriggered>>

\* The cleanup handlers; collected failures fail the task if it is active.
Tidy ==
    /\ pc = "tidy"
    /\ \E failed \in {failures, failures \cup {"cleanup"}} :
          IF failed = {} THEN UNCHANGED <<status, slot>>
                         ELSE StatusCAS({IN_PROGRESS, ABORTING}, FAILURE)
    /\ failures' = {}
    /\ Goto("finalize")
    /\ UNCHANGED <<heartbeat, abortable, subscribers, world, thread, handlers,
                   completed, detected, timeoutTriggered, fenceTriggered,
                   handlersCompleted, handlerRuns>>

\* Mutant of AbortOutcome: it does not ask what caused the abort.
AbortOutcomeUncaused == IF handlersCompleted THEN "fin_aborted" ELSE "fin_stuck"

\* What an aborted execution comes to.
AbortOutcome == CASE ~handlersCompleted -> "fin_stuck"
                  [] handlersCompleted /\ timeoutTriggered -> "fin_timed_out"
                  [] handlersCompleted /\ ~timeoutTriggered -> "fin_aborted"

ChooseFinal ==
    /\ pc = "finalize"
    /\ Goto(IF fenceTriggered THEN "fin_fenced"
            ELSE IF AbortingInFlight THEN AbortOutcome ELSE "refresh")
    /\ UNCHANGED <<row, context, world, thread>>

Finalize ==
    /\ \/ pc = "fin_fenced"    /\ StatusCAS({IN_PROGRESS, ABORTING}, FAILURE)
       \/ pc = "fin_timed_out" /\ StatusCAS({ABORTING}, TIMED_OUT)
       \/ pc = "fin_aborted"   /\ StatusCAS({ABORTING}, ABORTED)
       \/ pc = "fin_stuck"     /\ StatusCAS({ABORTING}, FAILURE)
    /\ Goto("refresh")
    /\ UNCHANGED <<heartbeat, abortable, subscribers, context, world, thread>>

PublishFinal ==
    /\ pc = "refresh"
    /\ AnnounceIf(status \in TERMINAL_STATES, status)
    /\ Goto("exited")
    /\ UNCHANGED <<row, context, thread, prerequisites, submit, cancel, reaper>>

----------------------------------------------------------------------------
(* The worker fails.                                                       *)

\* A metastore statement of the main thread raises: where control goes next.
CommandRaises ==
    /\ Outages
    /\ \/ pc \in PickupSpan \ {"defer"} /\ Goto("exited")
       \/ pc \in {"claim", "context"}   /\ Goto("exited")
       \/ pc = "commit"                 /\ Goto("raised")
       \/ pc = "fail"                   /\ Goto("cleanup")
       \/ pc \in {"cleanup", "inspect", "tidy", "fin_fenced", "fin_timed_out",
                  "fin_aborted", "fin_stuck", "refresh"} /\ Goto("exited")
    /\ UNCHANGED <<row, context, world, thread>>

\* The write of is_abortable raises inside the task function.
RegistrationRaises ==
    /\ Outages
    /\ pc = "registering"
    /\ completed' = TRUE
    /\ Goto("raised")
    /\ UNCHANGED <<row, world, thread, handlers, detected, timeoutTriggered,
                   fenceTriggered, handlersCompleted, failures, handlerRuns>>

Crash ==
    /\ Crashes
    /\ pc \in PickupSpan \cup HeartbeatSpan
    /\ Goto("crashed")
    /\ thread' = [t \in Threads |-> "done"]
    /\ UNCHANGED <<row, context, world>>

----------------------------------------------------------------------------
(* The heartbeat of the worker: task_heartbeat.                            *)

\* The heartbeat thread ends with the execution, or once it has fenced it.
Beating == pc \in HeartbeatSpan /\ thread["fence"] \in {"off", "watch"}

Beat ==
    /\ Beating
    /\ heartbeat # "fresh"
    /\ heartbeat' = "fresh"
    /\ UNCHANGED <<status, slot, abortable, subscribers, context, world, pc, thread>>

\* GTF_ORPHAN_TASK_TIMEOUT passes without a successful stamp.
HeartbeatAges ==
    /\ heartbeat = "fresh"
    /\ Outages \/ ~Beating
    /\ heartbeat' = "stale"
    /\ UNCHANGED <<status, slot, abortable, subscribers, context, world, pc, thread>>

----------------------------------------------------------------------------
(* The threads that abort the work: listener, timer and fence.             *)

\* _abort_lock is held by a timer about to set its flag, and by the thread
\* that is electing itself; trigger_self_fence sets its flag without it.
AbortLockFree ==
    /\ thread["timer"] # "mark"
    /\ \A t \in Threads : thread[t] # "detect"

\* The task lock is held by a cancel between its read and its commit.
TaskLockFree == \A u \in Users : cancel[u] \notin {"abort_pending", "abort_running"}

\* _check_abort_status
ListenerDetects ==
    /\ thread["listener"] = "watch"
    /\ status \in ABORT_STATES
    /\ Move("listener", "elect")
    /\ UNCHANGED <<row, context, world, pc>>

\* Without a registered handler the timeout is a no-op.
TimeoutIsMoot == completed \/ detected \/ ~handlers

\* on_timeout
TimerFires ==
    /\ thread["timer"] = "watch"
    /\ AbortLockFree
    /\ Move("timer", IF TimeoutIsMoot THEN "done" ELSE "mark")
    /\ UNCHANGED <<row, context, world, pc>>

\* Stamping failed for the whole orphan window: trigger_self_fence.
FenceFires ==
    /\ Outages
    /\ Beating /\ thread["fence"] = "watch"
    /\ heartbeat # "fresh"
    /\ Move("fence", IF completed \/ detected THEN "done" ELSE "mark")
    /\ UNCHANGED <<row, context, world, pc>>

\* A flag is set; then _abort_locally gives up unless the cached property says
\* that an abort handler is registered.
MarkTimeout ==
    /\ thread["timer"] = "mark"
    /\ timeoutTriggered' = TRUE
    /\ Move("timer", IF CachedAbortable THEN "read" ELSE "done")
    /\ UNCHANGED <<row, world, pc, handlers, completed, detected, fenceTriggered,
                   handlersCompleted, failures, handlerRuns>>

MarkFence ==
    /\ thread["fence"] = "mark"
    /\ fenceTriggered' = TRUE
    /\ Move("fence", IF CachedAbortable THEN "read" ELSE "done")
    /\ UNCHANGED <<row, world, pc, handlers, completed, detected, timeoutTriggered,
                   handlersCompleted, failures, handlerRuns>>

(***************************************************************************)
(* UpdateTaskCommand(status = ABORTING) of _abort_locally.  It reads the   *)
(* row under the task lock, assigns whatever the status is, releases the   *)
(* lock and commits; an assignment of the value just read writes nothing.  *)
(***************************************************************************)
LocalRead(t) ==
    /\ thread[t] = "read"
    /\ TaskLockFree
    /\ Move(t, IF status = ABORTING THEN "elect" ELSE "write")
    /\ UNCHANGED <<row, context, world, pc>>

LocalWrite(t) ==
    /\ thread[t] = "write"
    /\ BlindWrite(ABORTING)
    /\ Move(t, "elect")
    /\ UNCHANGED <<heartbeat, abortable, subscribers, context, world, pc>>

\* The write is best effort: the handlers run without it.
LocalWriteFails(t) ==
    /\ Outages
    /\ thread[t] \in {"read", "write"}
    /\ Move(t, "elect")
    /\ UNCHANGED <<row, context, world, pc>>

\* _on_abort_detected: the check and the election, under _abort_lock.
Elect(t) ==
    /\ thread[t] = "elect"
    /\ AbortLockFree
    /\ Move(t, IF detected \/ completed THEN "done" ELSE "detect")
    /\ UNCHANGED <<row, context, world, pc>>

DetectAbort(t) ==
    /\ thread[t] = "detect"
    /\ detected' = TRUE
    /\ Move(t, "handle")
    /\ UNCHANGED <<row, world, pc, handlers, completed, timeoutTriggered,
                   fenceTriggered, handlersCompleted, failures, handlerRuns>>

Handle(t) ==
    /\ thread[t] = "handle"
    /\ TriggerAbortHandlers
    /\ Move(t, "done")
    /\ UNCHANGED <<row, world, pc, handlers, completed, detected, timeoutTriggered,
                   fenceTriggered>>

----------------------------------------------------------------------------
(* Cancel requests: CancelTaskCommand on a shared task.                    *)

Cancellable(u) ==
    /\ cancel[u] = "idle" /\ TaskLockFree
    /\ status \in ABORTABLE_STATES \cup {ABORTING}
    /\ u \in Admins \/ u \in subscribers

\* Abort for an admin's force or the last subscriber, unsubscribe otherwise.
MustAbort(u) == u \in Admins \/ Cardinality(subscribers) <= 1

Answer(u, outcome) == cancel' = [cancel EXCEPT ![u] = outcome]

CancelRefused(u) ==
    /\ cancel[u] = "idle" /\ TaskLockFree
    /\ \/ ~Cancellable(u)
       \/ MustAbort(u) /\ status = IN_PROGRESS /\ ~abortable
    /\ Answer(u, "refused")
    /\ UNCHANGED <<row, context, prerequisites, submit, reaper, announced, pc, thread>>

CancelUnsubscribes(u) ==
    /\ Cancellable(u) /\ ~MustAbort(u)
    /\ subscribers' = subscribers \ {u}
    /\ Answer(u, "unsubscribed")
    /\ UNCHANGED <<status, slot, heartbeat, abortable, context, prerequisites,
                   submit, reaper, announced, pc, thread>>

\* Mutant of CancelReads: is_abortable is not looked at.
CancelReadsOnly(u) ==
    /\ Cancellable(u) /\ MustAbort(u)
    /\ \/ status = PENDING      /\ Answer(u, "abort_pending")
       \/ status = IN_PROGRESS  /\ Answer(u, "abort_running")
       \/ status = ABORTING     /\ Answer(u, "aborted")
    /\ UNCHANGED <<row, context, prerequisites, submit, reaper, announced, pc, thread>>

\* abort_task reads the row and decides; the write comes with the commit.
CancelReads(u) ==
    /\ Cancellable(u) /\ MustAbort(u)
    /\ \/ status = PENDING                   /\ Answer(u, "abort_pending")
       \/ status = IN_PROGRESS /\ abortable  /\ Answer(u, "abort_running")
       \/ status = ABORTING                  /\ Answer(u, "aborted")
    /\ UNCHANGED <<row, context, prerequisites, submit, reaper, announced, pc, thread>>

\* Mutant of PublishCancelled: the cancel leaves the publishing to a worker.
CancelUnpublished == UNCHANGED announced

\* No worker will publish for a task aborted straight out of the queue.
PublishCancelled == AnnounceIf(TRUE, ABORTED)

CancelWrites(u) ==
    /\ \/ /\ cancel[u] = "abort_pending"
          /\ BlindWrite(ABORTED)
          /\ PublishCancelled
       \/ /\ cancel[u] = "abort_running"
          /\ BlindWrite(ABORTING)
          /\ UNCHANGED announced
    /\ Answer(u, "aborted")
    /\ UNCHANGED <<heartbeat, abortable, subscribers, context, prerequisites,
                   submit, reaper, pc, thread>>

----------------------------------------------------------------------------
(* The reaper: find_orphaned reads the stale tasks, _reap fails each.      *)

\* Mutant of Orphaned: the reaper overlooks tasks that are being aborted, and
\* those that died before they were claimed.
OrphanedInProgress == status = IN_PROGRESS /\ heartbeat = "stale"

\* A NULL heartbeat means that no worker has picked the task up yet.
Orphaned == status \in ACTIVE_STATES /\ heartbeat = "stale"

FindOrphaned ==
    /\ reaper = "idle"
    /\ Orphaned
    /\ reaper' = "found"
    /\ UNCHANGED <<row, context, prerequisites, submit, cancel, announced, pc, thread>>

Reap ==
    /\ reaper = "found"
    /\ StatusCAS(ACTIVE_STATES, FAILURE)
    /\ AnnounceIf(status \in ACTIVE_STATES, FAILURE)
    /\ reaper' = "idle"
    /\ UNCHANGED <<heartbeat, abortable, subscribers, context, prerequisites,
                   submit, cancel, pc, thread>>

\* The prerequisites are tasks of their own; here they only end.
PrerequisitesEnd ==
    /\ prerequisites = "waiting"
    /\ prerequisites' \in {"success", "failed"}
    /\ UNCHANGED <<row, context, submit, cancel, reaper, announced, pc, thread>>

----------------------------------------------------------------------------
Publisher == Enqueue \/ EnqueueFails \/ FailUnenqueued \/ FailUndeferred

Pickup == Load \/ FinishAborted \/ Gate \/ Defer \/ FailBeforeClaim \/ Stamp

Execution == Claim \/ BuildContext \/ RegisterHandler \/ CacheAbortable
                \/ SetAbortable \/ BodyEnds \/ Decide \/ Commit

Ending == StopThreads \/ InspectStatus \/ HandleInCleanup \/ Tidy \/ ChooseFinal
             \/ Finalize \/ PublishFinal

Failing == CommandRaises \/ RegistrationRaises \/ Crash

LocalAbort(t) == LocalRead(t) \/ LocalWrite(t) \/ LocalWriteFails(t)

Aborting ==
    \/ ListenerDetects \/ TimerFires \/ FenceFires \/ MarkTimeout \/ MarkFence
    \/ \E t \in {"timer", "fence"} : LocalAbort(t)
    \/ \E t \in Threads : Elect(t) \/ DetectAbort(t) \/ Handle(t)

Cancelling ==
    \E u \in Users : CancelRefused(u) \/ CancelUnsubscribes(u) \/ CancelReads(u)
                        \/ CancelWrites(u)

Next ==
    \/ Publisher \/ Pickup \/ Execution \/ Ending \/ Failing
    \/ Beat \/ HeartbeatAges
    \/ Aborting \/ Cancelling
    \/ FindOrphaned \/ Reap
    \/ PrerequisitesEnd

(***************************************************************************)
(* Fairness.  A worker that neither crashes nor loses its metastore keeps  *)
(* executing, and so do its threads; a task function returns; time passes; *)
(* the beat job that runs the reaper is scheduled for ever.  Nobody is     *)
(* bound to cancel, and the broker is not bound to deliver a retry, which  *)
(* waits for the prerequisites.                                            *)
(***************************************************************************)
Fairness ==
    /\ WF_vars(Pickup) /\ WF_vars(Execution) /\ WF_vars(Ending)
    /\ WF_vars(Aborting)
    /\ WF_vars(HeartbeatAges /\ ~Beating)
    /\ WF_vars(FindOrphaned) /\ WF_vars(Reap)
    /\ \A u \in Users : WF_vars(CancelWrites(u))

Spec == Init /\ [][Next]_vars /\ Fairness

----------------------------------------------------------------------------
(* Safety.                                                                 *)

\* A task in a terminal status has given its deduplication slot back, however
\* it got there: by a compare-and-swap or by an ORM write.
TerminalFreesSlot == status \in TERMINAL_STATES => slot = "finished"

\* A task is only ever ABORTING if its function registered an abort handler:
\* abort_task and the timeout both refuse to stop work they cannot cancel.
AbortingHasHandler == status = ABORTING => handlers

UserAborted == \E u \in Users : cancel[u] = "aborted"

\* Every outcome has the cause it reports: SUCCESS a function that ended,
\* TIMED_OUT a timer that fired, ABORTED a user's cancel.
OutcomeHasCause ==
    /\ status = SUCCESS => completed
    /\ status = TIMED_OUT => timeoutTriggered
    /\ status = ABORTED => UserAborted

\* No abort handler runs (no query is cancelled) unless somebody asked: a
\* user, the timeout, or the fence.
HandlersHaveCause ==
    handlerRuns > 0 => \/ timeoutTriggered \/ fenceTriggered
                       \/ UserAborted

\* When every actor has come to rest, a terminal status has been published:
\* a websocket client, which does not poll, is not left waiting.
Quiescent ==
    /\ submit = "done" /\ reaper = "idle"
    /\ pc \in {"unsent", "queued", "exited"}
    /\ \A t \in Threads : \/ thread[t] \in {"off", "done"}
                          \/ t = "fence" /\ thread[t] = "watch"
    /\ \A u \in Users : cancel[u] \notin {"abort_pending", "abort_running"}

QuiescentIsAnnounced ==
    Quiescent /\ status \in TERMINAL_STATES => status \in announced

----------------------------------------------------------------------------
(* What a step may never do.                                               *)

\* Only the three writes that do not compare before they swap can disturb a
\* terminal status; the executor's transitions, the reaper's and those of a
\* failed enqueue never do.
BlindStep ==
    \/ pc = "context" /\ pc' = "body"
    \/ \E t \in Threads : thread[t] = "write" /\ thread'[t] = "elect"
    \/ \E u \in Users : /\ cancel[u] \in {"abort_pending", "abort_running"}
                        /\ cancel'[u] = "aborted"

OnlyBlindWritesReopen ==
    [][(status \in TERMINAL_STATES /\ status' # status) => BlindStep]_vars

(***************************************************************************)
(* The contract of a task's status.  The system as a whole breaks it: each *)
(* of the three blind writes can change a status that is already terminal. *)
(* The transitions made by compare-and-swap alone keep it.                 *)
(***************************************************************************)
Contract == INSTANCE TaskContract

ImplementsContract == Contract!Spec

\* "A terminal status never changes" (unmet_prerequisite relies on it).
TerminalIsFinal == [][(status \in TERMINAL_STATES) => (status' = status)]_vars

----------------------------------------------------------------------------
(* Liveness.                                                               *)

\* A task that a worker has picked up ends, whatever happens to the worker:
\* the worker ends it, or its heartbeat goes stale and the reaper does.  A
\* write that reopens an ended task does not keep it open for ever either.
PickedUpTaskStaysEnded ==
    (heartbeat # "null" /\ status \in ACTIVE_STATES) ~> [](status \in TERMINAL_STATES)

\* A committed success stands: "a fence racing in after successful completion
\* cannot clobber the result".
SuccessStands == [](status = SUCCESS => [](status = SUCCESS))

============================================================================
