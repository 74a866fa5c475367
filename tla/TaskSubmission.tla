--------------------------- MODULE TaskSubmission ---------------------------
(***************************************************************************)
(* Submits and cancels of one deduplication key, from many clients.  The   *)
(* clients are browser tabs that watch the same shared chart-data query:   *)
(* a submit creates its task or joins the active one, and a cancel ends    *)
(* the task only when nobody else watches it.  Principals (users) are      *)
(* subscribers of a task; the tabs of each are listed in its properties by *)
(* the subscription policy (ChartQueryConsumerPolicy).                     *)
(*                                                                         *)
(* Clients hold the task lock (see TaskLock, whose contract `holder'       *)
(* stands for) from before they read until after they have committed.  The *)
(* executor writes the same row without it.  Statuses of ended tasks are   *)
(* left to TaskLifecycle.                                                  *)
(***************************************************************************)
EXTENDS TaskStatus, FiniteSets, Naturals

CONSTANTS
    Clients,       \* browser tabs
    Principals,    \* the users or guests they belong to
    Owner,         \* the principal of each client
    Nobody,        \* no client
    LockExpires,   \* a client may outlive the time to live of its lock
    BrokerFaults,  \* publishing to the Celery broker may fail
    MaxTasks       \* bound: how many tasks are ever created

ASSUME SubmissionAssumption ==
    /\ Owner \in [Clients -> Principals]
    /\ IsFiniteSet(Principals)
    /\ Nobody \notin Clients
    /\ {LockExpires, BrokerFaults} \subseteq BOOLEAN
    /\ MaxTasks \in Nat

Tasks == 1..MaxTasks

VARIABLES
    \* the rows: `created' of them exist; properties are the JSON blob
    created, status, slot, subscribers, properties,
    \* the Celery message and the properties cached by each task's worker
    queued, cache,
    \* the lock of the key; history: did it ever expire under its holder
    holder, lost,
    \* where each client is, its task, and the properties it last read
    pc, target, seen

rows == <<created, status, slot, subscribers, properties>>
vars == <<rows, queued, cache, holder, lost, pc, target, seen>>

Properties == [is_abortable : BOOLEAN, consumers : SUBSET Clients]

TypeOK ==
    /\ created \in 0..MaxTasks
    /\ status \in [Tasks -> Statuses] /\ slot \in [Tasks -> Slots]
    /\ subscribers \in [Tasks -> SUBSET Principals]
    /\ properties \in [Tasks -> Properties] /\ cache \in [Tasks -> Properties]
    /\ queued \in [Tasks -> BOOLEAN]
    /\ holder \in Clients \cup {Nobody} /\ lost \in BOOLEAN
    /\ pc \in [Clients -> {"idle", "find", "join", "insert", "reread", "new", "old",
                           "raise", "enqueue", "recover", "watching", "validate",
                           "decide", "left", "kept", "failed", "gone", "stays"}]
    /\ target \in [Clients -> 0..MaxTasks]
    /\ seen \in [Clients -> Properties]

Blank == [is_abortable |-> FALSE, consumers |-> {}]

Init ==
    /\ created = 0
    /\ status = [t \in Tasks |-> PENDING] /\ slot = [t \in Tasks |-> "finished"]
    /\ subscribers = [t \in Tasks |-> {}]
    /\ properties = [t \in Tasks |-> Blank] /\ cache = [t \in Tasks |-> Blank]
    /\ queued = [t \in Tasks |-> FALSE]
    /\ holder = Nobody /\ lost = FALSE
    /\ pc = [c \in Clients |-> "idle"] /\ target = [c \in Clients |-> 0]
    /\ seen = [c \in Clients |-> Blank]

Goto(c, label) == pc' = [pc EXCEPT ![c] = label]

\* find_by_task_key: the unique index on dedup_key admits one such task.
ActiveTasks == {t \in 1..created : slot[t] = "active"}

SetStatus(t, new) ==
    /\ status' = [status EXCEPT ![t] = new]
    /\ slot'   = [slot EXCEPT ![t] = SlotAfter(@, new)]

----------------------------------------------------------------------------
(* The lock.                                                               *)

\* Mutant of Lock: the client does not wait for its turn.
LockWithoutWaiting(c) == holder' = c

Lock(c) == holder = Nobody /\ holder' = c

Unlock(c) == holder' = IF holder = c THEN Nobody ELSE holder

\* Once is enough: what follows is conditional on the lock never expiring.
Expire ==
    /\ LockExpires /\ ~lost
    /\ holder # Nobody
    /\ holder' = Nobody
    /\ lost' = TRUE
    /\ UNCHANGED <<rows, queued, cache, pc, target, seen>>

----------------------------------------------------------------------------
(* Submit: run_with_info and _create_or_join.                              *)

Submit(c) ==
    /\ pc[c] = "idle"
    /\ Lock(c)
    /\ Goto(c, "find")
    /\ UNCHANGED <<rows, queued, cache, lost, target, seen>>

\* The row is read here and written, from what was read, at the commit.
FindActive(c, otherwise) ==
    IF ActiveTasks = {} THEN Goto(c, otherwise) /\ UNCHANGED <<target, seen>>
    ELSE \E t \in ActiveTasks :
            /\ target' = [target EXCEPT ![c] = t]
            /\ seen' = [seen EXCEPT ![c] = properties[t]]
            /\ Goto(c, "join")

Find(c) ==
    /\ pc[c] = "find"
    /\ FindActive(c, "insert")
    /\ UNCHANGED <<rows, queued, cache, holder, lost>>

\* _join_existing: the bump of dedupe_count writes the whole blob back, the
\* policy then merges the client into it.
Join(c) ==
    /\ pc[c] = "join"
    /\ LET t == target[c] IN
         /\ properties' = [properties EXCEPT ![t] =
                             [seen[c] EXCEPT !.consumers = @ \cup {c}]]
         /\ subscribers' = [subscribers EXCEPT ![t] = @ \cup {Owner[c]}]
    /\ seen' = [seen EXCEPT ![c] = Blank]
    /\ Goto(c, "old")
    /\ UNCHANGED <<created, status, slot, queued, cache, holder, lost, target>>

\* Mutant of IntegrityError: no unique index, the lock is all there is.
NoIntegrityError == FALSE

IntegrityError == ActiveTasks # {}

\* The unique index on dedup_key decides; a violation rolls back to the
\* savepoint.
Insert(c) ==
    /\ pc[c] = "insert"
    /\ IF IntegrityError
       THEN Goto(c, "reread") /\ UNCHANGED <<rows, target>>
       ELSE LET t == created + 1 IN
              /\ t <= MaxTasks
              /\ created' = t
              /\ UNCHANGED status
              /\ slot' = [slot EXCEPT ![t] = "active"]
              /\ subscribers' = [subscribers EXCEPT ![t] = {Owner[c]}]
              /\ properties' = [properties EXCEPT ![t].consumers = {c}]
              /\ target' = [target EXCEPT ![c] = t]
              /\ Goto(c, "new")
    /\ UNCHANGED <<queued, cache, holder, lost, seen>>

\* Join the winner, or raise if it has ended meanwhile.
Reread(c) ==
    /\ pc[c] = "reread"
    /\ FindActive(c, "raise")
    /\ UNCHANGED <<rows, queued, cache, holder, lost>>

After(label) == CASE label = "new" -> "enqueue" [] label = "old" -> "watching"
                  [] label = "raise" -> "failed" [] label = "left" -> "gone"
                  [] label = "kept" -> "stays"

\* The lock is released after the commit, also on the way of an exception.
ReleaseLock(c) ==
    /\ pc[c] \in {"new", "old", "raise", "left", "kept"}
    /\ Unlock(c)
    /\ Goto(c, After(pc[c]))
    /\ UNCHANGED <<rows, queued, cache, lost, target, seen>>

\* TaskManager.submit_task: only the creator publishes the Celery message.
Enqueue(c) ==
    /\ pc[c] = "enqueue"
    /\ queued' = [queued EXCEPT ![target[c]] = TRUE]
    /\ Goto(c, "watching")
    /\ UNCHANGED <<rows, cache, holder, lost, target, seen>>

EnqueueFails(c) ==
    /\ BrokerFaults
    /\ pc[c] = "enqueue"
    /\ \E taken \in BOOLEAN : queued' = [queued EXCEPT ![target[c]] = taken]
    /\ Goto(c, "recover")
    /\ UNCHANGED <<rows, cache, holder, lost, target, seen>>

\* Mutant of FailUnenqueued: the error is reported, the row left as it is.
ForgetUnenqueued(c) ==
    /\ pc[c] = "recover"
    /\ Goto(c, "failed")
    /\ UNCHANGED <<rows, queued, cache, holder, lost, target, seen>>

\* _fail_unenqueued_task, a compare-and-swap from PENDING.
FailUnenqueued(c) ==
    /\ pc[c] = "recover"
    /\ IF status[target[c]] = PENDING THEN SetStatus(target[c], FAILURE)
                                      ELSE UNCHANGED <<status, slot>>
    /\ Goto(c, "failed")
    /\ UNCHANGED <<created, subscribers, properties, queued, cache, holder, lost,
                   target, seen>>

----------------------------------------------------------------------------
(* Cancel: CancelTaskCommand without the force flag.                       *)

Cancel(c) ==
    /\ pc[c] = "watching"
    /\ Lock(c)
    /\ Goto(c, "validate")
    /\ UNCHANGED <<rows, queued, cache, lost, target, seen>>

\* _validate_permissions
Validate(c) ==
    /\ pc[c] = "validate"
    /\ LET t == target[c] IN
         Goto(c, IF status[t] \in ACTIVE_STATES /\ Owner[c] \in subscribers[t]
                 THEN "decide" ELSE "kept")
    /\ UNCHANGED <<rows, queued, cache, holder, lost, target, seen>>

\* Mutant of OtherTabs: a principal is taken for a single tab.
NoOtherTabs(c) == {}

OtherTabs(c) == {d \in properties[target[c]].consumers \ {c} : Owner[d] = Owner[c]}

LastSubscriber(t) == Cardinality(subscribers[t]) <= 1

\* Mutant of RemoveClient: the tab is replaced by its principal.
RenameClient(c) ==
    properties' = [properties EXCEPT ![target[c]].consumers = (@ \ {c}) \cup {Owner[c]}]

RemoveClient(c) ==
    properties' = [properties EXCEPT ![target[c]].consumers = @ \ {c}]

\* on_unsubscribe: another tab of the principal keeps it subscribed.
Detach(c) ==
    /\ OtherTabs(c) # {}
    /\ RemoveClient(c)
    /\ Goto(c, "left")
    /\ UNCHANGED <<status, slot, subscribers>>

Unsubscribe(c) ==
    /\ OtherTabs(c) = {} /\ ~LastSubscriber(target[c])
    /\ RemoveClient(c)
    /\ subscribers' = [subscribers EXCEPT ![target[c]] = @ \ {Owner[c]}]
    /\ Goto(c, "left")
    /\ UNCHANGED <<status, slot>>

Abort(c) ==
    LET t == target[c] IN
    /\ OtherTabs(c) = {} /\ LastSubscriber(t)
    /\ RemoveClient(c)
    /\ \/ status[t] = PENDING /\ SetStatus(t, ABORTED)
       \/ status[t] = IN_PROGRESS /\ properties[t].is_abortable /\ SetStatus(t, ABORTING)
       \/ status[t] = ABORTING /\ UNCHANGED <<status, slot>>
    /\ Goto(c, "left")
    /\ UNCHANGED subscribers

\* abort_task refuses, and the transaction is rolled back.
RefuseAbort(c) ==
    LET t == target[c] IN
    /\ OtherTabs(c) = {} /\ LastSubscriber(t)
    /\ \/ status[t] \in TERMINAL_STATES
       \/ status[t] = IN_PROGRESS /\ ~properties[t].is_abortable
    /\ Goto(c, "kept")
    /\ UNCHANGED <<status, slot, subscribers, properties>>

(***************************************************************************)
(* _do_cancel.  The policy's write to the row comes first and locks it     *)
(* (merge_subscription_state), and abort_task reads it again after that:   *)
(* the rest of the transaction is one step.                                *)
(***************************************************************************)
Decide(c) ==
    /\ pc[c] = "decide"
    /\ Detach(c) \/ Unsubscribe(c) \/ Abort(c) \/ RefuseAbort(c)
    /\ UNCHANGED <<created, queued, cache, holder, lost, target, seen>>

----------------------------------------------------------------------------
(* The executor.  It reads the properties once and then writes the whole   *)
(* blob from its cache, with the consumers as they are on the row.         *)

Start(t) ==
    /\ queued[t]
    /\ queued' = [queued EXCEPT ![t] = FALSE]
    /\ IF status[t] = PENDING
       THEN SetStatus(t, IN_PROGRESS) /\ cache' = [cache EXCEPT ![t] = properties[t]]
       ELSE UNCHANGED <<status, slot, cache>>
    /\ UNCHANGED <<created, subscribers, properties, holder, lost, pc, target, seen>>

\* Mutant of SetProperties: the cached consumers overwrite those on the row.
SetPropertiesFromCache(t, blob) == properties' = [properties EXCEPT ![t] = blob]

\* set_properties_and_payload with _with_current_subscription_state
SetProperties(t, blob) ==
    properties' = [properties EXCEPT ![t] = [blob EXCEPT !.consumers = properties[t].consumers]]

\* on_abort sets is_abortable, update_task writes what is cached.
WriteProperties(t) ==
    /\ status[t] \in {IN_PROGRESS, ABORTING}
    /\ \E abortable \in {TRUE, cache[t].is_abortable} :
          /\ cache' = [cache EXCEPT ![t].is_abortable = abortable]
          /\ SetProperties(t, cache'[t])
    /\ UNCHANGED <<created, status, slot, subscribers, queued, holder, lost, pc, target,
                   seen>>

Finish(t) ==
    /\ \/ status[t] = IN_PROGRESS /\ SetStatus(t, SUCCESS)
       \/ status[t] = ABORTING /\ SetStatus(t, ABORTED)
    /\ cache' = [cache EXCEPT ![t] = Blank]
    /\ UNCHANGED <<created, subscribers, properties, queued, holder, lost, pc, target,
                   seen>>

----------------------------------------------------------------------------
Submitting(c) ==
    \/ Submit(c) \/ Find(c) \/ Join(c) \/ Insert(c) \/ Reread(c) \/ ReleaseLock(c)
    \/ Enqueue(c) \/ EnqueueFails(c) \/ FailUnenqueued(c)

Cancelling(c) == Cancel(c) \/ Validate(c) \/ Decide(c)

Executing(t) == Start(t) \/ WriteProperties(t) \/ Finish(t)

Next ==
    \/ \E c \in Clients : Submitting(c) \/ Cancelling(c)
    \/ \E t \in Tasks : Executing(t)
    \/ Expire

(***************************************************************************)
(* A request handler runs to its end, a queued task is started and a task  *)
(* ends; nobody is bound to submit or to cancel.                           *)
(***************************************************************************)
Fairness ==
    /\ \A c \in Clients : WF_vars(Submitting(c) /\ pc[c] # "idle")
    /\ \A t \in Tasks : WF_vars(Start(t)) /\ WF_vars(Finish(t))

Spec == Init /\ [][Next]_vars /\ Fairness

----------------------------------------------------------------------------
\* The clients that have been told they share task t and have not left it.
Watchers(t) == {c \in Clients :
    target[c] = t /\ pc[c] \in {"new", "old", "enqueue", "watching", "validate",
                                "decide", "kept", "stays"}}

\* As long as no client outlives its lock, each watcher of a task is on record:
\* its tab among the consumers, its principal among the subscribers.  Joins,
\* cancels and the executor's writes of the whole blob do not lose one.
WatchersOnRecord ==
    ~lost => \A t \in Tasks :
        /\ Watchers(t) \subseteq properties[t].consumers
        /\ {Owner[c] : c \in Watchers(t)} \subseteq subscribers[t]

\* A cancel stops a task only if its client was the last one watching it.
AbortSparesWatchers ==
    [][~lost => \A t \in Tasks :
          status[t] \notin ABORT_STATES /\ status'[t] \in ABORT_STATES
              => Watchers(t)' = {}]_vars

\* The savepoint around the insert is a backstop: while the lock holds, no
\* submit runs into the unique index.
BackstopUnused == ~lost => \A c \in Clients : pc[c] # "reread"

\* All who wait for the key's result wait for the same task, even if clients
\* outlive their locks and submit, join and cancel at the same time.
WatchersShareOneTask ==
    \A t, u \in Tasks :
        slot[t] = "active" /\ slot[u] = "active" /\ Watchers(t) # {} /\ Watchers(u) # {}
            => t = u

\* Whoever shares a task, creator or not, sees it end: a task nobody enqueued
\* is failed.
WatchersAreServed ==
    \A t \in Tasks : slot[t] = "active" ~> slot[t] = "finished"

\* "Only returns tasks that are active (pending or in progress)."
JoinsOnlyLiveTasks ==
    [][\A c \in Clients : pc[c] = "find" /\ pc'[c] = "join"
          => status[target'[c]] \in {PENDING, IN_PROGRESS}]_vars

\* The two writers of the blob do not clobber each other: once a task is known
\* to be abortable, it stays so.
ExecutorWritesSurvive ==
    [][\A t \in Tasks : properties[t].is_abortable => properties'[t].is_abortable]_vars

=============================================================================
