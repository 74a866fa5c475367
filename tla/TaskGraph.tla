----------------------------- MODULE TaskGraph -----------------------------
(***************************************************************************)
(* Several GTF tasks that depend on each other: submission with            *)
(* prerequisites, the all-success gate of unmet_prerequisite, its two ways *)
(* of waiting (a worker puts its message back on the queue, an inline      *)
(* caller blocks on the completion signal), the cascade of failures, and   *)
(* the retention job that deletes ended rows under all of them.            *)
(*                                                                         *)
(* Executors and the reaper compare a status before they change it.  A     *)
(* cancel, a timeout and the start of the body do not: they read the row,  *)
(* and what they write later is keyed by its id alone.  Here these writes  *)
(* meet the dependents that have acted on the status they replace; which   *)
(* threads of a worker make them is TaskLifecycle's subject.               *)
(***************************************************************************)
EXTENDS TaskStatus, Naturals, FiniteSets

CONSTANTS
  Tasks,
  Inline,      \* tasks called synchronously, by a caller of their own
  Workers,     \* number of Celery worker slots
  MaxCrashes,  \* bound on workers that die while they run a task
  MaxAborts    \* bound on cancels and timeouts

ASSUME GraphAssumption ==
  /\ IsFiniteSet(Tasks) /\ Inline \subseteq Tasks
  /\ Workers \in Nat \ {0} /\ MaxCrashes \in Nat /\ MaxAborts \in Nat

VARIABLES
  rows,      \* tasks whose row exists
  status,    \* tasks.status; after the row's deletion, what it was
  edges,     \* table task_dependencies: <<dependent, prerequisite>>
  declared,  \* the prerequisites a task was submitted with
  job,       \* what the executor of every task is doing
  aborts,    \* statuses that cancels and timeouts are about to write
  crashes, requests,
  \* Auxiliary: prerequisites whose SUCCESS was overwritten after the task's
  \* executor had loaded them.
  undone

vars == <<rows, status, edges, declared, job, aborts, crashes, requests, undone>>
table == <<rows, status, edges, declared>>
counters == <<crashes, requests>>

Pcs == {"new", "start", "gate", "wait", "claimed", "running", "ending",
        "dead", "returned"}
Outcomes == {"", "returns", "raises", "aborts"}

\* An executor knows the prerequisites as they were loaded with its task
\* (`seen'), has those in `todo' still to look at or to wait for, and is
\* blocked by the one in `on'.
TypeOK ==
  /\ rows \subseteq Tasks
  /\ status \in [Tasks -> Statuses]
  /\ edges \subseteq rows \X rows
  /\ declared \in [Tasks -> SUBSET Tasks]
  /\ \A t \in Tasks :
       /\ job[t].pc \in Pcs /\ job[t].outcome \in Outcomes
       /\ job[t].todo \cup job[t].on \subseteq DOMAIN job[t].seen
       /\ Cardinality(job[t].on) <= 1
       /\ job[t].seen \in [DOMAIN job[t].seen -> Statuses]
       /\ DOMAIN job[t].seen \subseteq declared[t]
  /\ aborts \in [Tasks -> SUBSET ABORT_STATES]
  /\ undone \in [Tasks -> SUBSET Tasks]
  /\ crashes \in 0..MaxCrashes /\ requests \in 0..MaxAborts

Blank(pc) == [pc |-> pc, seen |-> [p \in {} |-> PENDING], todo |-> {},
              on |-> {}, outcome |-> ""]

Init ==
  /\ rows = {} /\ edges = {}
  /\ status = [t \in Tasks |-> PENDING]
  /\ declared = [t \in Tasks |-> {}]
  /\ job = [t \in Tasks |-> Blank("new")]
  /\ aborts = [t \in Tasks |-> {}] /\ undone = [t \in Tasks |-> {}]
  /\ crashes = 0 /\ requests = 0

----------------------------------------------------------------------------
Goto(t, pc) == job' = [job EXCEPT ![t].pc = pc]

Leave(t) == job' = [job EXCEPT ![t] = Blank("returned")]

\* InternalStatusTransitionCommand.
CAS(t, from, to) ==
  status' = IF t \in rows /\ status[t] \in from
            THEN [status EXCEPT ![t] = to] ELSE status

\* Tasks whose executor has loaded prerequisite p.
HaveLoaded(p) == {t \in Tasks : p \in declared[t] /\ job[t].pc \notin {"new", "start"}}

\* An UPDATE by id: it replaces whatever the status is by then.
BlindWrite(t, to) ==
  /\ status' = [status EXCEPT ![t] = to]
  /\ undone' = IF status[t] # SUCCESS THEN undone
               ELSE [d \in Tasks |-> IF d \in HaveLoaded(t)
                                     THEN undone[d] \cup {t} ELSE undone[d]]

(***************************************************************************)
(* Submission                                                              *)
(***************************************************************************)
\* Mutant of Known: a reference to the task itself is accepted.
Unchecked(t) == rows \cup {t}

\* find_by_uuids; a reference to the task itself is rejected.
Known(t) == rows \ {t}

\* SubmitTaskCommand with _persist_dependencies, then the enqueueing, or the
\* call of _execute_inline.
Submit(t) ==
  /\ job[t].pc = "new"
  /\ \E prerequisites \in SUBSET Known(t) :
       /\ declared' = [declared EXCEPT ![t] = prerequisites]
       /\ edges' = edges \cup ({t} \X prerequisites)
  /\ rows' = rows \cup {t}
  /\ Goto(t, "start")
  /\ UNCHANGED <<status, aborts, counters, undone>>

(***************************************************************************)
(* Execution up to the claim                                               *)
(***************************************************************************)
Prerequisites(t) == {p \in rows : <<t, p>> \in edges}

\* The executor reads its task's prerequisites and goes to the gate.
See(t, seen) ==
  job' = [job EXCEPT ![t] = [Blank("gate") EXCEPT !.seen = seen,
                                                  !.todo = DOMAIN seen]]

\* What matters of a prerequisite that was not seen ended is only that.
Snapshot(t) ==
  [p \in Prerequisites(t) |->
     IF status[p] \in TERMINAL_STATES THEN status[p] ELSE PENDING]

\* It loads its task: what was overwritten before does not concern it.
Load(t) == See(t, Snapshot(t)) /\ undone' = [undone EXCEPT ![t] = {}]

\* The message of a task waits for a worker.  A deferred one waits out its
\* countdown first, so messages come in any order.
WorkerFree ==
  Cardinality({t \in Tasks \ Inline :
    job[t].pc \in {"gate", "claimed", "running", "ending"}}) < Workers

\* A task that is gone is left; one that was aborted while it was queued or
\* deferred is ended by whoever was to run it (_abort_if_preaborted, inline).
Start(t) ==
  /\ job[t].pc = "start"
  /\ t \in Inline \/ WorkerFree
  /\ IF t \in rows /\ status[t] \notin ABORT_STATES
     THEN Load(t) /\ UNCHANGED status
     ELSE Leave(t) /\ CAS(t, {PENDING, ABORTING}, ABORTED) /\ UNCHANGED undone
  /\ UNCHANGED <<rows, edges, declared, aborts, counters>>

(***************************************************************************)
(* unmet_prerequisite looks at one prerequisite after the other.  One seen *)
(* ended is trusted, another is read again.                                *)
(***************************************************************************)
SeenEnded(t, p) == job[t].seen[p] \in TERMINAL_STATES
Missing(t, p)   == ~SeenEnded(t, p) /\ p \notin rows
Current(t, p)   == IF SeenEnded(t, p) THEN job[t].seen[p] ELSE status[p]

\* Mutant of Passes: the gate waits for the end, whatever it is.
PassesEnded(s) == s \in TERMINAL_STATES

Passes(s) == s = SUCCESS

GatePasses(t) ==
  /\ job[t].pc = "gate"
  /\ \E p \in job[t].todo :
       /\ ~Missing(t, p) /\ Passes(Current(t, p))
       /\ job' = [job EXCEPT ![t].todo = @ \ {p}]
  /\ UNCHANGED <<table, aborts, counters, undone>>

\* fail_dependent_on_unmet_prerequisite
GateFails(t) ==
  /\ job[t].pc = "gate"
  /\ \E p \in job[t].todo :
       \/ Missing(t, p)
       \/ Current(t, p) \in TERMINAL_STATES /\ ~Passes(Current(t, p))
  /\ CAS(t, {PENDING, ABORTING}, FAILURE)
  /\ Leave(t)
  /\ UNCHANGED <<rows, edges, declared, aborts, counters, undone>>

GateWaits(t) ==
  /\ job[t].pc = "gate"
  /\ \E p \in job[t].todo : ~Missing(t, p) /\ Current(t, p) \in ACTIVE_STATES

\* Mutant of Defer: the worker stays and looks again.
DeferInPlace(t) ==
  /\ t \notin Inline
  /\ GateWaits(t)
  /\ Load(t)
  /\ UNCHANGED <<table, aborts, counters>>

\* self.retry puts the message back and so frees the worker, or it raises and
\* the task fails; it may raise although the message went out.
Defer(t) ==
  /\ t \notin Inline
  /\ GateWaits(t)
  /\ \/ /\ job' = [job EXCEPT ![t] = Blank("start")]
        /\ UNCHANGED status
     \/ /\ CAS(t, {PENDING, ABORTING}, FAILURE)
        /\ Leave(t) \/ job' = [job EXCEPT ![t] = Blank("start")]
  /\ UNCHANGED <<rows, edges, declared, aborts, counters, undone>>

(***************************************************************************)
(* _gate_on_prerequisites: an inline caller waits for the prerequisites it *)
(* did not see ended, one by one, and then reads everything again.         *)
(***************************************************************************)
Block(t) ==
  /\ t \in Inline
  /\ GateWaits(t)
  /\ job' = [job EXCEPT ![t] =
       [@ EXCEPT !.pc = "wait",
                 !.todo = {p \in DOMAIN job[t].seen : ~SeenEnded(t, p)}]]
  /\ UNCHANGED <<table, aborts, counters, undone>>

\* It does not look at its own status; if its own row is gone it goes on
\* with what it has read before.
ReadAgain(t) ==
  IF t \in rows THEN Load(t) ELSE See(t, job[t].seen) /\ UNCHANGED undone

\* wait_for_completion.  A row that is missing at the outset is noticed; one
\* that is deleted during the wait is waited for for ever.
Wait(t) ==
  /\ job[t].pc = "wait"
  /\ \/ job[t].todo \cup job[t].on = {} /\ ReadAgain(t)
     \/ /\ job[t].on = {}
        /\ \E p \in job[t].todo :
             IF p \in rows
             THEN /\ job' = [job EXCEPT ![t] =
                       [@ EXCEPT !.on = {p}, !.todo = job[t].todo \ {p}]]
                  /\ UNCHANGED undone
             ELSE ReadAgain(t)
     \/ /\ \E p \in job[t].on \cap rows : status[p] \in TERMINAL_STATES
        /\ job' = [job EXCEPT ![t].on = {}]
        /\ UNCHANGED undone
  /\ UNCHANGED <<table, aborts, counters>>

(***************************************************************************)
(* The claim, the body and its end                                         *)
(***************************************************************************)
Claim(t) ==
  /\ job[t].pc = "gate" /\ job[t].todo = {}
  /\ CAS(t, {PENDING}, IN_PROGRESS)
  /\ IF t \in rows /\ status[t] = PENDING
     THEN job' = [job EXCEPT ![t] = Blank("claimed")]
     ELSE Leave(t)
  /\ UNCHANGED <<rows, edges, declared, aborts, counters, undone>>

\* task.status = IN_PROGRESS after the claim is flushed as a second write.
BuildContext(t) ==
  /\ job[t].pc = "claimed"
  /\ IF t \in rows THEN BlindWrite(t, IN_PROGRESS) /\ Goto(t, "running")
                   ELSE Leave(t) /\ UNCHANGED <<status, undone>>
  /\ UNCHANGED <<rows, edges, declared, aborts, counters>>

\* Whether an abort counts is decided now.  The timer's flag does although the
\* row does not say ABORTING yet.
Stopped(t) == ABORTING \in aborts[t] \cup {status[t]}

\* The function returns or raises.
BodyEnds(t) ==
  /\ job[t].pc = "running"
  /\ \E outcome \in {"returns", "raises"} \cup (IF Stopped(t) THEN {"aborts"} ELSE {}) :
       job' = [job EXCEPT ![t] = [@ EXCEPT !.pc = "ending", !.outcome = outcome]]
  /\ UNCHANGED <<table, aborts, counters, undone>>

\* The executor's last transition: a worker lets a late abort end in SUCCESS,
\* _finalize_inline_terminal_status does not.
Commit(t) ==
  /\ job[t].pc = "ending"
  /\ CASE job[t].outcome = "returns" ->
            CAS(t, IF t \in Inline THEN {IN_PROGRESS} ELSE {IN_PROGRESS, ABORTING},
                SUCCESS)
       [] job[t].outcome = "raises" -> CAS(t, {IN_PROGRESS, ABORTING}, FAILURE)
       [] job[t].outcome = "aborts" ->
            \/ \E to \in {ABORTED, TIMED_OUT} : CAS(t, {ABORTING}, to)
            \/ CAS(t, {IN_PROGRESS, ABORTING}, FAILURE)
  /\ Leave(t)
  /\ UNCHANGED <<rows, edges, declared, aborts, counters, undone>>

(***************************************************************************)
(* Everybody else                                                          *)
(***************************************************************************)
\* Somebody has read the row and is going to write it.  (Two may at a time:
\* not all of them hold the task lock until they commit, and it expires.)
Request(t, to) ==
  /\ t \in rows /\ requests < MaxAborts
  /\ aborts' = [aborts EXCEPT ![t] = @ \cup {to}]
  /\ requests' = requests + 1
  /\ UNCHANGED <<table, job, crashes, undone>>

\* abort_task.  Before the body no abort handler is registered.
Cancel(t) ==
  \/ status[t] = PENDING /\ Request(t, ABORTED)
  \/ status[t] = IN_PROGRESS /\ job[t].pc # "claimed" /\ Request(t, ABORTING)

\* The timer and the fence do not ask for the status.
TimeOut(t) == job[t].pc = "running" /\ Request(t, ABORTING)

\* Their UPDATE, which fails if the row is gone.
WriteAbort(t) ==
  /\ \E to \in aborts[t] :
       /\ aborts' = [aborts EXCEPT ![t] = @ \ {to}]
       /\ IF t \in rows THEN BlindWrite(t, to) ELSE UNCHANGED <<status, undone>>
  /\ UNCHANGED <<rows, edges, declared, job, counters>>

\* A worker dies after its first heartbeat ...
Crash(t) ==
  /\ crashes < MaxCrashes
  /\ t \notin Inline
  /\ job[t].pc \in {"claimed", "running", "ending"}
  /\ job' = [job EXCEPT ![t] = Blank("dead")]
  /\ crashes' = crashes + 1
  /\ UNCHANGED <<table, aborts, requests, undone>>

\* ... and the reaper finds the stale heartbeat, as it does when a worker has
\* left its task in a status that was written, or reopened, behind its back.
Reap(t) ==
  /\ t \in rows \ Inline /\ status[t] \in ACTIVE_STATES
  /\ job[t].pc \in {"dead", "returned"}
  /\ CAS(t, ACTIVE_STATES, FAILURE)
  /\ UNCHANGED <<rows, edges, declared, job, aborts, counters, undone>>

\* Mutant of EdgesWithout: the rows of task_dependencies that point to the
\* deleted task stay.
EdgesFromOthers(t) == {e \in edges : e[1] # t}

\* ON DELETE CASCADE on both columns of task_dependencies.
EdgesWithout(t) == {e \in edges : e[1] # t /\ e[2] # t}

\* TaskPruneCommand deletes an ended row.
Prune(t) ==
  /\ t \in rows /\ status[t] \in TERMINAL_STATES
  /\ rows' = rows \ {t}
  /\ edges' = EdgesWithout(t)
  /\ UNCHANGED <<status, declared, job, aborts, counters, undone>>

Execute(t) ==
  \/ GatePasses(t) \/ GateFails(t) \/ Defer(t) \/ Block(t) \/ Wait(t)
  \/ Claim(t) \/ BuildContext(t) \/ BodyEnds(t) \/ Commit(t)

Next ==
  \E t \in Tasks :
    \/ Submit(t) \/ Start(t) \/ Execute(t)
    \/ Cancel(t) \/ TimeOut(t) \/ WriteAbort(t)
    \/ Crash(t) \/ Reap(t) \/ Prune(t)

\* Workers and inline callers go on, task functions return, no message is
\* passed over for ever by a worker that is free again and again, a write
\* that is under way is made, and the reaper runs again and again.  Nobody has
\* to submit, to cancel or to prune.
Fairness ==
  \A t \in Tasks :
    /\ SF_vars(Start(t)) /\ WF_vars(Execute(t))
    /\ WF_vars(WriteAbort(t)) /\ WF_vars(Reap(t))

Spec == Init /\ [][Next]_vars /\ Fairness

----------------------------------------------------------------------------
(***************************************************************************)
(* Properties                                                              *)
(***************************************************************************)
Begun == {IN_PROGRESS, ABORTING, SUCCESS, TIMED_OUT}

\* all_success: no task has begun unless every prerequisite it was submitted
\* with has succeeded, however stale the gate's view was; and that success
\* still stands, unless a cancel or a timeout that does not compare before it
\* writes has overwritten it since the dependent looked.  (A prerequisite
\* whose row the retention job deleted does not count: its edge goes with
\* it, so a later load of the dependent does not see that it existed.)
RunsOnlyAfterSuccess ==
  \A t \in Tasks : status[t] \in Begun =>
    \A p \in declared[t] \cap rows : status[p] = SUCCESS \/ p \in undone[t]

\* The edges never close a cycle although no submission looks for one: every
\* set of tasks has one that depends on no other of the set.
DependenciesAcyclic ==
  \A S \in (SUBSET Tasks) \ {{}} : \E t \in S : declared[t] \cap S = {}

\* A row was deleted under a caller that waits for it; or a call was asked to
\* stop about when its function returned: it leaves its row unended, or the
\* late write reopens it, and there is no heartbeat that would go stale.
Stranding ==
  \E t \in Inline :
    \/ ~(job[t].on \subseteq rows)
    \/ job[t].pc = "returned" /\ status[t] \in {IN_PROGRESS, ABORTING}

\* In the end every submitted task has ended, and none that was reopened stays
\* open, even if all wait for each other on one worker and whatever is pruned,
\* but for those two cases.
EveryTaskEnds ==
  <>[](Stranding \/ \A t \in rows : status[t] \in TERMINAL_STATES)
============================================================================
