-------------------------- MODULE ReportExecution --------------------------
(***************************************************************************)
(* Scheduled reports and alerts: the admission of Celery messages by a     *)
(* compare-and-swap on the schedule's row, the fencing of a worker that    *)
(* was declared dead, the delivery to several recipients, and the retries  *)
(* of a failed window.                                                     *)
(*                                                                         *)
(* The row is the schedule's; a job is one delivery of one message, first  *)
(* on the queue and then run by a worker process.  Only the order of the   *)
(* crontab windows matters, so a window is its rank among those in use.    *)
(***************************************************************************)
EXTENDS Integers, FiniteSets

CONSTANTS
  Slots,        \* places for messages and running jobs (a bound)
  MaxAttempts,  \* retry_max_attempts
  Recipients,   \* number of recipients of the schedule
  MaxFaults     \* bound on crashes, failing calls, redeliveries and edits

ASSUME ReportAssumption ==
  /\ IsFiniteSet(Slots)
  /\ MaxAttempts \in Nat /\ MaxFaults \in Nat
  /\ Recipients \in Nat \ {0}

VARIABLES
  row,      \* the ReportSchedule row
  jobs,     \* what every slot holds
  current,  \* slots whose last read of the row no write has outdated
  editor,   \* "idle", or "decided" between the editor's read and write
  faults,   \* faults so far
  history   \* of the row's window, for the properties only

vars == <<row, jobs, current, editor, faults, history>>

NoWindow == 0
Idle == {"NOOP", "SUCCESS", "ERROR", "GRACE"}
States == Idle \cup {"WORKING", "RETRYING"}

\* Execution ids matter only through equality.  `owns' says that the row's
\* execution_owner is this job's id, `awaited' that it is the expected_owner
\* of this retry; `id' tells copies of one message from other messages.
Free == [pc |-> "free", id |-> CHOOSE s \in Slots : TRUE, retry |-> FALSE,
         window |-> NoWindow, owns |-> FALSE, awaited |-> FALSE, ran |-> FALSE,
         flag |-> FALSE, viaSuccess |-> FALSE, started |-> FALSE, left |-> 0,
         late |-> 0]

Live == {s \in Slots : jobs[s].pc # "free"}

\* An id no other live message has, for a message in slot s.
FreshId(s) ==
  LET used == {jobs[t].id : t \in Live \ {s}}
  IN  IF s \notin used THEN s ELSE CHOOSE i \in Slots : i \notin used

CronMessage(s, window) ==
  [Free EXCEPT !.pc = "queued", !.id = FreshId(s), !.window = window]

\* A delivery of the message that job j works on, once more.
Again(j) ==
  [Free EXCEPT !.pc = "queued", !.id = j.id, !.window = j.window, !.ran = j.ran,
               !.retry = j.retry, !.owns = j.owns, !.awaited = j.awaited]

UsedWindows == ({row.window, row.anchor} \cup {jobs[s].window : s \in Slots})
                 \ {NoWindow}
Rank(w) == IF w = NoWindow THEN NoWindow
           ELSE Cardinality({v \in UsedWindows : v <= w})

(***************************************************************************)
(* Writes of the row.  Each sets last_eval_dttm and so outdates whatever   *)
(* others have read.                                                       *)
(***************************************************************************)
WriteRow(r) == row' = [r EXCEPT !.old = FALSE] /\ current' = {}

Goto(s, pc) == jobs' = [jobs EXCEPT ![s].pc = pc]
Drop(s) == jobs' = [jobs EXCEPT ![s] = Free]
Owns(s) == jobs[s].owns

\* update_report_schedule: the write takes effect only for the owner; any
\* other worker raises ReportSchedulePreviousWorkingError and is finished.
WriteOwned(s, r, job) ==
  \/ /\ Owns(s)
     /\ WriteRow(r)
     /\ jobs' = [jobs EXCEPT ![s] = job]
  \/ /\ ~Owns(s)
     /\ Drop(s)
     /\ UNCHANGED <<row, current>>

Reset(r) == [r EXCEPT !.attempt = 0, !.anchor = NoWindow]

----------------------------------------------------------------------------
Init ==
  /\ row = [state |-> "NOOP", window |-> NoWindow, anchor |-> NoWindow,
            attempt |-> 0, retry |-> TRUE, old |-> FALSE]
  /\ jobs = [s \in Slots |-> Free]
  /\ current = {}
  /\ editor = "idle"
  /\ faults = 0
  /\ history = [runs |-> 0, out |-> FALSE, disturbed |-> FALSE]

(***************************************************************************)
(* The scheduler publishes one message per crontab window.  The windows in *)
(* use are renumbered, which lets it go on for ever.                       *)
(***************************************************************************)
Tick(s) ==
  /\ jobs[s].pc = "free"
  /\ row' = [row EXCEPT !.window = Rank(row.window), !.anchor = Rank(row.anchor)]
  /\ jobs' = [t \in Slots |->
       IF t = s THEN CronMessage(s, Cardinality(UsedWindows) + 1)
       ELSE [jobs[t] EXCEPT !.window = Rank(jobs[t].window)]]
  /\ UNCHANGED <<current, editor, faults, history>>

\* Time passes: the last write is older than the working timeout or, for a
\* row that waits for a retry, than the longest retry delay.
Age ==
  /\ ~row.old
  /\ row.state \in {"WORKING", "RETRYING"}
  /\ row' = [row EXCEPT !.old = TRUE]
  /\ UNCHANGED <<jobs, current, editor, faults, history>>

(***************************************************************************)
(* Admission                                                               *)
(***************************************************************************)
\* AsyncExecuteReportScheduleCommand.run: what the first read decides.
\* is_on_working_timeout is part of it.
Start(s) ==
  LET j == jobs[s] IN
  /\ j.pc = "queued"
  /\ \/ /\ j.retry
        /\ ~row.retry
        /\ Goto(s, "cancel")
        /\ UNCHANGED current
     \/ /\ j.retry
        /\ row.retry
        /\ row.state # "RETRYING" \/ row.anchor # j.window
        /\ Drop(s)
        /\ UNCHANGED current
     \/ /\ ~j.retry /\ row.state = "WORKING"
        /\ IF row.old THEN Goto(s, "recover") /\ current' = current \cup {s}
                      ELSE Drop(s) /\ UNCHANGED current
     \/ /\ IF j.retry THEN /\ row.retry
                              /\ row.state = "RETRYING"
                              /\ row.anchor = j.window
                         ELSE row.state # "WORKING"
        /\ Goto(s, "claim")
        /\ UNCHANGED current
  /\ UNCHANGED <<row, editor, faults, history>>

\* cancel_disabled_retry
CancelDisabled(s) ==
  LET j == jobs[s] IN
  /\ j.pc = "cancel"
  /\ IF /\ row.state = "RETRYING" /\ j.awaited
        /\ row.window = j.window /\ row.anchor = j.window /\ ~row.retry
     THEN WriteRow(Reset([row EXCEPT !.state = "ERROR"]))
     ELSE UNCHANGED <<row, current>>
  /\ Drop(s)
  /\ UNCHANGED <<editor, faults, history>>

\* ReportWorkingState.next: the owner is cleared if nothing moved since the
\* read, and the row ends in ERROR in the same transaction.
\* Mutant of Unmoved: only the state is compared.
StillWorking(s) == row.state = "WORKING"

Unmoved(s) == s \in current

Recover(s) ==
  /\ jobs[s].pc = "recover"
  /\ IF Unmoved(s)
     THEN /\ WriteRow([row EXCEPT !.state = "ERROR"])
          /\ jobs' = [t \in Slots |-> IF t = s THEN Free
                       ELSE [jobs[t] EXCEPT !.owns = FALSE, !.awaited = FALSE]]
     ELSE UNCHANGED <<row, current>> /\ Drop(s)
  /\ UNCHANGED <<editor, faults, history>>

\* Mutants of NewWindow: a window is admitted twice; a schedule that waits for
\* a retry is never taken over.
SameWindow(j) ==
  /\ row.window = NoWindow \/ j.window >= row.window
  /\ row.state = "RETRYING" => row.anchor # j.window /\ row.old
NoTakeover(j) ==
  /\ row.window = NoWindow \/ j.window > row.window
  /\ row.state # "RETRYING"

\* The admission rules of _claim_execution for a cron message ...
NewWindow(j) ==
  /\ row.window = NoWindow \/ j.window > row.window
  /\ row.state = "RETRYING" => row.anchor # j.window /\ row.old

\* ... and for a retry.
AwaitedRetry(j) ==
  /\ row.retry
  /\ row.state = "RETRYING"
  /\ j.awaited
  /\ row.anchor = j.window

\* _claim_execution, the read.
ReadClaim(s) ==
  LET j == jobs[s] IN
  /\ j.pc = "claim"
  /\ IF /\ row.state # "WORKING"
        /\ IF j.retry THEN AwaitedRetry(j) ELSE NewWindow(j)
     THEN /\ jobs' = [jobs EXCEPT ![s].pc = "cas", ![s].flag = row.retry,
                        ![s].viaSuccess = row.state \in {"SUCCESS", "GRACE"}]
          /\ current' = current \cup {s}
     ELSE Drop(s) /\ UNCHANGED current
  /\ UNCHANGED <<row, editor, faults, history>>

\* The conditional UPDATE of _claim_execution compares every admission field.
Unchanged(s) == s \in current /\ row.retry = jobs[s].flag

Copies(s) == {t \in Live : jobs[t].id = jobs[s].id}

Claim(s) ==
  LET j == jobs[s] IN
  /\ j.pc = "cas"
  /\ IF Unchanged(s)
     THEN /\ WriteRow([row EXCEPT !.state = "WORKING", !.window = j.window])
          /\ jobs' = [t \in Slots |->
               [jobs[t] EXCEPT !.pc = IF t = s THEN "claimed" ELSE @,
                               !.owns = t \in Copies(s),
                               !.ran = @ \/ t \in Copies(s),
                               !.awaited = FALSE]]
          /\ history' = IF j.window = row.window
                        THEN [history EXCEPT !.runs = @ + 1]
                        ELSE [runs |-> 1, out |-> FALSE, disturbed |-> FALSE]
     ELSE /\ Drop(s)
          /\ UNCHANGED <<row, current, history>>
  /\ UNCHANGED <<editor, faults>>

(***************************************************************************)
(* The run: ReportNotTriggeredErrorState and ReportSuccessState            *)
(***************************************************************************)
\* An alert within its grace period ends at once; otherwise WORKING is
\* written and logged by the owner, and the row is loaded again.
Enter(s) ==
  LET j == jobs[s] IN
  /\ j.pc = "claimed"
  /\ \/ /\ j.viaSuccess
        /\ WriteOwned(s, [row EXCEPT !.state = "GRACE"], Free)
     \/ WriteOwned(s, [row EXCEPT !.state = "WORKING"],
                      [j EXCEPT !.pc = "work", !.flag = row.retry,
                                !.left = Recipients])
  /\ UNCHANGED <<editor, faults, history>>

\* A soft timeout or an exhausted budget ends the run in ERROR without a
\* retry, except that ReportSuccessState handles it like any failure.
Overrun(j) == IF j.viaSuccess THEN "failed" ELSE "overrun"

\* The alert's query and the capture of the content.
Work(s) ==
  /\ jobs[s].pc = "work"
  /\ \E pc \in {"quiet", "send", "failed", Overrun(jobs[s])} : Goto(s, pc)
  /\ UNCHANGED <<row, current, editor, faults, history>>

\* _assert_execution_owned before each recipient, then the budget.
Assert(s) ==
  LET j == jobs[s] IN
  /\ j.pc = "send"
  /\ IF Owns(s)
     THEN \E pc \in {"deliver", Overrun(j)} :
            jobs' = [jobs EXCEPT ![s].pc = pc, ![s].flag = row.retry]
     ELSE Drop(s)
  /\ UNCHANGED <<row, current, editor, faults, history>>

\* One recipient is served or its failure is collected; another exception
\* leaves the loop.  Nothing is known of a notification that failed, so it
\* counts as sent.
\* Mutant: ownership is asserted once, before the first recipient.
AfterDeliveryAssured(j) ==
  {"failed", Overrun(j)} \cup IF j.left > 1 THEN {"deliver"} ELSE {"delivered"}

AfterDelivery(j) ==
  {"failed", Overrun(j)} \cup IF j.left > 1 THEN {"send"} ELSE {"delivered"}

Deliver(s) ==
  LET j == jobs[s] IN
  /\ j.pc = "deliver"
  /\ \E pc \in AfterDelivery(j) :
       jobs' = [jobs EXCEPT ![s] =
         [j EXCEPT !.pc = pc, !.started = TRUE, !.left = @ - 1,
                   !.late = IF Owns(s) THEN @ ELSE @ + 1]]
  /\ history' = [history EXCEPT !.out = @ \/ j.window = row.window]
  /\ UNCHANGED <<row, current, editor, faults>>

\* The terminal writes that no failure precedes.
Terminal == [quiet |-> "NOOP", delivered |-> "SUCCESS", overrun |-> "ERROR"]

Finish(s) ==
  LET j == jobs[s] IN
  /\ j.pc \in DOMAIN Terminal
  /\ LET r == [row EXCEPT !.state = Terminal[j.pc]]
     IN  WriteOwned(s, IF j.pc = "overrun" THEN r ELSE Reset(r), Free)
  /\ UNCHANGED <<editor, faults, history>>

(***************************************************************************)
(* _handle_retry_or_error and the ERROR write after it                     *)
(***************************************************************************)
\* Mutant of Attempts: the counter of an older window is carried over.
AttemptsEver(r, j) == r.attempt

Attempts(r, j) == IF r.anchor \in {NoWindow, j.window} THEN r.attempt ELSE 0

\* Mutant of AttemptsLeft: off by one.
AttemptsLeftAndOne(r, j) == Attempts(r, j) <= MaxAttempts

AttemptsLeft(r, j) == Attempts(r, j) < MaxAttempts

\* Mutant of DeliveryBegun: a notification counts once it has returned.
DeliveryReturned(j) == j.left < Recipients - 1

DeliveryBegun(j) == j.started

\* `permanent' is an error that no retry repairs.
AfterFailure(r, j, permanent) ==
  IF permanent \/ (j.flag /\ DeliveryBegun(j))
  THEN Reset([r EXCEPT !.state = "ERROR"])
  ELSE IF ~j.flag THEN [r EXCEPT !.state = "ERROR"]
  ELSE IF AttemptsLeft(r, j)
       THEN [r EXCEPT !.state = "RETRYING", !.attempt = Attempts(r, j) + 1,
                      !.anchor = j.window]
  ELSE Reset([r EXCEPT !.state = "ERROR"])

Fail(s) ==
  LET j == jobs[s] IN
  /\ j.pc = "failed"
  /\ \E permanent \in (IF j.started THEN {FALSE} ELSE BOOLEAN) :
       LET r == AfterFailure(row, j, permanent) IN
       /\ WriteOwned(s, r, IF r.state = "RETRYING" THEN [j EXCEPT !.pc = "publish"]
                                                   ELSE Free)
  /\ UNCHANGED <<editor, faults, history>>

\* _schedule_retry: the window and this execution's id go with the message.
\* Mutant of RetryOf: the message expects another owner.
RetryOfAnother(s) ==
  [Free EXCEPT !.pc = "queued", !.id = FreshId(s), !.window = jobs[s].window,
               !.retry = TRUE]

RetryOf(s) ==
  [Free EXCEPT !.pc = "queued", !.id = FreshId(s), !.window = jobs[s].window,
               !.retry = TRUE, !.awaited = Owns(s)]

Publish(s) ==
  /\ jobs[s].pc = "publish"
  /\ jobs' = [jobs EXCEPT ![s] = RetryOf(s)]
  /\ UNCHANGED <<row, current, editor, faults, history>>

\* persist_owned_report_execution_terminal_error
Boundary(s) ==
  /\ jobs[s].pc = "boundary"
  /\ IF Owns(s) /\ row.state = "WORKING"
     THEN WriteRow([row EXCEPT !.state = "ERROR"])
     ELSE UNCHANGED <<row, current>>
  /\ Drop(s)
  /\ UNCHANGED <<editor, faults, history>>

JobStep(s) ==
  \/ Start(s) \/ CancelDisabled(s) \/ Recover(s) \/ ReadClaim(s) \/ Claim(s)
  \/ Enter(s) \/ Work(s) \/ Assert(s) \/ Deliver(s) \/ Finish(s)
  \/ Fail(s) \/ Publish(s) \/ Boundary(s)

(***************************************************************************)
(* Faults and edits, at most MaxFaults of them                             *)
(***************************************************************************)
Fault == faults < MaxFaults /\ faults' = faults + 1
Disturb == history' = [history EXCEPT !.disturbed = TRUE]

\* A worker dies.  Its message is gone, or the broker delivers it again.
Crash(s) ==
  LET j == jobs[s] IN
  /\ Fault
  /\ j.pc \notin {"free", "queued"}
  /\ \/ Drop(s)
     \/ jobs' = [jobs EXCEPT ![s] = Again(j)]
  /\ Disturb
  /\ UNCHANGED <<row, current, editor>>

\* The broker delivers a message a second time, whatever became of the first.
Redeliver(s, t) ==
  LET j == jobs[s] IN
  /\ Fault
  /\ j.pc # "free" /\ jobs[t].pc = "free"
  /\ jobs' = [jobs EXCEPT ![t] = Again(j)]
  /\ UNCHANGED <<row, current, editor, history>>

\* A write of the owner fails in the database.  Within the run's try block
\* the failure is handled like one of the run, else the boundary tries again.
WriteFails(s) ==
  LET j == jobs[s] IN
  /\ Fault
  /\ \/ j.pc \in {"claimed", "failed", "overrun"} /\ Goto(s, "boundary")
     \/ j.pc = "quiet" /\ Goto(s, "failed")
     \/ j.pc = "delivered" /\ Goto(s, IF j.viaSuccess THEN "boundary" ELSE "failed")
     \/ j.pc = "boundary" /\ Drop(s)
  /\ UNCHANGED <<row, current, editor, history>>

\* apply_async raises, although the broker may have taken the message.  The
\* row is RETRYING already, so the boundary leaves it alone.
PublishFails(s) ==
  /\ Fault
  /\ jobs[s].pc = "publish"
  /\ jobs' = [jobs EXCEPT ![s] = Free]
  /\ Disturb
  /\ UNCHANGED <<row, current, editor>>

\* retry_on_failure is switched in the schedule's form.
Toggle ==
  /\ Fault
  /\ row' = [row EXCEPT !.retry = ~@]
  /\ Disturb
  /\ UNCHANGED <<jobs, current, editor>>

\* UpdateReportScheduleCommand.validate: a schedule seen WORKING that is
\* deactivated is to become NOOP ...
DecideDeactivate ==
  /\ Fault
  /\ editor = "idle" /\ row.state = "WORKING"
  /\ editor' = "decided"
  /\ UNCHANGED <<row, jobs, current, history>>

\* ... and does, whatever it is by then.
Deactivate ==
  /\ editor = "decided"
  /\ editor' = "idle"
  /\ row' = [row EXCEPT !.state = "NOOP"]
  /\ current' = IF row.state = "NOOP" THEN current ELSE {}
  /\ UNCHANGED <<jobs, faults, history>>

Next ==
  \/ Age \/ Toggle \/ DecideDeactivate \/ Deactivate
  \/ \E s \in Slots : \/ Tick(s) \/ JobStep(s) \/ Crash(s)
                      \/ WriteFails(s) \/ PublishFails(s)
  \/ \E s, t \in Slots : Redeliver(s, t)

\* The scheduler never stops (a slot that is taken now is a bound, not a
\* reason to skip a window: hence SF), time passes, and every message is
\* delivered and its job goes on until it ends or dies.
Fairness ==
  /\ SF_vars(\E s \in Slots : Tick(s))
  /\ WF_vars(Age)
  /\ WF_vars(Deactivate)
  /\ \A s \in Slots : WF_vars(JobStep(s))

Spec == Init /\ [][Next]_vars /\ Fairness

----------------------------------------------------------------------------
(***************************************************************************)
(* Properties                                                              *)
(***************************************************************************)
Pcs == {"free", "queued", "cancel", "recover", "claim", "cas", "claimed",
        "work", "send", "deliver", "failed", "publish", "boundary"}
         \cup DOMAIN Terminal

\* Type invariant; one execution id owns the row, and one message is the
\* retry the row waits for, copies aside.
TypeOK ==
  /\ row \in [state : States, window : Nat, anchor : Nat,
              attempt : 0..MaxAttempts, retry : BOOLEAN, old : BOOLEAN]
  /\ jobs \in [Slots -> [pc : Pcs, id : Slots, retry : BOOLEAN, window : Nat,
                         owns : BOOLEAN, awaited : BOOLEAN, ran : BOOLEAN,
                         flag : BOOLEAN, viaSuccess : BOOLEAN,
                         started : BOOLEAN, left : 0..Recipients, late : Nat]]
  /\ current \subseteq Slots
  /\ editor \in {"idle", "decided"}
  /\ faults \in 0..MaxFaults
  /\ history \in [runs : Nat, out : BOOLEAN, disturbed : BOOLEAN]
  /\ \A s, t \in Slots :
       \/ jobs[s].owns /\ jobs[t].owns
       \/ jobs[s].awaited /\ jobs[t].awaited
       => jobs[s].id = jobs[t].id

\* A window of which any recipient may have got the content is not run
\* again: it is never left for a retry, and no second run comes to deliver
\* it, also when the first one was declared dead, killed or redelivered.
DeliveredWindowIsNotRerun ==
  history.out =>
    /\ row.state # "RETRYING"
    /\ \A s \in Slots : jobs[s].pc = "deliver" /\ Owns(s) => jobs[s].started

\* The retry counter counts the runs of the current window and no other's,
\* so that every window has its whole budget of retries and no more.
CounterCountsRuns ==
  /\ history.runs <= MaxAttempts + 1
  /\ \A s \in Slots :
       Owns(s) /\ jobs[s].pc \in {"work", "send", "deliver", "failed"}
         => Attempts(row, jobs[s]) = history.runs - 1

\* A worker that recovery or a later window has fenced serves at most the
\* one recipient it was cleared for before.
FencedWorkerSendsOnce == \A s \in Slots : jobs[s].late <= 1

\* While nobody dies, drops the retry or edits the schedule, a row that
\* waits for a retry has one coming.
RetryIsComing ==
  row.state = "RETRYING" /\ ~history.disturbed =>
    \E s \in Slots :
      \/ jobs[s].pc = "publish" /\ Owns(s)
      \/ /\ jobs[s].awaited /\ jobs[s].window = row.anchor
         /\ jobs[s].pc \in {"queued", "claim"}
              \/ (jobs[s].pc = "cas" /\ Unchanged(s))

\* No delivery of a message, by the broker or after a crash, runs what an
\* earlier delivery of it has run.
OneRunPerMessage ==
  [][\A s \in Slots :
       jobs[s].pc = "cas" /\ jobs'[s].pc = "claimed" => ~jobs[s].ran]_vars

\* A row that is WORKING is ended by the worker that owns it, or after
\* nothing has happened to it for the whole working timeout, or by an editor.
NobodyEndsForAnother ==
  [][row.state = "WORKING" /\ row'.state # "WORKING" =>
       \/ \E s \in Slots : Owns(s) /\ jobs'[s] # jobs[s]
       \/ row.old /\ \A s \in Slots : ~jobs'[s].owns
       \/ editor' # editor]_vars

\* Neither a crashed or fenced worker nor a lost retry blocks the schedule
\* for ever.  (It need not become idle: every window may fail, and time out
\* before its retry comes.)
ScheduleGoesOn ==
  \A state \in {"WORKING", "RETRYING"} : row.state = state ~> row.state # state
============================================================================
