------------------------------ MODULE TaskLock ------------------------------
(***************************************************************************)
(* The distributed lock that serializes submits and cancels of one task    *)
(* key: task_lock, the two lock commands under it, and the loop of         *)
(* wait_for_signal in which a process waits for the lock.                  *)
(*                                                                         *)
(* The lock is a value with a time to live, set if absent and deleted if   *)
(* it still holds the token of the acquisition.  A waiter parks on the     *)
(* stream of release signals; it captures its position in the stream, and  *)
(* tries the lock once more, before it parks.                              *)
(***************************************************************************)
EXTENDS Naturals

CONSTANTS
    Procs,        \* the processes that use the lock
    Free,         \* the value of the lock when nobody has it
    Orphan,       \* a token whose acquisition is over: nobody releases it
    HasBackend,   \* DISTRIBUTED_COORDINATION_CONFIG is set: there are signals
    Overruns,     \* a holder may take longer than the time to live
    Crashes,      \* a process may die at any step
    Faults,       \* a command to the lock's backend may fail
    MaxRequests   \* bound: how often a process asks for the lock

ASSUME LockAssumption ==
    /\ Free \notin Procs /\ Orphan \notin Procs /\ Free # Orphan
    /\ {HasBackend, Overruns, Crashes, Faults} \subseteq BOOLEAN
    /\ MaxRequests \in Nat

VARIABLES
    lock,      \* Free, or the process whose token it holds, or Orphan
    stream,    \* the id of the last signal, 0 before the first
    lastId,    \* the position of each waiter in the stream
    pc,        \* where each process is
    requests,  \* how often each process has asked
    \* history: the processes whose lock expired while they were holding it,
    \* and whether the lock was last freed with no signal to come
    overrun, silent

vars == <<lock, stream, lastId, pc, requests, overrun, silent>>

\* The three calls of wait_for_signal's check.
Checking == {"first", "second", "again"}

Waiting == Checking \cup {"baseline", "parked"}

TypeOK ==
    /\ lock \in Procs \cup {Free, Orphan}
    /\ stream \in Nat
    /\ lastId \in [Procs -> Nat]
    /\ pc \in [Procs -> {"idle", "holding", "notify", "crashed"} \cup Waiting]
    /\ requests \in [Procs -> 0..MaxRequests]
    /\ overrun \subseteq Procs
    /\ silent \in BOOLEAN

Init ==
    /\ lock = Free /\ stream = 0 /\ lastId = [p \in Procs |-> 0]
    /\ pc = [p \in Procs |-> "idle"] /\ requests = [p \in Procs |-> 0]
    /\ overrun = {} /\ silent = FALSE

Goto(p, label) == pc' = [pc EXCEPT ![p] = label]

----------------------------------------------------------------------------
Request(p) ==
    /\ pc[p] = "idle" /\ requests[p] < MaxRequests
    /\ requests' = [requests EXCEPT ![p] = @ + 1]
    /\ Goto(p, "first")
    /\ UNCHANGED <<lock, stream, lastId, overrun, silent>>

\* Mutant of Acquire: the value is set without "if absent".
AcquireAnyway(p) ==
    /\ pc[p] \in Checking
    /\ lock' = p
    /\ silent' = FALSE
    /\ Goto(p, "holding")
    /\ UNCHANGED <<stream, lastId, requests, overrun>>

Acquire(p) ==
    /\ pc[p] \in Checking
    /\ lock = Free
    /\ lock' = p
    /\ silent' = FALSE
    /\ Goto(p, "holding")
    /\ UNCHANGED <<stream, lastId, requests, overrun>>

\* Without a backend the waiter polls, with no position to capture.
AlreadyHeld(p) ==
    /\ pc[p] \in Checking
    /\ lock # Free
    /\ Goto(p, IF pc[p] = "first" /\ HasBackend THEN "baseline" ELSE "parked")
    /\ UNCHANGED <<lock, stream, lastId, requests, overrun, silent>>

\* The command raises out of task_lock; the backend may have run it.
AcquireErrors(p) ==
    /\ Faults
    /\ pc[p] \in Checking
    /\ lock' = lock \/ (lock = Free /\ lock' = Orphan)
    /\ Goto(p, "idle")
    /\ UNCHANGED <<stream, lastId, requests, overrun, silent>>

\* Mutants of Baseline: the waiter parks without checking once more; it aims
\* one signal too early.
BaselineThenPark(p) ==
    /\ pc[p] = "baseline"
    /\ lastId' = [lastId EXCEPT ![p] = stream]
    /\ Goto(p, "parked")
    /\ UNCHANGED <<lock, stream, requests, overrun, silent>>

BaselineTooEarly(p) ==
    /\ pc[p] = "baseline"
    /\ lastId' = [lastId EXCEPT ![p] = stream - 1]
    /\ Goto(p, "second")
    /\ UNCHANGED <<lock, stream, requests, overrun, silent>>

\* A failing read of the position starts from the beginning of the stream.
Baseline(p) ==
    /\ pc[p] = "baseline"
    /\ \E id \in {stream} \cup (IF Faults THEN {0} ELSE {}) :
          lastId' = [lastId EXCEPT ![p] = id]
    /\ Goto(p, "second")
    /\ UNCHANGED <<lock, stream, requests, overrun, silent>>

ReadSignal(p) ==
    /\ pc[p] = "parked" /\ HasBackend
    /\ stream > lastId[p]
    /\ lastId' = [lastId EXCEPT ![p] = stream]
    /\ Goto(p, "again")
    /\ UNCHANGED <<lock, stream, requests, overrun, silent>>

\* Mutant of Recheck: with a backend, the read of the stream has no timeout.
RecheckOnlyPolling(p) ==
    /\ pc[p] = "parked" /\ ~HasBackend
    /\ Goto(p, "again")
    /\ UNCHANGED <<lock, stream, lastId, requests, overrun, silent>>

\* The block or poll interval elapses, or the read fails: check again.
Recheck(p) ==
    /\ pc[p] = "parked"
    /\ Goto(p, "again")
    /\ UNCHANGED <<lock, stream, lastId, requests, overrun, silent>>

\* TASK_LOCK_WAIT_SECONDS are over: TimeoutError.
TimeOut(p) ==
    /\ pc[p] = "parked"
    /\ Goto(p, "idle")
    /\ UNCHANGED <<lock, stream, lastId, requests, overrun, silent>>

\* Mutant of DeletedBy: the value is deleted whoever's token it holds.
DeletedAnyway(p) == Free

\* The token is compared where the value is deleted, in one command.
DeletedBy(p) == IF lock = p THEN Free ELSE lock

Release(p) ==
    /\ pc[p] = "holding"
    /\ lock' = DeletedBy(p)
    /\ overrun' = overrun \ {p}
    /\ Goto(p, IF HasBackend THEN "notify" ELSE "idle")
    /\ UNCHANGED <<stream, lastId, requests, silent>>

\* Logged, never raised; the signal is sent all the same.
ReleaseErrors(p) ==
    /\ Faults
    /\ pc[p] = "holding"
    /\ lock' = IF lock = p THEN Orphan ELSE lock
    /\ overrun' = overrun \ {p}
    /\ Goto(p, IF HasBackend THEN "notify" ELSE "idle")
    /\ UNCHANGED <<stream, lastId, requests, silent>>

Notify(p) ==
    /\ pc[p] = "notify"
    /\ stream' = stream + 1
    /\ Goto(p, "idle")
    /\ UNCHANGED <<lock, lastId, requests, overrun, silent>>

NotifyErrors(p) ==
    /\ Faults
    /\ pc[p] = "notify"
    /\ silent' = TRUE
    /\ Goto(p, "idle")
    /\ UNCHANGED <<lock, stream, lastId, requests, overrun>>

Crash(p) ==
    /\ Crashes
    /\ pc[p] \notin {"idle", "crashed"}
    /\ lock' = IF lock = p THEN Orphan ELSE lock
    /\ overrun' = overrun \ {p}
    /\ silent' = (silent \/ pc[p] = "notify")
    /\ Goto(p, "crashed")
    /\ UNCHANGED <<stream, lastId, requests>>

\* The time to live elapses.
Expire ==
    /\ lock # Free
    /\ Overruns \/ lock = Orphan
    /\ lock' = Free
    /\ overrun' = IF lock = Orphan THEN overrun ELSE overrun \cup {lock}
    /\ silent' = TRUE
    /\ UNCHANGED <<stream, lastId, pc, requests>>

----------------------------------------------------------------------------
Wait(p) ==
    Acquire(p) \/ AlreadyHeld(p) \/ Baseline(p) \/ ReadSignal(p) \/ Recheck(p)

Step(p) ==
    \/ Request(p) \/ Wait(p) \/ Release(p) \/ Notify(p)
    \/ TimeOut(p) \/ AcquireErrors(p) \/ ReleaseErrors(p) \/ NotifyErrors(p)
    \/ Crash(p)

Next == Expire \/ \E p \in Procs : Step(p)

(***************************************************************************)
(* A process that has not crashed goes on, and time passes.  Nothing is    *)
(* assumed of the deadline: waiting must end without it.                   *)
(***************************************************************************)
Fairness ==
    /\ WF_vars(Expire)
    /\ \A p \in Procs : WF_vars(Wait(p)) /\ WF_vars(Release(p)) /\ WF_vars(Notify(p))

Spec == Init /\ [][Next]_vars /\ Fairness

----------------------------------------------------------------------------
\* A parked waiter is never left behind by a release: as long as the lock was
\* not freed silently, a signal it has not seen is there, or about to be sent.
\* The second check, after the position is captured, is what makes this hold.
NoLostWakeup ==
    HasBackend /\ lock = Free /\ ~silent
        => \A p \in Procs :
              pc[p] = "parked" => \/ stream > lastId[p]
                                  \/ \E q \in Procs : pc[q] = "notify"

\* While it holds the lock, nobody but a process itself takes the lock from it:
\* a holder that overran its time to live does not release its successor's.
NobodyReleasesForAnother ==
    [][\A p \in Procs :
          lock = p /\ pc[p] = "holding" /\ lock' # p
              => pc'[p] # "holding" \/ p \in overrun']_vars

\* The lock implements mutual exclusion between the holders that have not
\* overrun their time to live.
Inside == {p \in Procs : pc[p] = "holding" /\ p \notin overrun}

Contract == INSTANCE LockContract WITH inside <- Inside

ImplementsLockContract == Contract!Spec

\* Every wait ends, also behind a holder that crashed, a failed release or a
\* lost signal, and without the help of the deadline.
WaitEnds == \A p \in Procs : pc[p] \in Waiting ~> pc[p] \notin Waiting

=============================================================================
