----------------------- MODULE TaskContract_proofs -----------------------
(***************************************************************************)
(* The transitions a task makes by compare-and-swap implement the contract *)
(* of its status.  The three blind writes are set aside by their causes:   *)
(* no user cancels, no timeout is configured and no outage fences the      *)
(* worker; the third (task.status = IN_PROGRESS) is harmless then, because *)
(* the row is already IN_PROGRESS.  Crashes, the reaper, the prerequisites *)
(* and the faults of the broker remain.                                    *)
(***************************************************************************)
EXTENDS TaskLifecycle_proofs

USE DEF PENDING, IN_PROGRESS, ABORTING, SUCCESS, FAILURE, ABORTED, TIMED_OUT,
        TERMINAL_STATES, ACTIVE_STATES, ABORT_STATES, Statuses, Slots, SlotAfter

Unforced == Users = {} /\ ~HasTimeout /\ ~Outages

\* Nothing aborts the work, and while a worker holds the task its heartbeat
\* keeps the reaper away.
QuietInv ==
    /\ status \notin ABORT_STATES
    /\ ~AbortingInFlight
    /\ thread["timer"] \in {"off", "done"}
    /\ thread["fence"] \in {"off", "watch", "done"}
    /\ thread["listener"] \in {"off", "watch", "done"}
    /\ pc \notin {"loaded_aborted", "handle", "fin_fenced", "fin_timed_out",
                  "fin_aborted", "fin_stuck"}
    /\ pc \in EarlySpan \ {"claim", "context"} => heartbeat = "null"
    /\ pc \in HeartbeatSpan => heartbeat = "fresh"
    /\ pc \in EarlySpan \cup HeartbeatSpan
          => reaper = "idle" /\ thread["fence"] \in {"off", "watch"}
    /\ pc = "context" => status = IN_PROGRESS

LEMMA InitQuiet == Unforced /\ Init => QuietInv
  BY DEF Unforced, Init, QuietInv, AbortingInFlight, Threads, EarlySpan,
         PickupSpan, HeartbeatSpan

\* Without users, timeout and outages every step keeps the worker quiet.
LEMMA QuietStep == Unforced /\ TypeOK /\ HandlerInv /\ QuietInv /\ [Next]_vars => QuietInv'
<1> SUFFICES ASSUME Unforced, TypeOK, HandlerInv, QuietInv, [Next]_vars PROVE QuietInv'
  OBVIOUS
<1> USE DEF QuietInv, Unforced, row, context, world, Threads, EarlySpan,
        PickupSpan, HeartbeatSpan, AbortingInFlight, Beating
<1>1. CASE Enqueue
  BY <1>1 DEF Enqueue, Goto, HandlerInv
<1>2. CASE EnqueueFails
  BY <1>2 DEF EnqueueFails, Goto, HandlerInv
<1>3. CASE FailUnenqueued
  BY <1>3 DEF FailUnenqueued, StatusCAS, AnnounceIf
<1>4. CASE Load
  BY <1>4 DEF Load, Goto
<1>5. CASE FinishAborted
  BY <1>5 DEF FinishAborted, StatusCAS, AnnounceIf, Goto
<1>6. CASE Gate
  BY <1>6 DEF Gate, Goto, TypeOK
<1>7. CASE Defer
  BY <1>7 DEF Defer, Goto
<1>8. CASE FailBeforeClaim
  BY <1>8 DEF FailBeforeClaim, StatusCAS, AnnounceIf, Goto
<1>9. CASE Stamp
  BY <1>9 DEF Stamp, Goto
<1>10. CASE Claim
  BY <1>10 DEF Claim, StatusCAS, Goto
<1>11. CASE BuildContext
  BY <1>11 DEF BuildContext, BlindWrite, Goto, TypeOK
<1>12. CASE RegisterHandler
  BY <1>12 DEF RegisterHandler, Goto
<1>13. CASE SetAbortable
  BY <1>13 DEF SetAbortable, Goto, Move, TypeOK
<1>14. CASE BodyEnds
  BY <1>14 DEF BodyEnds, Goto
<1>15. CASE Decide
  BY <1>15 DEF Decide, Goto, AbortingInFlight
<1>16. CASE Commit
  BY <1>16 DEF Commit, StatusCAS, Goto
<1>17. CASE StopThreads
  BY <1>17 DEF StopThreads, Goto, TypeOK
<1>18. CASE InspectStatus
  BY <1>18 DEF InspectStatus, Goto, AbortUndetected
<1>19. CASE HandleInCleanup
  BY <1>19 DEF HandleInCleanup, Goto, TriggerAbortHandlers
<1>20. CASE Tidy
  BY <1>20 DEF Tidy, Goto, StatusCAS
<1>21. CASE ChooseFinal
  BY <1>21 DEF ChooseFinal, Goto, AbortOutcome, AbortingInFlight
<1>22. CASE Finalize
  BY <1>22 DEF Finalize, Goto, StatusCAS
<1>23. CASE PublishFinal
  BY <1>23 DEF PublishFinal, Goto, AnnounceIf
<1>24. CASE CommandRaises
  BY <1>24 DEF CommandRaises, Goto
<1>25. CASE RegistrationRaises
  BY <1>25 DEF RegistrationRaises, Goto
<1>26. CASE Crash
  BY <1>26 DEF Crash, Goto, TypeOK
<1>27. CASE Beat
  BY <1>27 DEF Beat
<1>28. CASE HeartbeatAges
  BY <1>28 DEF HeartbeatAges
<1>29. CASE ListenerDetects
  BY <1>29 DEF ListenerDetects, Move, TypeOK
<1>30. CASE TimerFires
  BY <1>30 DEF TimerFires, Move, TypeOK
<1>31. CASE FenceFires
  BY <1>31 DEF FenceFires, Move, TypeOK
<1>32. CASE MarkTimeout
  BY <1>32 DEF MarkTimeout, Move, CachedAbortable, TypeOK
<1>33. CASE MarkFence
  BY <1>33 DEF MarkFence, Move, CachedAbortable, TypeOK
<1>34. ASSUME NEW t \in {"timer", "fence"}, LocalRead(t) PROVE QuietInv'
  BY <1>34 DEF LocalRead, Move, TypeOK
<1>35. ASSUME NEW t \in {"timer", "fence"}, LocalWrite(t) PROVE QuietInv'
  BY <1>35 DEF LocalWrite, Move, BlindWrite, TypeOK
<1>36. ASSUME NEW t \in {"timer", "fence"}, LocalWriteFails(t) PROVE QuietInv'
  BY <1>36 DEF LocalWriteFails, Move, TypeOK
<1>37. ASSUME NEW t \in Threads, Elect(t) PROVE QuietInv'
  BY <1>37 DEF Elect, Move, TypeOK
<1>38. ASSUME NEW t \in Threads, DetectAbort(t) PROVE QuietInv'
  BY <1>38 DEF DetectAbort, Move, TypeOK
<1>39. ASSUME NEW t \in Threads, Handle(t) PROVE QuietInv'
  BY <1>39 DEF Handle, Move, TriggerAbortHandlers, TypeOK
<1>40. ASSUME NEW u \in Users, CancelRefused(u) PROVE QuietInv'
  BY <1>40 DEF CancelRefused, Answer
<1>41. ASSUME NEW u \in Users, CancelUnsubscribes(u) PROVE QuietInv'
  BY <1>41 DEF CancelUnsubscribes, Answer
<1>42. ASSUME NEW u \in Users, CancelReads(u) PROVE QuietInv'
  BY <1>42 DEF CancelReads, Answer
<1>43. ASSUME NEW u \in Users, CancelWrites(u) PROVE QuietInv'
  BY <1>43 DEF CancelWrites, Answer, BlindWrite, PublishCancelled,
     AnnounceIf
<1>44. CASE FindOrphaned
  BY <1>44 DEF FindOrphaned, Orphaned
<1>45. CASE Reap
  BY <1>45 DEF Reap, StatusCAS, AnnounceIf
<1>46. CASE PrerequisitesEnd
  BY <1>46 DEF PrerequisitesEnd
<1>47. CASE FailUndeferred
  BY <1>47 DEF FailUndeferred, StatusCAS, AnnounceIf
<1>48. CASE CacheAbortable
  BY <1>48 DEF CacheAbortable, Goto
<1>49. CASE UNCHANGED vars
  BY <1>49 DEF vars
<1>50. QED
  BY <1>1, <1>2, <1>3, <1>4, <1>5, <1>6, <1>7, <1>8, <1>9, <1>10, <1>11,
     <1>12, <1>13, <1>14, <1>15, <1>16, <1>17, <1>18, <1>19, <1>20, <1>21,
     <1>22, <1>23, <1>24, <1>25, <1>26, <1>27, <1>28, <1>29, <1>30, <1>31,
     <1>32, <1>33, <1>34, <1>35, <1>36, <1>37, <1>38, <1>39, <1>40, <1>41,
     <1>42, <1>43, <1>44, <1>45, <1>46, <1>47, <1>48, <1>49
  DEF Next, Publisher, Pickup, Execution, Ending, Failing, Aborting, LocalAbort, Cancelling

\* Every step of the quiet task is a step of the contract, or leaves status
\* and slot as they are.
LEMMA ContractStep == Unforced /\ TypeOK /\ QuietInv /\ [Next]_vars => [Contract!Next]_<<status, slot>>
<1> SUFFICES ASSUME Unforced, TypeOK, QuietInv, [Next]_vars PROVE [Contract!Next]_<<status, slot>>
  OBVIOUS
<1> USE DEF QuietInv, Unforced, TypeOK, row, Contract!Next, Contract!Claim,
        Contract!End, Contract!EndWith, Contract!RequestAbort,
        Contract!PENDING, Contract!IN_PROGRESS, Contract!ABORTING,
        Contract!SUCCESS, Contract!FAILURE, Contract!ABORTED,
        Contract!TIMED_OUT, Contract!ACTIVE_STATES, EarlySpan, PickupSpan,
        HeartbeatSpan
<1>1. CASE Enqueue
  BY <1>1 DEF Enqueue, Goto
<1>2. CASE EnqueueFails
  BY <1>2 DEF EnqueueFails, Goto
<1>3. CASE FailUnenqueued
  BY <1>3 DEF FailUnenqueued, StatusCAS, AnnounceIf
<1>4. CASE Load
  BY <1>4 DEF Load, Goto
<1>5. CASE FinishAborted
  BY <1>5 DEF FinishAborted, StatusCAS, AnnounceIf, Goto
<1>6. CASE Gate
  BY <1>6 DEF Gate, Goto
<1>7. CASE Defer
  BY <1>7 DEF Defer, Goto
<1>8. CASE FailBeforeClaim
  BY <1>8 DEF FailBeforeClaim, StatusCAS, AnnounceIf, Goto
<1>9. CASE Stamp
  BY <1>9 DEF Stamp, Goto
<1>10. CASE Claim
  BY <1>10 DEF Claim, StatusCAS, Goto
<1>11. CASE BuildContext
  BY <1>11 DEF BuildContext, BlindWrite, Goto
<1>12. CASE RegisterHandler
  BY <1>12 DEF RegisterHandler, Goto
<1>13. CASE SetAbortable
  BY <1>13 DEF SetAbortable, Goto, Move
<1>14. CASE BodyEnds
  BY <1>14 DEF BodyEnds, Goto
<1>15. CASE Decide
  BY <1>15 DEF Decide, Goto, AbortingInFlight
<1>16. CASE Commit
  BY <1>16 DEF Commit, StatusCAS, Goto
<1>17. CASE StopThreads
  BY <1>17 DEF StopThreads, Goto
<1>18. CASE InspectStatus
  BY <1>18 DEF InspectStatus, Goto
<1>19. CASE HandleInCleanup
  BY <1>19 DEF HandleInCleanup, Goto, TriggerAbortHandlers
<1>20. CASE Tidy
  BY <1>20 DEF Tidy, Goto, StatusCAS
<1>21. CASE ChooseFinal
  BY <1>21 DEF ChooseFinal, Goto, AbortOutcome, AbortingInFlight
<1>22. CASE Finalize
  BY <1>22 DEF Finalize, Goto, StatusCAS
<1>23. CASE PublishFinal
  BY <1>23 DEF PublishFinal, Goto, AnnounceIf
<1>24. CASE CommandRaises
  BY <1>24 DEF CommandRaises, Goto
<1>25. CASE RegistrationRaises
  BY <1>25 DEF RegistrationRaises, Goto
<1>26. CASE Crash
  BY <1>26 DEF Crash, Goto
<1>27. CASE Beat
  BY <1>27 DEF Beat
<1>28. CASE HeartbeatAges
  BY <1>28 DEF HeartbeatAges
<1>29. CASE ListenerDetects
  BY <1>29 DEF ListenerDetects, Move
<1>30. CASE TimerFires
  BY <1>30 DEF TimerFires, Move
<1>31. CASE FenceFires
  BY <1>31 DEF FenceFires, Move
<1>32. CASE MarkTimeout
  BY <1>32 DEF MarkTimeout, Move, CachedAbortable
<1>33. CASE MarkFence
  BY <1>33 DEF MarkFence, Move, CachedAbortable
<1>34. ASSUME NEW t \in {"timer", "fence"}, LocalRead(t) PROVE [Contract!Next]_<<status, slot>>
  BY <1>34 DEF LocalRead, Move
<1>35. ASSUME NEW t \in {"timer", "fence"}, LocalWrite(t) PROVE [Contract!Next]_<<status, slot>>
  BY <1>35 DEF LocalWrite, Move, BlindWrite, Threads
<1>36. ASSUME NEW t \in {"timer", "fence"}, LocalWriteFails(t) PROVE [Contract!Next]_<<status, slot>>
  BY <1>36 DEF LocalWriteFails, Move
<1>37. ASSUME NEW t \in Threads, Elect(t) PROVE [Contract!Next]_<<status, slot>>
  BY <1>37 DEF Elect, Move
<1>38. ASSUME NEW t \in Threads, DetectAbort(t) PROVE [Contract!Next]_<<status, slot>>
  BY <1>38 DEF DetectAbort, Move
<1>39. ASSUME NEW t \in Threads, Handle(t) PROVE [Contract!Next]_<<status, slot>>
  BY <1>39 DEF Handle, Move, TriggerAbortHandlers
<1>40. ASSUME NEW u \in Users, CancelRefused(u) PROVE [Contract!Next]_<<status, slot>>
  BY <1>40 DEF CancelRefused, Answer
<1>41. ASSUME NEW u \in Users, CancelUnsubscribes(u) PROVE [Contract!Next]_<<status, slot>>
  BY <1>41 DEF CancelUnsubscribes, Answer
<1>42. ASSUME NEW u \in Users, CancelReads(u) PROVE [Contract!Next]_<<status, slot>>
  BY <1>42 DEF CancelReads, Answer
<1>43. ASSUME NEW u \in Users, CancelWrites(u) PROVE [Contract!Next]_<<status, slot>>
  BY <1>43 DEF CancelWrites, Answer, BlindWrite, PublishCancelled,
     AnnounceIf
<1>44. CASE FindOrphaned
  BY <1>44 DEF FindOrphaned
<1>45. CASE Reap
  BY <1>45 DEF Reap, StatusCAS, AnnounceIf
<1>46. CASE PrerequisitesEnd
  BY <1>46 DEF PrerequisitesEnd
<1>47. CASE FailUndeferred
  BY <1>47 DEF FailUndeferred, StatusCAS, AnnounceIf
<1>48. CASE CacheAbortable
  BY <1>48 DEF CacheAbortable, Goto
<1>49. CASE UNCHANGED vars
  BY <1>49 DEF vars
<1>50. QED
  BY <1>1, <1>2, <1>3, <1>4, <1>5, <1>6, <1>7, <1>8, <1>9, <1>10, <1>11,
     <1>12, <1>13, <1>14, <1>15, <1>16, <1>17, <1>18, <1>19, <1>20, <1>21,
     <1>22, <1>23, <1>24, <1>25, <1>26, <1>27, <1>28, <1>29, <1>30, <1>31,
     <1>32, <1>33, <1>34, <1>35, <1>36, <1>37, <1>38, <1>39, <1>40, <1>41,
     <1>42, <1>43, <1>44, <1>45, <1>46, <1>47, <1>48, <1>49
  DEF Next, Publisher, Pickup, Execution, Ending, Failing, Aborting, LocalAbort, Cancelling

\* Refinement: under compare-and-swap alone a task is claimed at most once,
\* ends at most once, keeps the status it ended in and frees its slot then.
THEOREM CASImplementsContract == Unforced => (Spec => ImplementsContract)
<1> SUFFICES ASSUME Unforced PROVE Spec => ImplementsContract
  OBVIOUS
<1>0. Init => QuietInv
  BY InitQuiet
<1>1. Init => Contract!Init
  BY DEF Init, Contract!Init, Contract!PENDING
<1>2. IInv /\ QuietInv /\ [Next]_vars => QuietInv'
  BY QuietStep DEF IInv
<1>3. IInv /\ QuietInv /\ [Next]_vars => [Contract!Next]_<<status, slot>>
  BY ContractStep DEF IInv
<1>4. QED
  BY Inductive, <1>0, <1>1, <1>2, <1>3, PTL
     DEF Spec, ImplementsContract, Contract!Spec

==========================================================================
