----------------------- MODULE TaskLifecycle_proofs -----------------------
(***************************************************************************)
(* The safety theorems of TaskLifecycle, for every set of users and every  *)
(* combination of timeouts, prerequisites, crashes, outages and broker     *)
(* faults.  TypeOK, TerminalFreesSlot, HandlerInv and CauseInv (see        *)
(* TaskInvariants) are shown inductive one after the other, each lemma     *)
(* with one step per action.                                               *)
(***************************************************************************)
EXTENDS TaskInvariants, TLAPS

USE DEF PENDING, IN_PROGRESS, ABORTING, SUCCESS, FAILURE, ABORTED, TIMED_OUT,
        TERMINAL_STATES, ACTIVE_STATES, ABORT_STATES, Statuses, Slots, SlotAfter

----------------------------------------------------------------------------
(* Initial states.                                                         *)

\* A committed, unsent task satisfies the whole invariant.
LEMMA InitIInv == Init => IInv
<1> SUFFICES ASSUME Init PROVE IInv
  OBVIOUS
<1> USE DEF Init
<1>1. TypeOK
  BY LifecycleAssumption DEF TypeOK, LifecycleAssumption, PickupSpan,
     HeartbeatSpan, Threads
<1>2. TerminalFreesSlot
  BY DEF TerminalFreesSlot
<1>3. HandlerInv
  BY DEF HandlerInv, Threads
<1>4. CauseInv
  BY DEF CauseInv, Acting, Threads
<1>5. QED
  BY <1>1, <1>2, <1>3, <1>4 DEF IInv

----------------------------------------------------------------------------
(* Steps.                                                                  *)

\* Every step keeps the types.
LEMMA TypeStep == TypeOK /\ [Next]_vars => TypeOK'
<1> SUFFICES ASSUME TypeOK, [Next]_vars PROVE TypeOK'
  OBVIOUS
<1> USE DEF TypeOK, row, context, world, Threads, HeartbeatSpan, PickupSpan
<1>1. CASE Enqueue
  BY <1>1 DEF Enqueue, Goto
<1>2. CASE EnqueueFails
  BY <1>2 DEF EnqueueFails, Goto
<1>3. CASE FailUnenqueued
  <2>1. status' \in Statuses /\ slot' \in Slots
    BY <1>3 DEF FailUnenqueued, StatusCAS
  <2>2. announced' \subseteq TERMINAL_STATES
    BY <1>3 DEF FailUnenqueued, AnnounceIf
  <2>3. QED
    BY <1>3, <2>1, <2>2 DEF FailUnenqueued
<1>4. CASE Load
  BY <1>4 DEF Load, Goto
<1>5. CASE FinishAborted
  BY <1>5 DEF FinishAborted, StatusCAS, AnnounceIf, Goto
<1>6. CASE Gate
  BY <1>6 DEF Gate, Goto
<1>7. CASE Defer
  BY <1>7 DEF Defer, Goto
<1>8. CASE FailBeforeClaim
  BY <1>8 DEF FailBeforeClaim, StatusCAS, AnnounceIf, Goto
<1>9. CASE Stamp
  BY <1>9 DEF Stamp, Goto
<1>10. CASE Claim
  BY <1>10 DEF Claim, StatusCAS, Goto
<1>11. CASE BuildContext
  BY <1>11 DEF BuildContext, BlindWrite, Goto
<1>12. CASE RegisterHandler
  BY <1>12 DEF RegisterHandler, Goto
<1>13. CASE SetAbortable
  BY <1>13 DEF SetAbortable, Goto, Move
<1>14. CASE BodyEnds
  BY <1>14 DEF BodyEnds, Goto
<1>15. CASE Decide
  BY <1>15 DEF Decide, Goto, AbortingInFlight
<1>16. CASE Commit
  BY <1>16 DEF Commit, StatusCAS, Goto
<1>17. CASE StopThreads
  BY <1>17 DEF StopThreads, Goto
<1>18. CASE InspectStatus
  BY <1>18 DEF InspectStatus, Goto
<1>19. CASE HandleInCleanup
  BY <1>19 DEF HandleInCleanup, Goto, TriggerAbortHandlers
<1>20. CASE Tidy
  BY <1>20 DEF Tidy, Goto, StatusCAS
<1>21. CASE ChooseFinal
  BY <1>21 DEF ChooseFinal, Goto, AbortOutcome, AbortingInFlight
<1>22. CASE Finalize
  BY <1>22 DEF Finalize, Goto, StatusCAS
<1>23. CASE PublishFinal
  BY <1>23 DEF PublishFinal, Goto, AnnounceIf
<1>24. CASE CommandRaises
  BY <1>24 DEF CommandRaises, Goto
<1>25. CASE RegistrationRaises
  BY <1>25 DEF RegistrationRaises, Goto
<1>26. CASE Crash
  BY <1>26 DEF Crash, Goto
<1>27. CASE Beat
  BY <1>27 DEF Beat
<1>28. CASE HeartbeatAges
  BY <1>28 DEF HeartbeatAges
<1>29. CASE ListenerDetects
  BY <1>29 DEF ListenerDetects, Move
<1>30. CASE TimerFires
  BY <1>30 DEF TimerFires, Move
<1>31. CASE FenceFires
  BY <1>31 DEF FenceFires, Move
<1>32. CASE MarkTimeout
  BY <1>32 DEF MarkTimeout, Move, CachedAbortable
<1>33. CASE MarkFence
  BY <1>33 DEF MarkFence, Move, CachedAbortable
<1>34. ASSUME NEW t \in {"timer", "fence"}, LocalRead(t) PROVE TypeOK'
  BY <1>34 DEF LocalRead, Move
<1>35. ASSUME NEW t \in {"timer", "fence"}, LocalWrite(t) PROVE TypeOK'
  BY <1>35 DEF LocalWrite, Move, BlindWrite
<1>36. ASSUME NEW t \in {"timer", "fence"}, LocalWriteFails(t) PROVE TypeOK'
  BY <1>36 DEF LocalWriteFails, Move
<1>37. ASSUME NEW t \in Threads, Elect(t) PROVE TypeOK'
  BY <1>37 DEF Elect, Move
<1>38. ASSUME NEW t \in Threads, DetectAbort(t) PROVE TypeOK'
  BY <1>38 DEF DetectAbort, Move
<1>39. ASSUME NEW t \in Threads, Handle(t) PROVE TypeOK'
  BY <1>39 DEF Handle, Move, TriggerAbortHandlers
<1>40. ASSUME NEW u \in Users, CancelRefused(u) PROVE TypeOK'
  BY <1>40 DEF CancelRefused, Answer
<1>41. ASSUME NEW u \in Users, CancelUnsubscribes(u) PROVE TypeOK'
  BY <1>41 DEF CancelUnsubscribes, Answer
<1>42. ASSUME NEW u \in Users, CancelReads(u) PROVE TypeOK'
  BY <1>42 DEF CancelReads, Answer
<1>43. ASSUME NEW u \in Users, CancelWrites(u) PROVE TypeOK'
  <2>1. status' \in Statuses /\ slot' \in Slots
    BY <1>43 DEF CancelWrites, BlindWrite
  <2>2. announced' \subseteq TERMINAL_STATES
    BY <1>43 DEF CancelWrites, PublishCancelled, AnnounceIf
  <2>3. QED
    BY <1>43, <2>1, <2>2 DEF CancelWrites, Answer
<1>44. CASE FindOrphaned
  BY <1>44 DEF FindOrphaned
<1>45. CASE Reap
  BY <1>45 DEF Reap, StatusCAS, AnnounceIf
<1>46. CASE PrerequisitesEnd
  BY <1>46 DEF PrerequisitesEnd
<1>47. CASE FailUndeferred
  <2>1. status' \in Statuses /\ slot' \in Slots
    BY <1>47 DEF FailUndeferred, StatusCAS
  <2>2. announced' \subseteq TERMINAL_STATES
    BY <1>47 DEF FailUndeferred, AnnounceIf
  <2>3. QED
    BY <1>47, <2>1, <2>2 DEF FailUndeferred
<1>48. CASE CacheAbortable
  BY <1>48 DEF CacheAbortable, Goto
<1>49. CASE UNCHANGED vars
  BY <1>49 DEF vars
<1>50. QED
  BY <1>1, <1>2, <1>3, <1>4, <1>5, <1>6, <1>7, <1>8, <1>9, <1>10, <1>11,
     <1>12, <1>13, <1>14, <1>15, <1>16, <1>17, <1>18, <1>19, <1>20, <1>21,
     <1>22, <1>23, <1>24, <1>25, <1>26, <1>27, <1>28, <1>29, <1>30, <1>31,
     <1>32, <1>33, <1>34, <1>35, <1>36, <1>37, <1>38, <1>39, <1>40, <1>41,
     <1>42, <1>43, <1>44, <1>45, <1>46, <1>47, <1>48, <1>49
  DEF Next, Publisher, Pickup, Execution, Ending, Failing, Aborting, LocalAbort, Cancelling

\* Every step that writes a terminal status also frees the slot, and no step
\* takes a freed slot again.
LEMMA SlotStep == TypeOK /\ TerminalFreesSlot /\ [Next]_vars => TerminalFreesSlot'
<1> SUFFICES ASSUME TypeOK, TerminalFreesSlot, [Next]_vars PROVE TerminalFreesSlot'
  OBVIOUS
<1> USE DEF TerminalFreesSlot, TypeOK, row
<1>1. CASE Enqueue
  BY <1>1 DEF Enqueue, Goto
<1>2. CASE EnqueueFails
  BY <1>2 DEF EnqueueFails, Goto
<1>3. CASE FailUnenqueued
  BY <1>3 DEF FailUnenqueued, StatusCAS, AnnounceIf
<1>4. CASE Load
  BY <1>4 DEF Load, Goto
<1>5. CASE FinishAborted
  BY <1>5 DEF FinishAborted, StatusCAS, AnnounceIf, Goto
<1>6. CASE Gate
  BY <1>6 DEF Gate, Goto
<1>7. CASE Defer
  BY <1>7 DEF Defer, Goto
<1>8. CASE FailBeforeClaim
  BY <1>8 DEF FailBeforeClaim, StatusCAS, AnnounceIf, Goto
<1>9. CASE Stamp
  BY <1>9 DEF Stamp, Goto
<1>10. CASE Claim
  BY <1>10 DEF Claim, StatusCAS, Goto
<1>11. CASE BuildContext
  BY <1>11 DEF BuildContext, BlindWrite, Goto
<1>12. CASE RegisterHandler
  BY <1>12 DEF RegisterHandler, Goto
<1>13. CASE SetAbortable
  BY <1>13 DEF SetAbortable, Goto, Move
<1>14. CASE BodyEnds
  BY <1>14 DEF BodyEnds, Goto
<1>15. CASE Decide
  BY <1>15 DEF Decide, Goto, AbortingInFlight
<1>16. CASE Commit
  BY <1>16 DEF Commit, StatusCAS, Goto
<1>17. CASE StopThreads
  BY <1>17 DEF StopThreads, Goto
<1>18. CASE InspectStatus
  BY <1>18 DEF InspectStatus, Goto
<1>19. CASE HandleInCleanup
  BY <1>19 DEF HandleInCleanup, Goto, TriggerAbortHandlers
<1>20. CASE Tidy
  BY <1>20 DEF Tidy, Goto, StatusCAS
<1>21. CASE ChooseFinal
  BY <1>21 DEF ChooseFinal, Goto, AbortOutcome, AbortingInFlight
<1>22. CASE Finalize
  BY <1>22 DEF Finalize, Goto, StatusCAS
<1>23. CASE PublishFinal
  BY <1>23 DEF PublishFinal, Goto, AnnounceIf
<1>24. CASE CommandRaises
  BY <1>24 DEF CommandRaises, Goto
<1>25. CASE RegistrationRaises
  BY <1>25 DEF RegistrationRaises, Goto
<1>26. CASE Crash
  BY <1>26 DEF Crash, Goto
<1>27. CASE Beat
  BY <1>27 DEF Beat
<1>28. CASE HeartbeatAges
  BY <1>28 DEF HeartbeatAges
<1>29. CASE ListenerDetects
  BY <1>29 DEF ListenerDetects, Move
<1>30. CASE TimerFires
  BY <1>30 DEF TimerFires, Move
<1>31. CASE FenceFires
  BY <1>31 DEF FenceFires, Move
<1>32. CASE MarkTimeout
  BY <1>32 DEF MarkTimeout, Move, CachedAbortable
<1>33. CASE MarkFence
  BY <1>33 DEF MarkFence, Move, CachedAbortable
<1>34. ASSUME NEW t \in {"timer", "fence"}, LocalRead(t) PROVE TerminalFreesSlot'
  BY <1>34 DEF LocalRead, Move
<1>35. ASSUME NEW t \in {"timer", "fence"}, LocalWrite(t) PROVE TerminalFreesSlot'
  BY <1>35 DEF LocalWrite, Move, BlindWrite
<1>36. ASSUME NEW t \in {"timer", "fence"}, LocalWriteFails(t) PROVE TerminalFreesSlot'
  BY <1>36 DEF LocalWriteFails, Move
<1>37. ASSUME NEW t \in Threads, Elect(t) PROVE TerminalFreesSlot'
  BY <1>37 DEF Elect, Move
<1>38. ASSUME NEW t \in Threads, DetectAbort(t) PROVE TerminalFreesSlot'
  BY <1>38 DEF DetectAbort, Move
<1>39. ASSUME NEW t \in Threads, Handle(t) PROVE TerminalFreesSlot'
  BY <1>39 DEF Handle, Move, TriggerAbortHandlers
<1>40. ASSUME NEW u \in Users, CancelRefused(u) PROVE TerminalFreesSlot'
  BY <1>40 DEF CancelRefused, Answer
<1>41. ASSUME NEW u \in Users, CancelUnsubscribes(u) PROVE TerminalFreesSlot'
  BY <1>41 DEF CancelUnsubscribes, Answer
<1>42. ASSUME NEW u \in Users, CancelReads(u) PROVE TerminalFreesSlot'
  BY <1>42 DEF CancelReads, Answer
<1>43. ASSUME NEW u \in Users, CancelWrites(u) PROVE TerminalFreesSlot'
  BY <1>43 DEF CancelWrites, Answer, BlindWrite, PublishCancelled,
     AnnounceIf
<1>44. CASE FindOrphaned
  BY <1>44 DEF FindOrphaned
<1>45. CASE Reap
  BY <1>45 DEF Reap, StatusCAS, AnnounceIf
<1>46. CASE PrerequisitesEnd
  BY <1>46 DEF PrerequisitesEnd
<1>47. CASE FailUndeferred
  BY <1>47 DEF FailUndeferred, StatusCAS, AnnounceIf
<1>48. CASE CacheAbortable
  BY <1>48 DEF CacheAbortable, Goto
<1>49. CASE UNCHANGED vars
  BY <1>49 DEF vars
<1>50. QED
  BY <1>1, <1>2, <1>3, <1>4, <1>5, <1>6, <1>7, <1>8, <1>9, <1>10, <1>11,
     <1>12, <1>13, <1>14, <1>15, <1>16, <1>17, <1>18, <1>19, <1>20, <1>21,
     <1>22, <1>23, <1>24, <1>25, <1>26, <1>27, <1>28, <1>29, <1>30, <1>31,
     <1>32, <1>33, <1>34, <1>35, <1>36, <1>37, <1>38, <1>39, <1>40, <1>41,
     <1>42, <1>43, <1>44, <1>45, <1>46, <1>47, <1>48, <1>49
  DEF Next, Publisher, Pickup, Execution, Ending, Failing, Aborting, LocalAbort, Cancelling

\* Every step that may write ABORTING comes from an actor that has seen a
\* handler, and handlers are never unregistered.
LEMMA HandlerStep == TypeOK /\ HandlerInv /\ [Next]_vars => HandlerInv'
<1> SUFFICES ASSUME TypeOK, HandlerInv, [Next]_vars PROVE HandlerInv'
  OBVIOUS
<1> USE DEF HandlerInv, EarlySpan, TypeOK, row, context, world, Threads,
        HeartbeatSpan, PickupSpan
<1>1. CASE Enqueue
  BY <1>1 DEF Enqueue, Goto
<1>2. CASE EnqueueFails
  BY <1>2 DEF EnqueueFails, Goto
<1>3. CASE FailUnenqueued
  BY <1>3 DEF FailUnenqueued, StatusCAS, AnnounceIf
<1>4. CASE Load
  BY <1>4 DEF Load, Goto
<1>5. CASE FinishAborted
  BY <1>5 DEF FinishAborted, StatusCAS, AnnounceIf, Goto
<1>6. CASE Gate
  BY <1>6 DEF Gate, Goto
<1>7. CASE Defer
  BY <1>7 DEF Defer, Goto
<1>8. CASE FailBeforeClaim
  BY <1>8 DEF FailBeforeClaim, StatusCAS, AnnounceIf, Goto
<1>9. CASE Stamp
  BY <1>9 DEF Stamp, Goto
<1>10. CASE Claim
  BY <1>10 DEF Claim, StatusCAS, Goto
<1>11. CASE BuildContext
  BY <1>11 DEF BuildContext, BlindWrite, Goto
<1>12. CASE RegisterHandler
  BY <1>12 DEF RegisterHandler, Goto
<1>13. CASE SetAbortable
  BY <1>13 DEF SetAbortable, Goto, Move
<1>14. CASE BodyEnds
  BY <1>14 DEF BodyEnds, Goto
<1>15. CASE Decide
  BY <1>15 DEF Decide, Goto, AbortingInFlight
<1>16. CASE Commit
  BY <1>16 DEF Commit, StatusCAS, Goto
<1>17. CASE StopThreads
  BY <1>17 DEF StopThreads, Goto
<1>18. CASE InspectStatus
  BY <1>18 DEF InspectStatus, Goto
<1>19. CASE HandleInCleanup
  BY <1>19 DEF HandleInCleanup, Goto, TriggerAbortHandlers
<1>20. CASE Tidy
  BY <1>20 DEF Tidy, Goto, StatusCAS
<1>21. CASE ChooseFinal
  BY <1>21 DEF ChooseFinal, Goto, AbortOutcome, AbortingInFlight
<1>22. CASE Finalize
  BY <1>22 DEF Finalize, Goto, StatusCAS
<1>23. CASE PublishFinal
  BY <1>23 DEF PublishFinal, Goto, AnnounceIf
<1>24. CASE CommandRaises
  BY <1>24 DEF CommandRaises, Goto
<1>25. CASE RegistrationRaises
  BY <1>25 DEF RegistrationRaises, Goto
<1>26. CASE Crash
  BY <1>26 DEF Crash, Goto
<1>27. CASE Beat
  BY <1>27 DEF Beat
<1>28. CASE HeartbeatAges
  BY <1>28 DEF HeartbeatAges
<1>29. CASE ListenerDetects
  BY <1>29 DEF ListenerDetects, Move
<1>30. CASE TimerFires
  BY <1>30 DEF TimerFires, Move, TimeoutIsMoot
<1>31. CASE FenceFires
  BY <1>31 DEF FenceFires, Move
<1>32. CASE MarkTimeout
  BY <1>32 DEF MarkTimeout, Move, CachedAbortable
<1>33. CASE MarkFence
  BY <1>33 DEF MarkFence, Move, CachedAbortable
<1>34. ASSUME NEW t \in {"timer", "fence"}, LocalRead(t) PROVE HandlerInv'
  BY <1>34 DEF LocalRead, Move
<1>35. ASSUME NEW t \in {"timer", "fence"}, LocalWrite(t) PROVE HandlerInv'
  BY <1>35 DEF LocalWrite, Move, BlindWrite
<1>36. ASSUME NEW t \in {"timer", "fence"}, LocalWriteFails(t) PROVE HandlerInv'
  BY <1>36 DEF LocalWriteFails, Move
<1>37. ASSUME NEW t \in Threads, Elect(t) PROVE HandlerInv'
  BY <1>37 DEF Elect, Move
<1>38. ASSUME NEW t \in Threads, DetectAbort(t) PROVE HandlerInv'
  BY <1>38 DEF DetectAbort, Move
<1>39. ASSUME NEW t \in Threads, Handle(t) PROVE HandlerInv'
  BY <1>39 DEF Handle, Move, TriggerAbortHandlers
<1>40. ASSUME NEW u \in Users, CancelRefused(u) PROVE HandlerInv'
  BY <1>40 DEF CancelRefused, Answer
<1>41. ASSUME NEW u \in Users, CancelUnsubscribes(u) PROVE HandlerInv'
  BY <1>41 DEF CancelUnsubscribes, Answer
<1>42. ASSUME NEW u \in Users, CancelReads(u) PROVE HandlerInv'
  BY <1>42 DEF CancelReads, Answer, Cancellable
<1>43. ASSUME NEW u \in Users, CancelWrites(u) PROVE HandlerInv'
  BY <1>43 DEF CancelWrites, Answer, BlindWrite, PublishCancelled,
     AnnounceIf
<1>44. CASE FindOrphaned
  BY <1>44 DEF FindOrphaned
<1>45. CASE Reap
  BY <1>45 DEF Reap, StatusCAS, AnnounceIf
<1>46. CASE PrerequisitesEnd
  BY <1>46 DEF PrerequisitesEnd
<1>47. CASE FailUndeferred
  BY <1>47 DEF FailUndeferred, StatusCAS, AnnounceIf
<1>48. CASE CacheAbortable
  BY <1>48 DEF CacheAbortable, Goto
<1>49. CASE UNCHANGED vars
  BY <1>49 DEF vars
<1>50. QED
  BY <1>1, <1>2, <1>3, <1>4, <1>5, <1>6, <1>7, <1>8, <1>9, <1>10, <1>11,
     <1>12, <1>13, <1>14, <1>15, <1>16, <1>17, <1>18, <1>19, <1>20, <1>21,
     <1>22, <1>23, <1>24, <1>25, <1>26, <1>27, <1>28, <1>29, <1>30, <1>31,
     <1>32, <1>33, <1>34, <1>35, <1>36, <1>37, <1>38, <1>39, <1>40, <1>41,
     <1>42, <1>43, <1>44, <1>45, <1>46, <1>47, <1>48, <1>49
  DEF Next, Publisher, Pickup, Execution, Ending, Failing, Aborting, LocalAbort, Cancelling

\* Every step that acts on an abort, or records an outcome, finds the cause
\* recorded before.
LEMMA CauseStep == TypeOK /\ HandlerInv /\ CauseInv /\ [Next]_vars => CauseInv'
<1> SUFFICES ASSUME TypeOK, HandlerInv, CauseInv, [Next]_vars PROVE CauseInv'
  OBVIOUS
<1> USE DEF CauseInv, Asked, Acting, row, context, world, Threads
<1>1. CASE Enqueue
  BY <1>1 DEF Enqueue, Goto, UserAborted
<1>2. CASE EnqueueFails
  BY <1>2 DEF EnqueueFails, Goto, UserAborted
<1>3. CASE FailUnenqueued
  BY <1>3 DEF FailUnenqueued, StatusCAS, AnnounceIf, UserAborted
<1>4. CASE Load
  BY <1>4 DEF Load, Goto, HandlerInv, EarlySpan, UserAborted
<1>5. CASE FinishAborted
  BY <1>5 DEF FinishAborted, StatusCAS, AnnounceIf, Goto, UserAborted
<1>6. CASE Gate
  BY <1>6 DEF Gate, Goto, TypeOK, UserAborted
<1>7. CASE Defer
  BY <1>7 DEF Defer, Goto, UserAborted
<1>8. CASE FailBeforeClaim
  BY <1>8 DEF FailBeforeClaim, StatusCAS, AnnounceIf, Goto, UserAborted
<1>9. CASE Stamp
  BY <1>9 DEF Stamp, Goto, UserAborted
<1>10. CASE Claim
  BY <1>10 DEF Claim, StatusCAS, Goto, UserAborted
<1>11. CASE BuildContext
  BY <1>11 DEF BuildContext, BlindWrite, Goto, TypeOK, UserAborted
<1>12. CASE RegisterHandler
  BY <1>12 DEF RegisterHandler, Goto, UserAborted
<1>13. CASE SetAbortable
  BY <1>13 DEF SetAbortable, Goto, Move, UserAborted
<1>14. CASE BodyEnds
  BY <1>14 DEF BodyEnds, Goto, UserAborted
<1>15. CASE Decide
  BY <1>15 DEF Decide, Goto, AbortingInFlight, UserAborted
<1>16. CASE Commit
  BY <1>16 DEF Commit, StatusCAS, Goto, UserAborted
<1>17. CASE StopThreads
  BY <1>17 DEF StopThreads, Goto, UserAborted
<1>18. CASE InspectStatus
  BY <1>18 DEF InspectStatus, Goto, AbortUndetected, UserAborted
<1>19. CASE HandleInCleanup
  BY <1>19 DEF HandleInCleanup, Goto, TriggerAbortHandlers, UserAborted
<1>20. CASE Tidy
  BY <1>20 DEF Tidy, Goto, StatusCAS, UserAborted
<1>21. CASE ChooseFinal
  BY <1>21 DEF ChooseFinal, Goto, AbortOutcome, AbortingInFlight,
     UserAborted
<1>22. CASE Finalize
  BY <1>22 DEF Finalize, Goto, StatusCAS, UserAborted
<1>23. CASE PublishFinal
  BY <1>23 DEF PublishFinal, Goto, AnnounceIf, UserAborted
<1>24. CASE CommandRaises
  BY <1>24 DEF CommandRaises, Goto, UserAborted
<1>25. CASE RegistrationRaises
  BY <1>25 DEF RegistrationRaises, Goto, UserAborted
<1>26. CASE Crash
  BY <1>26 DEF Crash, Goto, UserAborted
<1>27. CASE Beat
  BY <1>27 DEF Beat, UserAborted
<1>28. CASE HeartbeatAges
  BY <1>28 DEF HeartbeatAges, UserAborted
<1>29. CASE ListenerDetects
  BY <1>29 DEF ListenerDetects, Move, UserAborted
<1>30. CASE TimerFires
  BY <1>30 DEF TimerFires, Move, UserAborted
<1>31. CASE FenceFires
  BY <1>31 DEF FenceFires, Move, UserAborted
<1>32. CASE MarkTimeout
  BY <1>32 DEF MarkTimeout, Move, CachedAbortable, UserAborted
<1>33. CASE MarkFence
  BY <1>33 DEF MarkFence, Move, CachedAbortable, UserAborted
<1>34. ASSUME NEW t \in {"timer", "fence"}, LocalRead(t) PROVE CauseInv'
  BY <1>34 DEF LocalRead, Move, UserAborted
<1>35. ASSUME NEW t \in {"timer", "fence"}, LocalWrite(t) PROVE CauseInv'
  BY <1>35 DEF LocalWrite, Move, BlindWrite, UserAborted
<1>36. ASSUME NEW t \in {"timer", "fence"}, LocalWriteFails(t) PROVE CauseInv'
  BY <1>36 DEF LocalWriteFails, Move, UserAborted
<1>37. ASSUME NEW t \in Threads, Elect(t) PROVE CauseInv'
  BY <1>37 DEF Elect, Move, UserAborted
<1>38. ASSUME NEW t \in Threads, DetectAbort(t) PROVE CauseInv'
  BY <1>38 DEF DetectAbort, Move, UserAborted
<1>39. ASSUME NEW t \in Threads, Handle(t) PROVE CauseInv'
  BY <1>39 DEF Handle, Move, TriggerAbortHandlers, UserAborted
<1>40. ASSUME NEW u \in Users, CancelRefused(u) PROVE CauseInv'
  <2>1. UserAborted => UserAborted'
    BY <1>40 DEF CancelRefused, Cancellable, Answer, TypeOK, UserAborted
  <2>2. QED
    BY <1>40, <2>1 DEF CancelRefused, Answer
<1>41. ASSUME NEW u \in Users, CancelUnsubscribes(u) PROVE CauseInv'
  <2>1. UserAborted => UserAborted'
    BY <1>41 DEF CancelUnsubscribes, Cancellable, Answer, TypeOK, UserAborted
  <2>2. QED
    BY <1>41, <2>1 DEF CancelUnsubscribes, Answer
<1>42. ASSUME NEW u \in Users, CancelReads(u) PROVE CauseInv'
  <2>1. UserAborted => UserAborted'
    BY <1>42 DEF CancelReads, Cancellable, Answer, TypeOK, UserAborted
  <2>2. QED
    BY <1>42, <2>1 DEF CancelReads, Answer
<1>43. ASSUME NEW u \in Users, CancelWrites(u) PROVE CauseInv'
  <2>1. UserAborted'
    BY <1>43 DEF CancelWrites, Answer, TypeOK, UserAborted
  <2>2. status' \in {ABORTED, ABORTING}
    BY <1>43 DEF CancelWrites, BlindWrite
  <2>3. QED
    BY <1>43, <2>1, <2>2 DEF CancelWrites, Answer
<1>44. CASE FindOrphaned
  BY <1>44 DEF FindOrphaned, UserAborted
<1>45. CASE Reap
  BY <1>45 DEF Reap, StatusCAS, AnnounceIf, UserAborted
<1>46. CASE PrerequisitesEnd
  BY <1>46 DEF PrerequisitesEnd, UserAborted
<1>47. CASE FailUndeferred
  BY <1>47 DEF FailUndeferred, StatusCAS, AnnounceIf, UserAborted
<1>48. CASE CacheAbortable
  BY <1>48 DEF CacheAbortable, Goto, UserAborted
<1>49. CASE UNCHANGED vars
  BY <1>49 DEF vars, UserAborted
<1>50. QED
  BY <1>1, <1>2, <1>3, <1>4, <1>5, <1>6, <1>7, <1>8, <1>9, <1>10, <1>11,
     <1>12, <1>13, <1>14, <1>15, <1>16, <1>17, <1>18, <1>19, <1>20, <1>21,
     <1>22, <1>23, <1>24, <1>25, <1>26, <1>27, <1>28, <1>29, <1>30, <1>31,
     <1>32, <1>33, <1>34, <1>35, <1>36, <1>37, <1>38, <1>39, <1>40, <1>41,
     <1>42, <1>43, <1>44, <1>45, <1>46, <1>47, <1>48, <1>49
  DEF Next, Publisher, Pickup, Execution, Ending, Failing, Aborting, LocalAbort, Cancelling

\* A compare-and-swap never expects a terminal status, so a step that changes
\* one is one of the three blind writes.
LEMMA ReopenStep == TypeOK /\ [Next]_vars => (status \in TERMINAL_STATES /\ status' # status => BlindStep)
<1> SUFFICES ASSUME TypeOK, [Next]_vars PROVE (status \in TERMINAL_STATES /\ status' # status => BlindStep)
  OBVIOUS
<1> USE DEF TypeOK, row
<1>1. CASE Enqueue
  BY <1>1 DEF Enqueue, Goto
<1>2. CASE EnqueueFails
  BY <1>2 DEF EnqueueFails, Goto
<1>3. CASE FailUnenqueued
  BY <1>3 DEF FailUnenqueued, StatusCAS, AnnounceIf
<1>4. CASE Load
  BY <1>4 DEF Load, Goto
<1>5. CASE FinishAborted
  BY <1>5 DEF FinishAborted, StatusCAS, AnnounceIf, Goto
<1>6. CASE Gate
  BY <1>6 DEF Gate, Goto
<1>7. CASE Defer
  BY <1>7 DEF Defer, Goto
<1>8. CASE FailBeforeClaim
  BY <1>8 DEF FailBeforeClaim, StatusCAS, AnnounceIf, Goto
<1>9. CASE Stamp
  BY <1>9 DEF Stamp, Goto
<1>10. CASE Claim
  BY <1>10 DEF Claim, StatusCAS, Goto
<1>11. CASE BuildContext
  BY <1>11 DEF BuildContext, BlindWrite, Goto, BlindStep
<1>12. CASE RegisterHandler
  BY <1>12 DEF RegisterHandler, Goto
<1>13. CASE SetAbortable
  BY <1>13 DEF SetAbortable, Goto, Move
<1>14. CASE BodyEnds
  BY <1>14 DEF BodyEnds, Goto
<1>15. CASE Decide
  BY <1>15 DEF Decide, Goto, AbortingInFlight
<1>16. CASE Commit
  BY <1>16 DEF Commit, StatusCAS, Goto
<1>17. CASE StopThreads
  BY <1>17 DEF StopThreads, Goto
<1>18. CASE InspectStatus
  BY <1>18 DEF InspectStatus, Goto
<1>19. CASE HandleInCleanup
  BY <1>19 DEF HandleInCleanup, Goto, TriggerAbortHandlers
<1>20. CASE Tidy
  BY <1>20 DEF Tidy, Goto, StatusCAS
<1>21. CASE ChooseFinal
  BY <1>21 DEF ChooseFinal, Goto, AbortOutcome, AbortingInFlight
<1>22. CASE Finalize
  BY <1>22 DEF Finalize, Goto, StatusCAS
<1>23. CASE PublishFinal
  BY <1>23 DEF PublishFinal, Goto, AnnounceIf
<1>24. CASE CommandRaises
  BY <1>24 DEF CommandRaises, Goto
<1>25. CASE RegistrationRaises
  BY <1>25 DEF RegistrationRaises, Goto
<1>26. CASE Crash
  BY <1>26 DEF Crash, Goto
<1>27. CASE Beat
  BY <1>27 DEF Beat
<1>28. CASE HeartbeatAges
  BY <1>28 DEF HeartbeatAges
<1>29. CASE ListenerDetects
  BY <1>29 DEF ListenerDetects, Move
<1>30. CASE TimerFires
  BY <1>30 DEF TimerFires, Move
<1>31. CASE FenceFires
  BY <1>31 DEF FenceFires, Move
<1>32. CASE MarkTimeout
  BY <1>32 DEF MarkTimeout, Move, CachedAbortable
<1>33. CASE MarkFence
  BY <1>33 DEF MarkFence, Move, CachedAbortable
<1>34. ASSUME NEW t \in {"timer", "fence"}, LocalRead(t) PROVE (status \in TERMINAL_STATES /\ status' # status => BlindStep)
  BY <1>34 DEF LocalRead, Move
<1>35. ASSUME NEW t \in {"timer", "fence"}, LocalWrite(t) PROVE (status \in TERMINAL_STATES /\ status' # status => BlindStep)
  BY <1>35 DEF LocalWrite, Move, BlindWrite, BlindStep, Threads
<1>36. ASSUME NEW t \in {"timer", "fence"}, LocalWriteFails(t) PROVE (status \in TERMINAL_STATES /\ status' # status => BlindStep)
  BY <1>36 DEF LocalWriteFails, Move
<1>37. ASSUME NEW t \in Threads, Elect(t) PROVE (status \in TERMINAL_STATES /\ status' # status => BlindStep)
  BY <1>37 DEF Elect, Move
<1>38. ASSUME NEW t \in Threads, DetectAbort(t) PROVE (status \in TERMINAL_STATES /\ status' # status => BlindStep)
  BY <1>38 DEF DetectAbort, Move
<1>39. ASSUME NEW t \in Threads, Handle(t) PROVE (status \in TERMINAL_STATES /\ status' # status => BlindStep)
  BY <1>39 DEF Handle, Move, TriggerAbortHandlers
<1>40. ASSUME NEW u \in Users, CancelRefused(u) PROVE (status \in TERMINAL_STATES /\ status' # status => BlindStep)
  BY <1>40 DEF CancelRefused, Answer
<1>41. ASSUME NEW u \in Users, CancelUnsubscribes(u) PROVE (status \in TERMINAL_STATES /\ status' # status => BlindStep)
  BY <1>41 DEF CancelUnsubscribes, Answer
<1>42. ASSUME NEW u \in Users, CancelReads(u) PROVE (status \in TERMINAL_STATES /\ status' # status => BlindStep)
  BY <1>42 DEF CancelReads, Answer
<1>43. ASSUME NEW u \in Users, CancelWrites(u) PROVE (status \in TERMINAL_STATES /\ status' # status => BlindStep)
  BY <1>43 DEF CancelWrites, Answer, BlindWrite, PublishCancelled,
     AnnounceIf, BlindStep
<1>44. CASE FindOrphaned
  BY <1>44 DEF FindOrphaned
<1>45. CASE Reap
  BY <1>45 DEF Reap, StatusCAS, AnnounceIf
<1>46. CASE PrerequisitesEnd
  BY <1>46 DEF PrerequisitesEnd
<1>47. CASE FailUndeferred
  BY <1>47 DEF FailUndeferred, StatusCAS, AnnounceIf
<1>48. CASE CacheAbortable
  BY <1>48 DEF CacheAbortable, Goto
<1>49. CASE UNCHANGED vars
  BY <1>49 DEF vars
<1>50. QED
  BY <1>1, <1>2, <1>3, <1>4, <1>5, <1>6, <1>7, <1>8, <1>9, <1>10, <1>11,
     <1>12, <1>13, <1>14, <1>15, <1>16, <1>17, <1>18, <1>19, <1>20, <1>21,
     <1>22, <1>23, <1>24, <1>25, <1>26, <1>27, <1>28, <1>29, <1>30, <1>31,
     <1>32, <1>33, <1>34, <1>35, <1>36, <1>37, <1>38, <1>39, <1>40, <1>41,
     <1>42, <1>43, <1>44, <1>45, <1>46, <1>47, <1>48, <1>49
  DEF Next, Publisher, Pickup, Execution, Ending, Failing, Aborting, LocalAbort, Cancelling

----------------------------------------------------------------------------
(* Publishing.                                                             *)

\* Where the main thread is on its way to publish how the task has ended, and
\* where it has died before it could.
WillPublish == (HeartbeatSpan \ {"claim"}) \cup {"crashed"}

PublishInv == status \in TERMINAL_STATES \ announced => pc \in WillPublish

\* Whoever ends a task publishes it in the same step, except for the worker,
\* which does so on its way out.
LEMMA PublishStep ==
  ASSUME ~Outages PROVE IInv /\ PublishInv /\ [Next]_vars => PublishInv'
<1> SUFFICES ASSUME IInv, PublishInv, [Next]_vars PROVE PublishInv'
  OBVIOUS
<1> USE DEF PublishInv, row, context, world
<1>1. ASSUME status' = status, announced' = announced, pc' = pc PROVE PublishInv'
  BY <1>1
<1>2. ASSUME status' \in TERMINAL_STATES => status' \in announced' PROVE PublishInv'
  BY <1>2
<1>3. ASSUME pc' \in WillPublish PROVE PublishInv'
  BY <1>3
<1> USE DEF HeartbeatSpan, WillPublish
<1>4. CASE Publisher
  <2>1. submit = "enqueue" => pc = "unsent"
    BY DEF IInv, HandlerInv
  <2>2. CASE Enqueue \/ EnqueueFails
    <3>1. status' = status /\ announced' = announced /\ pc \notin WillPublish
      BY <2>1, <2>2 DEF Enqueue, EnqueueFails
    <3>2. QED
      BY <1>2, <3>1
  <2>3. CASE FailUnenqueued
    BY <2>3 DEF FailUnenqueued, StatusCAS, AnnounceIf
  <2>4. CASE FailUndeferred
    BY <2>4 DEF FailUndeferred, StatusCAS, AnnounceIf
  <2>5. QED
    BY <1>4, <2>2, <2>3, <2>4 DEF Publisher
<1>5. CASE Pickup
  BY <1>5 DEF Pickup, Load, FinishAborted, Gate, Defer, FailBeforeClaim, Stamp,
     StatusCAS, AnnounceIf, Goto, PickupSpan
<1>6. CASE Execution
  BY <1>6 DEF Execution, Claim, BuildContext, RegisterHandler, CacheAbortable,
     SetAbortable, BodyEnds, Decide, Commit, StatusCAS, BlindWrite, Goto
<1>7. CASE Ending
  <2>1. CASE PublishFinal
    BY <2>1 DEF PublishFinal, AnnounceIf
  <2>2. CASE ~PublishFinal
    <3>1. pc' \in WillPublish
      BY <1>7, <2>2 DEF Ending, StopThreads, InspectStatus, HandleInCleanup, Tidy,
         ChooseFinal, AbortOutcome, Finalize, Goto
    <3>2. QED
      BY <1>3, <3>1
  <2>3. QED
    BY <2>1, <2>2
<1>8. CASE Failing
  BY <1>8 DEF Failing, CommandRaises, RegistrationRaises, Crash, Goto
<1>9. CASE Beat \/ HeartbeatAges \/ FindOrphaned \/ PrerequisitesEnd
  BY <1>1, <1>9 DEF Beat, HeartbeatAges, FindOrphaned, PrerequisitesEnd
<1>10. CASE Aborting
  BY <1>10 DEF Aborting, ListenerDetects, TimerFires, FenceFires, MarkTimeout,
     MarkFence, LocalAbort, LocalRead, LocalWrite, LocalWriteFails, Elect,
     DetectAbort, Handle, BlindWrite
<1>11. CASE Cancelling
  BY <1>11 DEF Cancelling, CancelRefused, CancelUnsubscribes, CancelReads,
     CancelWrites, BlindWrite, PublishCancelled, AnnounceIf
<1>12. CASE Reap
  BY <1>12 DEF Reap, StatusCAS, AnnounceIf
<1>13. CASE UNCHANGED vars
  BY <1>1, <1>13 DEF vars
<1>14. QED
  BY <1>4, <1>5, <1>6, <1>7, <1>8, <1>9, <1>10, <1>11, <1>12, <1>13 DEF Next

----------------------------------------------------------------------------
(* Theorems.                                                               *)

LEMMA Inductive == Spec => []IInv
<1>1. IInv /\ [Next]_vars => IInv'
  BY TypeStep, SlotStep, HandlerStep, CauseStep DEF IInv
<1>2. QED
  BY InitIInv, <1>1, PTL DEF Spec

\* The variables of the row, the worker, the users and the reaper keep their
\* types.
THEOREM TypeCorrect == Spec => []TypeOK
<1>1. IInv => TypeOK
  BY DEF IInv
<1>2. QED
  BY Inductive, <1>1, PTL

\* set_status and conditional_status_update both free the slot: no ended task
\* ever blocks the submission of the next one with its key.
THEOREM EndedTaskFreesSlot == Spec => []TerminalFreesSlot
<1>1. IInv => TerminalFreesSlot
  BY DEF IInv
<1>2. QED
  BY Inductive, <1>1, PTL

\* Whatever cancels, times out or fences it, a task that cannot be stopped is
\* never made to wait for an abort in ABORTING.
THEOREM AbortingIsHandled == Spec => []AbortingHasHandler
<1>1. IInv => AbortingHasHandler
  BY DEF IInv, HandlerInv, AbortingHasHandler
<1>2. QED
  BY Inductive, <1>1, PTL

\* The status a task ends in tells the truth about why it ended.
THEOREM OutcomeIsCaused == Spec => []OutcomeHasCause
<1>1. IInv => OutcomeHasCause
  BY DEF IInv, CauseInv, OutcomeHasCause
<1>2. QED
  BY Inductive, <1>1, PTL

\* No abort handler runs for a task nobody asked to stop.
THEOREM HandlersAreCaused == Spec => []HandlersHaveCause
<1>1. IInv => HandlersHaveCause
  BY DEF IInv, TypeOK, CauseInv, Asked, HandlersHaveCause
<1>2. QED
  BY Inductive, <1>1, PTL

\* Only the three writes without a comparison can change a terminal status.
THEOREM ReopenedByBlindWrites == Spec => OnlyBlindWritesReopen
<1>1. TypeOK /\ [Next]_vars
        => [(status \in TERMINAL_STATES /\ status' # status) => BlindStep]_vars
  BY ReopenStep
<1>2. QED
  BY TypeCorrect, <1>1, PTL DEF Spec, OnlyBlindWritesReopen

\* No client is left waiting for the end of a task: whoever cancels, reaps or
\* fails it, and however their steps interleave, once all are at rest its end
\* has been published.  An outage of the metastore may keep the worker from it.
THEOREM EndIsAnnounced ==
  ASSUME ~Outages PROVE Spec => []QuiescentIsAnnounced
<1>1. Init => PublishInv
  BY DEF Init, PublishInv
<1>2. PublishInv => QuiescentIsAnnounced
  BY DEF PublishInv, WillPublish, HeartbeatSpan, Quiescent, QuiescentIsAnnounced
<1>3. QED
  BY <1>1, <1>2, Inductive, PublishStep, PTL DEF Spec

============================================================================
