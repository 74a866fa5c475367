-------------------------- MODULE TaskLock_proofs --------------------------
(***************************************************************************)
(* The safety theorems of TaskLock, for any set of processes, with or      *)
(* without a backend, overruns, crashes and faults.                        *)
(***************************************************************************)
EXTENDS TaskLock, TLAPS

\* The lock and its holder agree, except for holders it expired under; a
\* position in the stream never runs ahead of it.
LockInv ==
    /\ lock \in Procs => pc[lock] = "holding" /\ lock \notin overrun
    /\ \A p \in Procs : pc[p] = "holding" /\ p \notin overrun => lock = p
    /\ \A p \in overrun : pc[p] = "holding"
    /\ \A p \in Procs : lastId[p] <= stream

IInv == TypeOK /\ LockInv /\ NoLostWakeup

\* Nobody holds or awaits the lock at first.
LEMMA InitIInv == Init => IInv
<1> SUFFICES ASSUME Init PROVE IInv
  OBVIOUS
<1> USE LockAssumption DEF LockAssumption, Init
<1>1. TypeOK
  <2>1. lastId \in [Procs -> Nat] /\ requests \in [Procs -> 0..MaxRequests]
    OBVIOUS
  <2>2. pc \in [Procs -> {"idle"}]
    OBVIOUS
  <2>3. QED
    BY <2>1, <2>2 DEF TypeOK
<1>2. LockInv
  BY DEF LockInv
<1>3. NoLostWakeup
  BY DEF NoLostWakeup
<1>4. QED
  BY <1>1, <1>2, <1>3 DEF IInv

\* Every step keeps the types.
LEMMA TypeStep == TypeOK /\ [Next]_vars => TypeOK'
<1> SUFFICES ASSUME TypeOK, [Next]_vars PROVE TypeOK'
  OBVIOUS
<1> USE LockAssumption DEF LockAssumption, TypeOK, Waiting, Checking
<1>1. ASSUME NEW p \in Procs, Request(p) PROVE TypeOK'
  BY <1>1 DEF Request, Goto
<1>2. ASSUME NEW p \in Procs, Acquire(p) PROVE TypeOK'
  BY <1>2 DEF Acquire, Goto
<1>3. ASSUME NEW p \in Procs, AlreadyHeld(p) PROVE TypeOK'
  BY <1>3 DEF AlreadyHeld, Goto
<1>4. ASSUME NEW p \in Procs, AcquireErrors(p) PROVE TypeOK'
  BY <1>4 DEF AcquireErrors, Goto
<1>5. ASSUME NEW p \in Procs, Baseline(p) PROVE TypeOK'
  BY <1>5 DEF Baseline, Goto
<1>6. ASSUME NEW p \in Procs, ReadSignal(p) PROVE TypeOK'
  BY <1>6 DEF ReadSignal, Goto
<1>7. ASSUME NEW p \in Procs, Recheck(p) PROVE TypeOK'
  BY <1>7 DEF Recheck, Goto
<1>8. ASSUME NEW p \in Procs, TimeOut(p) PROVE TypeOK'
  BY <1>8 DEF TimeOut, Goto
<1>9. ASSUME NEW p \in Procs, Release(p) PROVE TypeOK'
  BY <1>9 DEF Release, Goto, DeletedBy
<1>10. ASSUME NEW p \in Procs, ReleaseErrors(p) PROVE TypeOK'
  BY <1>10 DEF ReleaseErrors, Goto
<1>11. ASSUME NEW p \in Procs, Notify(p) PROVE TypeOK'
  BY <1>11 DEF Notify, Goto
<1>12. ASSUME NEW p \in Procs, NotifyErrors(p) PROVE TypeOK'
  BY <1>12 DEF NotifyErrors, Goto
<1>13. ASSUME NEW p \in Procs, Crash(p) PROVE TypeOK'
  BY <1>13 DEF Crash, Goto
<1>14. CASE Expire
  BY <1>14 DEF Expire
<1>15. CASE UNCHANGED vars
  BY <1>15 DEF vars
<1>16. QED
  BY <1>1, <1>2, <1>3, <1>4, <1>5, <1>6, <1>7, <1>8, <1>9, <1>10, <1>11,
     <1>12, <1>13, <1>14, <1>15 DEF Next, Step, Wait

\* Every step keeps lock and holders in agreement.
LEMMA LockStep == TypeOK /\ LockInv /\ [Next]_vars => LockInv'
<1> SUFFICES ASSUME TypeOK, LockInv, [Next]_vars PROVE LockInv'
  OBVIOUS
<1> USE LockAssumption DEF LockAssumption, TypeOK, LockInv, Waiting, Checking
<1>1. ASSUME NEW p \in Procs, Request(p) PROVE LockInv'
  BY <1>1 DEF Request, Goto
<1>2. ASSUME NEW p \in Procs, Acquire(p) PROVE LockInv'
  BY <1>2 DEF Acquire, Goto
<1>3. ASSUME NEW p \in Procs, AlreadyHeld(p) PROVE LockInv'
  BY <1>3 DEF AlreadyHeld, Goto
<1>4. ASSUME NEW p \in Procs, AcquireErrors(p) PROVE LockInv'
  BY <1>4 DEF AcquireErrors, Goto
<1>5. ASSUME NEW p \in Procs, Baseline(p) PROVE LockInv'
  BY <1>5 DEF Baseline, Goto
<1>6. ASSUME NEW p \in Procs, ReadSignal(p) PROVE LockInv'
  BY <1>6 DEF ReadSignal, Goto
<1>7. ASSUME NEW p \in Procs, Recheck(p) PROVE LockInv'
  BY <1>7 DEF Recheck, Goto
<1>8. ASSUME NEW p \in Procs, TimeOut(p) PROVE LockInv'
  BY <1>8 DEF TimeOut, Goto
<1>9. ASSUME NEW p \in Procs, Release(p) PROVE LockInv'
  BY <1>9 DEF Release, Goto, DeletedBy
<1>10. ASSUME NEW p \in Procs, ReleaseErrors(p) PROVE LockInv'
  BY <1>10 DEF ReleaseErrors, Goto
<1>11. ASSUME NEW p \in Procs, Notify(p) PROVE LockInv'
  BY <1>11 DEF Notify, Goto
<1>12. ASSUME NEW p \in Procs, NotifyErrors(p) PROVE LockInv'
  BY <1>12 DEF NotifyErrors, Goto
<1>13. ASSUME NEW p \in Procs, Crash(p) PROVE LockInv'
  BY <1>13 DEF Crash, Goto
<1>14. CASE Expire
  BY <1>14 DEF Expire
<1>15. CASE UNCHANGED vars
  BY <1>15 DEF vars
<1>16. QED
  BY <1>1, <1>2, <1>3, <1>4, <1>5, <1>6, <1>7, <1>8, <1>9, <1>10, <1>11,
     <1>12, <1>13, <1>14, <1>15 DEF Next, Step, Wait

\* A step that frees the lock leaves a signal to be sent, or is silent; a
\* step that parks a waiter has seen the lock held.
LEMMA WakeupStep == TypeOK /\ LockInv /\ NoLostWakeup /\ [Next]_vars => NoLostWakeup'
<1> SUFFICES ASSUME TypeOK, LockInv, NoLostWakeup, [Next]_vars PROVE NoLostWakeup'
  OBVIOUS
<1> USE LockAssumption DEF LockAssumption, TypeOK, LockInv, NoLostWakeup, Checking
<1>1. ASSUME NEW p \in Procs, Request(p) PROVE NoLostWakeup'
  BY <1>1 DEF Request, Goto
<1>2. ASSUME NEW p \in Procs, Acquire(p) PROVE NoLostWakeup'
  BY <1>2 DEF Acquire, Goto
<1>3. ASSUME NEW p \in Procs, AlreadyHeld(p) PROVE NoLostWakeup'
  BY <1>3 DEF AlreadyHeld, Goto
<1>4. ASSUME NEW p \in Procs, AcquireErrors(p) PROVE NoLostWakeup'
  BY <1>4 DEF AcquireErrors, Goto
<1>5. ASSUME NEW p \in Procs, Baseline(p) PROVE NoLostWakeup'
  BY <1>5 DEF Baseline, Goto
<1>6. ASSUME NEW p \in Procs, ReadSignal(p) PROVE NoLostWakeup'
  BY <1>6 DEF ReadSignal, Goto
<1>7. ASSUME NEW p \in Procs, Recheck(p) PROVE NoLostWakeup'
  BY <1>7 DEF Recheck, Goto
<1>8. ASSUME NEW p \in Procs, TimeOut(p) PROVE NoLostWakeup'
  BY <1>8 DEF TimeOut, Goto
<1>9. ASSUME NEW p \in Procs, Release(p) PROVE NoLostWakeup'
  BY <1>9 DEF Release, Goto, DeletedBy
<1>10. ASSUME NEW p \in Procs, ReleaseErrors(p) PROVE NoLostWakeup'
  BY <1>10 DEF ReleaseErrors, Goto
<1>11. ASSUME NEW p \in Procs, Notify(p) PROVE NoLostWakeup'
  BY <1>11 DEF Notify, Goto
<1>12. ASSUME NEW p \in Procs, NotifyErrors(p) PROVE NoLostWakeup'
  BY <1>12 DEF NotifyErrors, Goto
<1>13. ASSUME NEW p \in Procs, Crash(p) PROVE NoLostWakeup'
  BY <1>13 DEF Crash, Goto
<1>14. CASE Expire
  BY <1>14 DEF Expire
<1>15. CASE UNCHANGED vars
  BY <1>15 DEF vars
<1>16. QED
  BY <1>1, <1>2, <1>3, <1>4, <1>5, <1>6, <1>7, <1>8, <1>9, <1>10, <1>11,
     <1>12, <1>13, <1>14, <1>15 DEF Next, Step, Wait

\* A step that takes the lock from its holder is the holder's, or an expiry.
LEMMA OwnStep == TypeOK /\ [Next]_vars => (\A h \in Procs : lock = h /\ pc[h] = "holding" /\ lock' # h
                                      => pc'[h] # "holding" \/ h \in overrun')
<1> SUFFICES ASSUME TypeOK, [Next]_vars PROVE (\A h \in Procs : lock = h /\ pc[h] = "holding" /\ lock' # h
                                      => pc'[h] # "holding" \/ h \in overrun')
  OBVIOUS
<1> USE LockAssumption DEF LockAssumption, TypeOK, Checking
<1>1. ASSUME NEW p \in Procs, Request(p) PROVE (\A h \in Procs : lock = h /\ pc[h] = "holding" /\ lock' # h
                                      => pc'[h] # "holding" \/ h \in overrun')
  BY <1>1 DEF Request, Goto
<1>2. ASSUME NEW p \in Procs, Acquire(p) PROVE (\A h \in Procs : lock = h /\ pc[h] = "holding" /\ lock' # h
                                      => pc'[h] # "holding" \/ h \in overrun')
  BY <1>2 DEF Acquire, Goto
<1>3. ASSUME NEW p \in Procs, AlreadyHeld(p) PROVE (\A h \in Procs : lock = h /\ pc[h] = "holding" /\ lock' # h
                                      => pc'[h] # "holding" \/ h \in overrun')
  BY <1>3 DEF AlreadyHeld, Goto
<1>4. ASSUME NEW p \in Procs, AcquireErrors(p) PROVE (\A h \in Procs : lock = h /\ pc[h] = "holding" /\ lock' # h
                                      => pc'[h] # "holding" \/ h \in overrun')
  BY <1>4 DEF AcquireErrors, Goto
<1>5. ASSUME NEW p \in Procs, Baseline(p) PROVE (\A h \in Procs : lock = h /\ pc[h] = "holding" /\ lock' # h
                                      => pc'[h] # "holding" \/ h \in overrun')
  BY <1>5 DEF Baseline, Goto
<1>6. ASSUME NEW p \in Procs, ReadSignal(p) PROVE (\A h \in Procs : lock = h /\ pc[h] = "holding" /\ lock' # h
                                      => pc'[h] # "holding" \/ h \in overrun')
  BY <1>6 DEF ReadSignal, Goto
<1>7. ASSUME NEW p \in Procs, Recheck(p) PROVE (\A h \in Procs : lock = h /\ pc[h] = "holding" /\ lock' # h
                                      => pc'[h] # "holding" \/ h \in overrun')
  BY <1>7 DEF Recheck, Goto
<1>8. ASSUME NEW p \in Procs, TimeOut(p) PROVE (\A h \in Procs : lock = h /\ pc[h] = "holding" /\ lock' # h
                                      => pc'[h] # "holding" \/ h \in overrun')
  BY <1>8 DEF TimeOut, Goto
<1>9. ASSUME NEW p \in Procs, Release(p) PROVE (\A h \in Procs : lock = h /\ pc[h] = "holding" /\ lock' # h
                                      => pc'[h] # "holding" \/ h \in overrun')
  BY <1>9 DEF Release, Goto, DeletedBy
<1>10. ASSUME NEW p \in Procs, ReleaseErrors(p) PROVE (\A h \in Procs : lock = h /\ pc[h] = "holding" /\ lock' # h
                                      => pc'[h] # "holding" \/ h \in overrun')
  BY <1>10 DEF ReleaseErrors, Goto
<1>11. ASSUME NEW p \in Procs, Notify(p) PROVE (\A h \in Procs : lock = h /\ pc[h] = "holding" /\ lock' # h
                                      => pc'[h] # "holding" \/ h \in overrun')
  BY <1>11 DEF Notify, Goto
<1>12. ASSUME NEW p \in Procs, NotifyErrors(p) PROVE (\A h \in Procs : lock = h /\ pc[h] = "holding" /\ lock' # h
                                      => pc'[h] # "holding" \/ h \in overrun')
  BY <1>12 DEF NotifyErrors, Goto
<1>13. ASSUME NEW p \in Procs, Crash(p) PROVE (\A h \in Procs : lock = h /\ pc[h] = "holding" /\ lock' # h
                                      => pc'[h] # "holding" \/ h \in overrun')
  BY <1>13 DEF Crash, Goto
<1>14. CASE Expire
  BY <1>14 DEF Expire
<1>15. CASE UNCHANGED vars
  BY <1>15 DEF vars
<1>16. QED
  BY <1>1, <1>2, <1>3, <1>4, <1>5, <1>6, <1>7, <1>8, <1>9, <1>10, <1>11,
     <1>12, <1>13, <1>14, <1>15 DEF Next, Step, Wait

\* Acquire enters, a release, a crash or an expiry leaves, the rest stutters.
LEMMA ContractStep == TypeOK /\ LockInv /\ [Next]_vars => [Contract!Next]_Inside
<1> SUFFICES ASSUME TypeOK, LockInv, [Next]_vars PROVE [Contract!Next]_Inside
  OBVIOUS
<1> USE LockAssumption DEF LockAssumption, TypeOK, LockInv, Inside, Checking, Contract!Next, Contract!Enter, Contract!Leave
<1>1. ASSUME NEW p \in Procs, Request(p) PROVE [Contract!Next]_Inside
  BY <1>1 DEF Request, Goto
<1>2. ASSUME NEW p \in Procs, Acquire(p) PROVE [Contract!Next]_Inside
  BY <1>2 DEF Acquire, Goto
<1>3. ASSUME NEW p \in Procs, AlreadyHeld(p) PROVE [Contract!Next]_Inside
  BY <1>3 DEF AlreadyHeld, Goto
<1>4. ASSUME NEW p \in Procs, AcquireErrors(p) PROVE [Contract!Next]_Inside
  BY <1>4 DEF AcquireErrors, Goto
<1>5. ASSUME NEW p \in Procs, Baseline(p) PROVE [Contract!Next]_Inside
  BY <1>5 DEF Baseline, Goto
<1>6. ASSUME NEW p \in Procs, ReadSignal(p) PROVE [Contract!Next]_Inside
  BY <1>6 DEF ReadSignal, Goto
<1>7. ASSUME NEW p \in Procs, Recheck(p) PROVE [Contract!Next]_Inside
  BY <1>7 DEF Recheck, Goto
<1>8. ASSUME NEW p \in Procs, TimeOut(p) PROVE [Contract!Next]_Inside
  BY <1>8 DEF TimeOut, Goto
<1>9. ASSUME NEW p \in Procs, Release(p) PROVE [Contract!Next]_Inside
  BY <1>9 DEF Release, Goto, DeletedBy
<1>10. ASSUME NEW p \in Procs, ReleaseErrors(p) PROVE [Contract!Next]_Inside
  BY <1>10 DEF ReleaseErrors, Goto
<1>11. ASSUME NEW p \in Procs, Notify(p) PROVE [Contract!Next]_Inside
  BY <1>11 DEF Notify, Goto
<1>12. ASSUME NEW p \in Procs, NotifyErrors(p) PROVE [Contract!Next]_Inside
  BY <1>12 DEF NotifyErrors, Goto
<1>13. ASSUME NEW p \in Procs, Crash(p) PROVE [Contract!Next]_Inside
  BY <1>13 DEF Crash, Goto
<1>14. CASE Expire
  BY <1>14 DEF Expire
<1>15. CASE UNCHANGED vars
  BY <1>15 DEF vars
<1>16. QED
  BY <1>1, <1>2, <1>3, <1>4, <1>5, <1>6, <1>7, <1>8, <1>9, <1>10, <1>11,
     <1>12, <1>13, <1>14, <1>15 DEF Next, Step, Wait

----------------------------------------------------------------------------
LEMMA Inductive == Spec => []IInv
<1>1. IInv /\ [Next]_vars => IInv'
  BY TypeStep, LockStep, WakeupStep DEF IInv
<1>2. QED
  BY InitIInv, <1>1, PTL DEF Spec

\* The lock, the stream and the processes keep their types.
THEOREM TypeCorrect == Spec => []TypeOK
<1>1. IInv => TypeOK
  BY DEF IInv
<1>2. QED
  BY Inductive, <1>1, PTL

\* wait_for_signal loses no release: reading the position before the second
\* check closes the window between a failed check and the blocking read.
THEOREM WakeupsAreKept == Spec => []NoLostWakeup
<1>1. IInv => NoLostWakeup
  BY DEF IInv
<1>2. QED
  BY Inductive, <1>1, PTL

\* Compare-and-delete: a late release never removes the lock of a successor.
THEOREM ReleaseIsOwned == Spec => NobodyReleasesForAnother
<1>1. TypeOK /\ [Next]_vars
        => [\A p \in Procs : lock = p /\ pc[p] = "holding" /\ lock' # p
                => pc'[p] # "holding" \/ p \in overrun']_vars
  BY OwnStep
<1>2. QED
  BY TypeCorrect, <1>1, PTL DEF Spec, NobodyReleasesForAnother

\* Refinement: the holders that have not overrun their time to live exclude
\* each other.
THEOREM LockImplementsContract == Spec => ImplementsLockContract
<1>1. Init => Contract!Init
  BY DEF Init, Inside, Contract!Init
<1>2. IInv /\ [Next]_vars => [Contract!Next]_Inside
  BY ContractStep DEF IInv
<1>3. QED
  BY Inductive, <1>1, <1>2, PTL DEF Spec, ImplementsLockContract, Contract!Spec

=============================================================================
