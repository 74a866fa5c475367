----------------------- MODULE TaskSubmission_proofs -----------------------
(***************************************************************************)
(* The safety theorems of TaskSubmission, for any tabs of any principals,  *)
(* any number of tasks, a broker that may fail and a lock that may expire. *)
(***************************************************************************)
EXTENDS TaskSubmission, FiniteSetTheorems, TLAPS

\* From before it reads until after it has committed, a client is in here.
Critical == {"find", "join", "insert", "reread", "new", "old", "raise",
             "validate", "decide", "left", "kept"}

\* Here it has a task.
Involved == {"join", "new", "old", "enqueue", "recover", "watching", "validate",
             "decide", "left", "kept", "gone", "stays"}

TargetInv ==
    \A c \in Clients :
        /\ target[c] <= created
        /\ pc[c] \in Involved => target[c] \in Tasks

\* The unique index: one row holds the key, and no row that does not exist.
IndexInv ==
    /\ \A t \in Tasks : slot[t] = "active" => t <= created
    /\ \A t, u \in Tasks : slot[t] = "active" /\ slot[u] = "active" => t = u

\* The lock excludes until it expires.
LockInv ==
    ~lost => \A c \in Clients : pc[c] \in Critical => holder = c

\* What a client has read under the lock is still so.
ReadInv ==
    ~lost => \A c \in Clients :
        /\ pc[c] = "join" => seen[c].consumers = properties[target[c]].consumers
        /\ pc[c] = "insert" => ActiveTasks = {}


\* Here it waits for the result of its task (see Watchers).
Watching == {"new", "old", "enqueue", "watching", "validate", "decide", "kept", "stays"}

\* WatchersOnRecord, client by client.
RecordInv ==
    ~lost => \A c \in Clients : pc[c] \in Watching =>
        /\ c \in properties[target[c]].consumers
        /\ Owner[c] \in subscribers[target[c]]

IInv == /\ TypeOK /\ TargetInv /\ IndexInv /\ LockInv /\ ReadInv
        /\ RecordInv /\ BackstopUnused

----------------------------------------------------------------------------
\* A write of a status keeps the types, and activates nothing.
LEMMA SetStatusFacts ==
  ASSUME TypeOK, NEW t \in Tasks, NEW new \in Statuses, SetStatus(t, new)
  PROVE  /\ status' \in [Tasks -> Statuses] /\ slot' \in [Tasks -> Slots]
         /\ \A u \in Tasks : slot'[u] = "active" => slot[u] = "active"
         /\ status'[t] = new
         /\ \A u \in Tasks \ {t} : status'[u] = status[u]
<1>1. \A old \in Slots : SlotAfter(old, new) \in Slots
  BY DEF Slots, SlotAfter
<1>2. \A old \in Slots : SlotAfter(old, new) = "active" => old = "active"
  BY DEF SlotAfter
<1>3. status' = [status EXCEPT ![t] = new]
      /\ slot' = [slot EXCEPT ![t] = SlotAfter(slot[t], new)]
  BY DEF SetStatus
<1>4. status \in [Tasks -> Statuses] /\ slot \in [Tasks -> Slots]
  BY DEF TypeOK
<1>5. status' \in [Tasks -> Statuses] /\ slot' \in [Tasks -> Slots]
  BY <1>1, <1>3, <1>4
<1>6. QED
  BY <1>2, <1>3, <1>4, <1>5

\* Nobody else's client is removed from a task.
LEMMA RemoveFacts ==
  ASSUME TypeOK, NEW c \in Clients, target[c] \in Tasks, RemoveClient(c)
  PROVE  /\ properties' \in [Tasks -> Properties]
         /\ \A t \in Tasks : properties'[t].consumers =
              IF t = target[c] THEN properties[t].consumers \ {c}
                               ELSE properties[t].consumers
<1> DEFINE new == [properties[target[c]] EXCEPT
                     !.consumers = properties[target[c]].consumers \ {c}]
<1>1. properties \in [Tasks -> Properties]
  BY DEF TypeOK
<1>2. new \in Properties /\ new.consumers = properties[target[c]].consumers \ {c}
  BY <1>1 DEF Properties
<1>3. properties' = [properties EXCEPT ![target[c]] = new]
  BY DEF RemoveClient
<1> HIDE DEF new
<1>4. QED
  BY <1>1, <1>2, <1>3

\* A join adds the client to what it has read.
LEMMA JoinFacts ==
  ASSUME TypeOK, NEW c \in Clients, target[c] \in Tasks, Join(c)
  PROVE  /\ properties' \in [Tasks -> Properties]
         /\ properties'[target[c]].consumers = seen[c].consumers \cup {c}
         /\ \A t \in Tasks \ {target[c]} : properties'[t] = properties[t]
         /\ subscribers' \in [Tasks -> SUBSET Principals]
         /\ subscribers'[target[c]] = subscribers[target[c]] \cup {Owner[c]}
         /\ \A t \in Tasks \ {target[c]} : subscribers'[t] = subscribers[t]
         /\ seen' \in [Clients -> Properties]
         /\ \A d \in Clients \ {c} : seen'[d] = seen[d]
<1> DEFINE new == [seen[c] EXCEPT !.consumers = seen[c].consumers \cup {c}]
<1>1. /\ properties \in [Tasks -> Properties] /\ seen \in [Clients -> Properties]
      /\ subscribers \in [Tasks -> SUBSET Principals]
  BY DEF TypeOK
<1>2. new \in Properties /\ new.consumers = seen[c].consumers \cup {c}
  BY <1>1 DEF Properties
<1>3. properties' = [properties EXCEPT ![target[c]] = new]
  BY DEF Join
<1>4. Owner[c] \in Principals
  BY SubmissionAssumption DEF SubmissionAssumption
<1>5. Blank \in Properties
  BY DEF Blank, Properties
<1> HIDE DEF new
<1>6. properties' \in [Tasks -> Properties] /\ seen' \in [Clients -> Properties]
      /\ subscribers' \in [Tasks -> SUBSET Principals]
  BY <1>1, <1>2, <1>3, <1>4, <1>5 DEF Join
<1>7. QED
  BY <1>1, <1>2, <1>3, <1>6 DEF Join

\* An insert that the unique index lets pass adds the next row.
LEMMA InsertFacts ==
  ASSUME TypeOK, NEW c \in Clients, Insert(c), ActiveTasks = {}
  PROVE  LET t == created + 1 IN
         /\ t \in Tasks /\ created' = t /\ status' = status
         /\ slot' \in [Tasks -> Slots] /\ slot'[t] = "active"
         /\ \A u \in Tasks \ {t} : slot'[u] = slot[u]
         /\ properties' \in [Tasks -> Properties] /\ properties'[t].consumers = {c}
         /\ \A u \in Tasks \ {t} : properties'[u] = properties[u]
         /\ subscribers' \in [Tasks -> SUBSET Principals]
         /\ subscribers'[t] = {Owner[c]}
         /\ \A u \in Tasks \ {t} : subscribers'[u] = subscribers[u]
         /\ target' = [target EXCEPT ![c] = t] /\ pc' = [pc EXCEPT ![c] = "new"]
<1> DEFINE t == created + 1
<1> DEFINE new == [properties[t] EXCEPT !.consumers = {c}]
<1>1. /\ properties \in [Tasks -> Properties] /\ slot \in [Tasks -> Slots]
      /\ subscribers \in [Tasks -> SUBSET Principals]
  BY DEF TypeOK
<1>2. t \in Tasks /\ created' = t /\ status' = status
      /\ slot' = [slot EXCEPT ![t] = "active"]
      /\ subscribers' = [subscribers EXCEPT ![t] = {Owner[c]}]
      /\ properties' = [properties EXCEPT ![t] = new]
      /\ target' = [target EXCEPT ![c] = t] /\ pc' = [pc EXCEPT ![c] = "new"]
  BY SubmissionAssumption
     DEF SubmissionAssumption, TypeOK, Insert, IntegrityError, Tasks, Goto
<1>3. new \in Properties /\ new.consumers = {c}
  BY <1>1, <1>2 DEF Properties
<1>4. Owner[c] \in Principals /\ "active" \in Slots
  BY SubmissionAssumption DEF SubmissionAssumption, Slots
<1> HIDE DEF new
<1>5. QED
  BY <1>1, <1>2, <1>3, <1>4

\* The executor writes the consumers it finds on the row.
LEMMA WriteFacts ==
  ASSUME TypeOK, NEW t \in Tasks, WriteProperties(t)
  PROVE  /\ properties' \in [Tasks -> Properties] /\ cache' \in [Tasks -> Properties]
         /\ \A u \in Tasks : properties'[u].consumers = properties[u].consumers
<1>1. properties \in [Tasks -> Properties] /\ cache \in [Tasks -> Properties]
  BY DEF TypeOK
<1>2. PICK abortable \in {TRUE, cache[t].is_abortable} :
        /\ cache' = [cache EXCEPT ![t].is_abortable = abortable]
        /\ SetProperties(t, cache'[t])
  BY DEF WriteProperties
<1> DEFINE kept == [cache[t] EXCEPT !.is_abortable = abortable]
           new  == [cache'[t] EXCEPT !.consumers = properties[t].consumers]
<1>3. kept \in Properties
  BY <1>1 DEF Properties
<1>4. cache' = [cache EXCEPT ![t] = kept]
  BY <1>2
<1> HIDE DEF kept
<1>5. cache' \in [Tasks -> Properties]
  BY <1>1, <1>3, <1>4
<1>6. new \in Properties /\ new.consumers = properties[t].consumers
  BY <1>1, <1>5 DEF Properties
<1>7. properties' = [properties EXCEPT ![t] = new]
  BY <1>2 DEF SetProperties
<1> HIDE DEF new
<1>8. QED
  BY <1>1, <1>5, <1>6, <1>7

\* A reader finds task t.
Finds(c, t) ==
    /\ t <= created
    /\ pc' = [pc EXCEPT ![c] = "join"]
    /\ target' = [target EXCEPT ![c] = t]
    /\ seen' = [seen EXCEPT ![c] = properties[t]]

\* A reader finds the active task with its properties, or none.
LEMMA FindFacts ==
  ASSUME TypeOK, NEW c \in Clients, NEW otherwise, FindActive(c, otherwise)
  PROVE  \/ /\ ActiveTasks = {}
            /\ pc' = [pc EXCEPT ![c] = otherwise] /\ UNCHANGED <<target, seen>>
         \/ \E t \in Tasks : slot[t] = "active" /\ Finds(c, t)
<1>1. \A t \in ActiveTasks : t \in Tasks /\ t <= created /\ slot[t] = "active"
  BY SubmissionAssumption DEF SubmissionAssumption, TypeOK, ActiveTasks, Tasks
<1>2. QED
  BY <1>1 DEF FindActive, Finds, Goto

\* Every step keeps the types and a task for whoever is involved in one.
LEMMA TypeStep == TypeOK /\ TargetInv /\ [Next]_vars => TypeOK' /\ TargetInv'
<1> SUFFICES ASSUME TypeOK, TargetInv, [Next]_vars PROVE TypeOK' /\ TargetInv'
  OBVIOUS
<1> USE SubmissionAssumption DEF SubmissionAssumption, TypeOK, TargetInv, Involved,
        Tasks, Goto, rows
<1>b. Blank \in Properties
  BY DEF Blank, Properties
<1>1. ASSUME NEW c \in Clients, Submit(c) PROVE TypeOK' /\ TargetInv'
  BY <1>1 DEF Submit, Lock
<1>2. ASSUME NEW c \in Clients, Find(c) PROVE TypeOK' /\ TargetInv'
  <2>1. FindActive(c, "insert")
        /\ UNCHANGED <<rows, queued, cache, holder, lost>>
    BY <1>2 DEF Find
  <2>2. CASE pc' = [pc EXCEPT ![c] = "insert"] /\ UNCHANGED <<target, seen>>
    BY <2>1, <2>2
  <2>3. ASSUME NEW t \in Tasks, Finds(c, t) PROVE TypeOK' /\ TargetInv'
    BY <2>1, <2>3 DEF Finds
  <2>4. QED
    BY <2>1, <2>2, <2>3, FindFacts
<1>3. ASSUME NEW c \in Clients, Join(c) PROVE TypeOK' /\ TargetInv'
  <2>1. target[c] \in Tasks /\ pc' = [pc EXCEPT ![c] = "old"]
        /\ UNCHANGED <<created, status, slot, queued, cache, holder, lost, target>>
    BY <1>3 DEF Join
  <2>2. /\ properties' \in [Tasks -> Properties] /\ seen' \in [Clients -> Properties]
        /\ subscribers' \in [Tasks -> SUBSET Principals]
    BY <1>3, <2>1, JoinFacts
  <2>3. QED
    BY <2>1, <2>2
<1>4. ASSUME NEW c \in Clients, Insert(c) PROVE TypeOK' /\ TargetInv'
  <2>1. CASE ActiveTasks = {}
    <3> DEFINE t == created + 1
    <3>1. /\ t \in Tasks /\ created' = t /\ status' = status
          /\ slot' \in [Tasks -> Slots]
          /\ properties' \in [Tasks -> Properties]
          /\ subscribers' \in [Tasks -> SUBSET Principals]
          /\ target' = [target EXCEPT ![c] = t] /\ pc' = [pc EXCEPT ![c] = "new"]
      BY <1>4, <2>1, InsertFacts
    <3>2. QED
      BY <1>4, <3>1 DEF Insert
  <2>2. CASE ActiveTasks # {}
    <3>1. pc' = [pc EXCEPT ![c] = "reread"]
          /\ UNCHANGED <<rows, target, queued, cache, holder, lost, seen>>
      BY <1>4, <2>2 DEF Insert, IntegrityError
    <3>2. QED
      BY <3>1
  <2>3. QED
    BY <2>1, <2>2
<1>5. ASSUME NEW c \in Clients, Reread(c) PROVE TypeOK' /\ TargetInv'
  <2>1. FindActive(c, "raise")
        /\ UNCHANGED <<rows, queued, cache, holder, lost>>
    BY <1>5 DEF Reread
  <2>2. CASE pc' = [pc EXCEPT ![c] = "raise"] /\ UNCHANGED <<target, seen>>
    BY <2>1, <2>2
  <2>3. ASSUME NEW t \in Tasks, Finds(c, t) PROVE TypeOK' /\ TargetInv'
    BY <2>1, <2>3 DEF Finds
  <2>4. QED
    BY <2>1, <2>2, <2>3, FindFacts
<1>6. ASSUME NEW c \in Clients, ReleaseLock(c) PROVE TypeOK' /\ TargetInv'
  BY <1>6 DEF ReleaseLock, Unlock, After
<1>7. ASSUME NEW c \in Clients, Enqueue(c) PROVE TypeOK' /\ TargetInv'
  BY <1>7 DEF Enqueue
<1>8. ASSUME NEW c \in Clients, EnqueueFails(c) PROVE TypeOK' /\ TargetInv'
  BY <1>8 DEF EnqueueFails
<1>9. ASSUME NEW c \in Clients, FailUnenqueued(c) PROVE TypeOK' /\ TargetInv'
  BY <1>9, SetStatusFacts DEF FailUnenqueued, Statuses, TERMINAL_STATES
<1>10. ASSUME NEW c \in Clients, Cancel(c) PROVE TypeOK' /\ TargetInv'
  BY <1>10 DEF Cancel, Lock
<1>11. ASSUME NEW c \in Clients, Validate(c) PROVE TypeOK' /\ TargetInv'
  BY <1>11 DEF Validate
<1>12. ASSUME NEW c \in Clients, Decide(c) PROVE TypeOK' /\ TargetInv'
  <2>1. CASE Detach(c)
    BY <1>12, <2>1, RemoveFacts DEF Decide, Detach
  <2>2. CASE Unsubscribe(c)
    BY <1>12, <2>2, RemoveFacts DEF Decide, Unsubscribe
  <2>3. CASE Abort(c)
    <3>1. target[c] \in Tasks /\ properties' \in [Tasks -> Properties]
      BY <1>12, <2>3, RemoveFacts DEF Decide, Abort
    <3>2. status' \in [Tasks -> Statuses] /\ slot' \in [Tasks -> Slots]
      BY <2>3, <3>1, SetStatusFacts
         DEF Abort, Statuses, TERMINAL_STATES, ACTIVE_STATES
    <3>3. QED
      BY <1>12, <2>3, <3>1, <3>2 DEF Decide, Abort
  <2>4. CASE RefuseAbort(c)
    BY <1>12, <2>4 DEF Decide, RefuseAbort
  <2>5. QED
    BY <1>12, <2>1, <2>2, <2>3, <2>4 DEF Decide
<1>13. ASSUME NEW t \in Tasks, Start(t) PROVE TypeOK' /\ TargetInv'
  <2>1. /\ status' \in [Tasks -> Statuses] /\ slot' \in [Tasks -> Slots]
    BY <1>13, SetStatusFacts DEF Start, Statuses, ACTIVE_STATES
  <2>2. queued' \in [Tasks -> BOOLEAN] /\ cache' \in [Tasks -> Properties]
    BY <1>13 DEF Start
  <2>3. QED
    BY <1>13, <2>1, <2>2 DEF Start
<1>14. ASSUME NEW t \in Tasks, WriteProperties(t) PROVE TypeOK' /\ TargetInv'
  BY <1>14, WriteFacts DEF WriteProperties
<1>15. ASSUME NEW t \in Tasks, Finish(t) PROVE TypeOK' /\ TargetInv'
  BY <1>15, <1>b, SetStatusFacts DEF Finish, Statuses, TERMINAL_STATES
<1>16. CASE Expire
  BY <1>16 DEF Expire
<1>17. CASE UNCHANGED vars
  BY <1>17 DEF vars
<1>18. QED
  BY <1>1, <1>2, <1>3, <1>4, <1>5, <1>6, <1>7, <1>8, <1>9, <1>10, <1>11, <1>12,
     <1>13, <1>14, <1>15, <1>16, <1>17
     DEF Next, Submitting, Cancelling, Executing

\* No step makes a second row hold the key.
LEMMA IndexStep == TypeOK /\ TargetInv /\ IndexInv /\ [Next]_vars => IndexInv'
<1> SUFFICES ASSUME TypeOK, TargetInv, IndexInv, [Next]_vars PROVE IndexInv'
  OBVIOUS
<1>1. ASSUME created' = created, \A t \in Tasks : slot'[t] = "active" => slot[t] = "active"
      PROVE  IndexInv'
  BY <1>1 DEF IndexInv
<1>2. ASSUME UNCHANGED <<created, slot>> PROVE IndexInv'
  BY <1>1, <1>2
<1>3. ASSUME NEW c \in Clients, Insert(c) PROVE IndexInv'
  <2>1. CASE ActiveTasks = {}
    <3>1. \A t \in Tasks : slot[t] # "active"
      <4>1. \A t \in Tasks : t <= created => t \in 1..created
        BY SubmissionAssumption DEF SubmissionAssumption, TypeOK, Tasks
      <4>2. QED
        BY <2>1, <4>1 DEF IndexInv, ActiveTasks
    <3>2. /\ created' = created + 1
          /\ \A u \in Tasks \ {created + 1} : slot'[u] = slot[u]
      BY <1>3, <2>1, InsertFacts
    <3>3. created + 1 <= created'
      BY <3>2 DEF TypeOK
    <3>4. QED
      BY <3>1, <3>2, <3>3 DEF IndexInv
  <2>2. CASE ActiveTasks # {}
    BY <1>2, <1>3, <2>2 DEF Insert, IntegrityError, rows
  <2>3. QED
    BY <2>1, <2>2
<1>4. ASSUME NEW c \in Clients, FailUnenqueued(c), target[c] \in Tasks PROVE IndexInv'
  BY <1>1, <1>2, <1>4, SetStatusFacts DEF FailUnenqueued, Statuses, TERMINAL_STATES
<1>5. ASSUME NEW c \in Clients, Decide(c), target[c] \in Tasks PROVE IndexInv'
  BY <1>1, <1>2, <1>5, SetStatusFacts
     DEF Decide, Detach, Unsubscribe, Abort, RefuseAbort, Statuses, TERMINAL_STATES,
         ACTIVE_STATES
<1>6. ASSUME NEW t \in Tasks, Start(t) PROVE IndexInv'
  BY <1>1, <1>2, <1>6, SetStatusFacts DEF Start, Statuses, ACTIVE_STATES
<1>7. ASSUME NEW t \in Tasks, Finish(t) PROVE IndexInv'
  BY <1>1, <1>7, SetStatusFacts DEF Finish, Statuses, TERMINAL_STATES
<1>8. \A c \in Clients : FailUnenqueued(c) \/ Decide(c) => target[c] \in Tasks
  BY DEF TargetInv, Involved, FailUnenqueued, Decide
<1>9. QED
  BY <1>2, <1>3, <1>4, <1>5, <1>6, <1>7, <1>8
     DEF Next, Submitting, Cancelling, Executing, Submit, Find, Join, Reread,
         ReleaseLock, Enqueue, EnqueueFails, Cancel, Validate, WriteProperties,
         Expire, vars, rows

\* Who enters the critical section takes the lock, which nobody holds then.
LEMMA LockStep == TypeOK /\ LockInv /\ [Next]_vars => LockInv'
<1> SUFFICES ASSUME TypeOK, LockInv, [Next]_vars PROVE LockInv'
  OBVIOUS
<1>p. pc = [d \in Clients |-> pc[d]]
  BY DEF TypeOK
<1>1. ASSUME NEW c \in Clients, NEW l, pc' = [pc EXCEPT ![c] = l],
             l \in Critical => pc[c] \in Critical, UNCHANGED <<holder, lost>>
      PROVE  LockInv'
  BY <1>p, <1>1 DEF LockInv
<1>2. ASSUME UNCHANGED <<pc, holder, lost>> PROVE LockInv'
  BY <1>2 DEF LockInv
<1>3. ASSUME NEW c \in Clients, NEW l, pc' = [pc EXCEPT ![c] = l], Lock(c),
             lost' = lost
      PROVE  LockInv'
  BY <1>p, <1>3, SubmissionAssumption DEF LockInv, Lock, SubmissionAssumption
<1>4. ASSUME NEW c \in Clients, ReleaseLock(c) PROVE LockInv'
  <2>1. pc'[c] \notin Critical /\ \A d \in Clients \ {c} : pc'[d] = pc[d]
    BY <1>p, <1>4 DEF ReleaseLock, After, Goto, Critical
  <2>2. pc[c] \in Critical /\ lost' = lost
    BY <1>4 DEF ReleaseLock, Critical
  <2>3. QED
    BY <2>1, <2>2 DEF LockInv
<1>5. ASSUME NEW c \in Clients, Find(c) \/ Reread(c) PROVE LockInv'
  BY <1>1, <1>5 DEF Find, Reread, FindActive, Critical, Goto
<1>6. ASSUME NEW c \in Clients, Join(c) \/ Insert(c) \/ Validate(c) PROVE LockInv'
  BY <1>1, <1>6 DEF Join, Insert, Validate, Critical, Goto
<1>7. ASSUME NEW c \in Clients, Decide(c) PROVE LockInv'
  BY <1>1, <1>7 DEF Decide, Detach, Unsubscribe, Abort, RefuseAbort, Critical, Goto
<1>8. ASSUME NEW c \in Clients, Enqueue(c) \/ EnqueueFails(c) \/ FailUnenqueued(c)
      PROVE  LockInv'
  BY <1>1, <1>8 DEF Enqueue, EnqueueFails, FailUnenqueued, Critical, Goto
<1>9. ASSUME NEW c \in Clients, Submit(c) \/ Cancel(c) PROVE LockInv'
  BY <1>3, <1>9 DEF Submit, Cancel, Goto
<1>10. ASSUME NEW t \in Tasks, Executing(t) PROVE LockInv'
  BY <1>2, <1>10 DEF Executing, Start, WriteProperties, Finish
<1>11. CASE Expire
  BY <1>11 DEF Expire, LockInv
<1>12. CASE UNCHANGED vars
  BY <1>2, <1>12 DEF vars
<1>13. QED
  BY <1>4, <1>5, <1>6, <1>7, <1>8, <1>9, <1>10, <1>11, <1>12
     DEF Next, Submitting, Cancelling

\* Nobody else writes between a client's read and its commit.
LEMMA ReadStep == IInv /\ [Next]_vars => ReadInv' /\ BackstopUnused'
<1> SUFFICES ASSUME IInv, [Next]_vars PROVE ReadInv' /\ BackstopUnused'
  OBVIOUS
<1> USE DEF IInv
<1>p. /\ pc = [d \in Clients |-> pc[d]] /\ target \in [Clients -> 0..MaxTasks]
      /\ seen \in [Clients -> Properties] /\ properties \in [Tasks -> Properties]
  BY DEF TypeOK
<1>i. \A c \in Clients : pc[c] = "join" => target[c] \in Tasks
  BY DEF TargetInv, Involved
<1>a. ASSUME created' = created, \A t \in Tasks : slot'[t] = "active" => slot[t] = "active"
      PROVE  ActiveTasks = {} => ActiveTasks' = {}
  BY <1>a, SubmissionAssumption DEF ActiveTasks, TypeOK, Tasks, SubmissionAssumption
<1>1. ASSUME lost' = lost, created' = created,
             \A t \in Tasks : properties'[t].consumers = properties[t].consumers,
             \A t \in Tasks : slot'[t] = "active" => slot[t] = "active",
             \A d \in Clients : pc'[d] \in {"join", "insert", "reread"} =>
                pc'[d] = pc[d] /\ target'[d] = target[d] /\ seen'[d] = seen[d]
      PROVE  ReadInv' /\ BackstopUnused'
  BY <1>a, <1>i, <1>1 DEF ReadInv, BackstopUnused
<1>2. ASSUME NEW c \in Clients, pc[c] \in Critical,
             pc'[c] \notin {"join", "insert", "reread"},
             \A d \in Clients \ {c} : pc'[d] = pc[d], lost' = lost
      PROVE  ReadInv' /\ BackstopUnused'
  <2>1. ~lost => \A d \in Clients \ {c} : pc[d] \notin {"join", "insert", "reread"}
    BY <1>2 DEF LockInv, Critical
  <2>2. QED
    BY <1>2, <2>1 DEF ReadInv, BackstopUnused
<1>3. ASSUME NEW c \in Clients, NEW l, l \in {"insert", "raise"}, FindActive(c, l),
             UNCHANGED <<rows, lost>>
      PROVE  ReadInv' /\ BackstopUnused'
  <2>1. CASE ActiveTasks = {} /\ pc' = [pc EXCEPT ![c] = l] /\ UNCHANGED <<target, seen>>
    BY <1>p, <1>3, <2>1 DEF ReadInv, BackstopUnused, rows, ActiveTasks
  <2>2. ASSUME NEW t \in Tasks, Finds(c, t) PROVE ReadInv' /\ BackstopUnused'
    BY <1>p, <1>3, <2>2 DEF ReadInv, BackstopUnused, rows, ActiveTasks, Finds
  <2>3. QED
    BY <1>3, <2>1, <2>2, FindFacts
<1>4. ASSUME NEW c \in Clients, Find(c) \/ Reread(c) PROVE ReadInv' /\ BackstopUnused'
  BY <1>3, <1>4 DEF Find, Reread
<1>5. ASSUME NEW c \in Clients, Join(c) PROVE ReadInv' /\ BackstopUnused'
  BY <1>p, <1>2, <1>5 DEF Join, Goto, Critical
<1>6. ASSUME NEW c \in Clients, Insert(c) PROVE ReadInv' /\ BackstopUnused'
  <2>1. CASE ActiveTasks = {}
    BY <1>p, <1>2, <1>6, <2>1 DEF Insert, IntegrityError, Goto, Critical
  <2>2. CASE ActiveTasks # {}
    <3>1. lost /\ lost' = lost
      BY <1>6, <2>2 DEF Insert, ReadInv
    <3>2. QED
      BY <3>1 DEF ReadInv, BackstopUnused
  <2>3. QED
    BY <2>1, <2>2
<1>7. ASSUME NEW c \in Clients, Decide(c) PROVE ReadInv' /\ BackstopUnused'
  BY <1>p, <1>2, <1>7
     DEF Decide, Detach, Unsubscribe, Abort, RefuseAbort, Goto, Critical
<1>8. ASSUME NEW c \in Clients,
             \/ Submit(c) \/ ReleaseLock(c) \/ Enqueue(c) \/ EnqueueFails(c)
             \/ Cancel(c) \/ Validate(c)
      PROVE  ReadInv' /\ BackstopUnused'
  BY <1>p, <1>1, <1>8
     DEF Submit, ReleaseLock, Enqueue, EnqueueFails, Cancel, Validate, Goto, After, rows
<1>9. ASSUME NEW c \in Clients, FailUnenqueued(c) PROVE ReadInv' /\ BackstopUnused'
  <2>1. target[c] \in Tasks
    BY <1>9 DEF FailUnenqueued, TargetInv, Involved
  <2>2. \A t \in Tasks : slot'[t] = "active" => slot[t] = "active"
    BY <1>9, <2>1, SetStatusFacts DEF FailUnenqueued, Statuses, TERMINAL_STATES
  <2>3. QED
    BY <1>p, <1>1, <1>9, <2>2 DEF FailUnenqueued, Goto
<1>10. ASSUME NEW t \in Tasks, Start(t) \/ Finish(t) PROVE ReadInv' /\ BackstopUnused'
  <2>1. \A u \in Tasks : slot'[u] = "active" => slot[u] = "active"
    BY <1>10, SetStatusFacts
       DEF Start, Finish, Statuses, TERMINAL_STATES, ACTIVE_STATES
  <2>2. QED
    BY <1>1, <1>10, <2>1 DEF Start, Finish
<1>11. ASSUME NEW t \in Tasks, WriteProperties(t) PROVE ReadInv' /\ BackstopUnused'
  <2>1. \A u \in Tasks : properties'[u].consumers = properties[u].consumers
    BY <1>11, WriteFacts
  <2>2. QED
    BY <1>1, <1>11, <2>1 DEF WriteProperties
<1>12. CASE Expire
  BY <1>12 DEF Expire, ReadInv, BackstopUnused
<1>13. CASE UNCHANGED vars
  BY <1>1, <1>13 DEF vars, rows
<1>14. QED
  BY <1>4, <1>5, <1>6, <1>7, <1>8, <1>9, <1>10, <1>11, <1>12, <1>13
     DEF Next, Submitting, Cancelling, Executing

\* A join, an insert and a cancel keep all others on record.
LEMMA RecordStep == IInv /\ [Next]_vars => RecordInv'
<1> SUFFICES ASSUME IInv, [Next]_vars, ~lost' PROVE RecordInv'
  BY DEF RecordInv
<1> USE DEF IInv
<1>p. /\ pc = [d \in Clients |-> pc[d]] /\ target \in [Clients -> 0..MaxTasks]
      /\ subscribers \in [Tasks -> SUBSET Principals]
  BY DEF TypeOK
<1>t. \A d \in Clients : pc[d] \in Watching => target[d] \in Tasks
  BY DEF TargetInv, Involved, Watching
<1>u. ~lost
  BY DEF Next, Submitting, Cancelling, Executing, vars, Submit, Find, Join, Insert,
         Reread, ReleaseLock, Enqueue, EnqueueFails, FailUnenqueued, Cancel, Validate,
         Decide, Start, WriteProperties, Finish, Expire
<1>r. \A d \in Clients : pc[d] \in Watching =>
        d \in properties[target[d]].consumers /\ Owner[d] \in subscribers[target[d]]
  BY <1>u DEF RecordInv
<1>1. ASSUME \A t \in Tasks : properties'[t].consumers = properties[t].consumers,
             subscribers' = subscribers,
             \A d \in Clients : pc'[d] \in Watching =>
                pc[d] \in Watching /\ target'[d] = target[d]
      PROVE  RecordInv'
  BY <1>1, <1>r, <1>t DEF RecordInv
<1>2. ASSUME NEW c \in Clients,
             Submit(c) \/ ReleaseLock(c) \/ Enqueue(c) \/ EnqueueFails(c)
      PROVE  RecordInv'
  BY <1>p, <1>1, <1>2
     DEF Submit, ReleaseLock, Enqueue, EnqueueFails, Goto, After, rows, Watching
<1>3. ASSUME NEW c \in Clients, FailUnenqueued(c) \/ Cancel(c) \/ Validate(c)
      PROVE  RecordInv'
  BY <1>p, <1>1, <1>3 DEF FailUnenqueued, Cancel, Validate, Goto, rows, Watching
<1>4. ASSUME NEW c \in Clients, Find(c) \/ Reread(c) PROVE RecordInv'
  <2>1. UNCHANGED rows
    BY <1>4 DEF Find, Reread
  <2>2. \A d \in Clients : pc'[d] \in Watching => pc[d] \in Watching /\ target'[d] = target[d]
    BY <1>p, <1>4 DEF Find, Reread, FindActive, Goto, Watching
  <2>3. QED
    BY <1>1, <2>1, <2>2 DEF rows
<1>5. ASSUME NEW c \in Clients, Join(c) PROVE RecordInv'
  <2>1. /\ pc' = [pc EXCEPT ![c] = "old"] /\ target' = target
        /\ target[c] \in Tasks
        /\ seen[c].consumers = properties[target[c]].consumers
    BY <1>5, <1>u DEF Join, Goto, TargetInv, Involved, ReadInv
  <2>2. \A t \in Tasks : /\ properties[t].consumers \subseteq properties'[t].consumers
                         /\ subscribers[t] \subseteq subscribers'[t]
    BY <1>5, <2>1, JoinFacts
  <2>3. c \in properties'[target[c]].consumers /\ Owner[c] \in subscribers'[target[c]]
    BY <1>5, <2>1, JoinFacts
  <2>4. QED
    BY <1>p, <1>r, <1>t, <2>1, <2>2, <2>3 DEF RecordInv
<1>6. ASSUME NEW c \in Clients, Insert(c) PROVE RecordInv'
  <2> DEFINE t == created + 1
  <2>1. ActiveTasks = {}
    BY <1>6, <1>u DEF Insert, ReadInv
  <2>2. /\ t \in Tasks /\ target' = [target EXCEPT ![c] = t]
        /\ pc' = [pc EXCEPT ![c] = "new"]
        /\ c \in properties'[t].consumers /\ Owner[c] \in subscribers'[t]
        /\ \A u \in Tasks \ {t} : /\ properties'[u] = properties[u]
                                  /\ subscribers'[u] = subscribers[u]
    BY <1>6, <2>1, InsertFacts
  <2>3. \A d \in Clients : target[d] # t
    BY DEF TargetInv, TypeOK
  <2> HIDE DEF t
  <2>4. QED
    BY <1>p, <1>r, <1>t, <2>2, <2>3 DEF RecordInv
<1>7. ASSUME NEW c \in Clients, Decide(c) PROVE RecordInv'
  <2>1. pc[c] = "decide" /\ target' = target /\ target[c] \in Tasks
    BY <1>7 DEF Decide, TargetInv, Involved
  <2>2. CASE RefuseAbort(c)
    BY <1>p, <1>1, <1>7, <2>1, <2>2 DEF Decide, RefuseAbort, Goto, Watching
  <2>3. ASSUME RemoveClient(c), Goto(c, "left"),
               \A d \in Clients \ {c} : pc[d] \in Watching =>
                  Owner[d] \in subscribers'[target[d]]
        PROVE  RecordInv'
    <3>1. pc' = [pc EXCEPT ![c] = "left"] /\ target' = target
      BY <2>1, <2>3 DEF Goto
    <3>2. ASSUME NEW d \in Clients, pc'[d] \in Watching
          PROVE  d # c /\ pc[d] \in Watching
      BY <1>p, <3>1, <3>2 DEF Watching
    <3>3. \A d \in Clients \ {c} : pc[d] \in Watching =>
            d \in properties'[target[d]].consumers
      <4>1. \A t \in Tasks : properties[t].consumers \ {c} \subseteq properties'[t].consumers
        BY <2>1, <2>3, RemoveFacts
      <4>2. QED
        BY <1>r, <1>t, <4>1
    <3>4. QED
      BY <2>3, <3>1, <3>2, <3>3 DEF RecordInv
  <2>4. CASE Detach(c)
    BY <1>r, <2>3, <2>4 DEF Detach
  <2>5. CASE Unsubscribe(c)
    <3>1. ASSUME NEW d \in Clients \ {c}, pc[d] \in Watching
          PROVE  Owner[d] \in subscribers'[target[d]]
      <4>1. Owner[d] \in subscribers[target[d]] /\ d \in properties[target[d]].consumers
        BY <1>r, <3>1
      <4>2. target[d] = target[c] => Owner[d] # Owner[c]
        BY <2>5, <4>1 DEF Unsubscribe, OtherTabs
      <4>3. QED
        BY <1>p, <1>t, <2>1, <2>5, <3>1, <4>1, <4>2 DEF Unsubscribe
    <3>2. QED
      BY <2>3, <2>5, <3>1 DEF Unsubscribe
  <2>6. CASE Abort(c)
    BY <1>r, <2>3, <2>6 DEF Abort
  <2>7. QED
    BY <1>7, <2>2, <2>4, <2>5, <2>6 DEF Decide
<1>8. ASSUME NEW t \in Tasks, Start(t) \/ Finish(t) PROVE RecordInv'
  BY <1>1, <1>8 DEF Start, Finish
<1>9. ASSUME NEW t \in Tasks, WriteProperties(t) PROVE RecordInv'
  <2>1. \A u \in Tasks : properties'[u].consumers = properties[u].consumers
    BY <1>9, WriteFacts
  <2>2. QED
    BY <1>1, <1>9, <2>1 DEF WriteProperties
<1>10. CASE Expire
  BY <1>10 DEF Expire
<1>11. CASE UNCHANGED vars
  BY <1>1, <1>11 DEF vars, rows
<1>12. QED
  BY <1>2, <1>3, <1>4, <1>5, <1>6, <1>7, <1>8, <1>9, <1>10, <1>11
     DEF Next, Submitting, Cancelling, Executing

\* Nothing exists at first, and nobody holds the lock.
LEMMA InitIInv == Init => IInv
<1> SUFFICES ASSUME Init PROVE IInv
  OBVIOUS
<1> USE SubmissionAssumption DEF SubmissionAssumption, Init
<1>1. Blank \in Properties
  BY DEF Blank, Properties
<1>2. TypeOK
  <2>1. /\ created \in 0..MaxTasks /\ target \in [Clients -> 0..MaxTasks]
        /\ properties \in [Tasks -> Properties] /\ cache \in [Tasks -> Properties]
        /\ seen \in [Clients -> Properties]
    BY <1>1
  <2>2. /\ status \in [Tasks -> Statuses] /\ slot \in [Tasks -> Slots]
        /\ subscribers \in [Tasks -> SUBSET Principals] /\ queued \in [Tasks -> BOOLEAN]
    BY DEF Statuses, ACTIVE_STATES, Slots
  <2>3. QED
    BY <2>1, <2>2 DEF TypeOK
<1>3. QED
  BY <1>2 DEF IInv, TargetInv, IndexInv, LockInv, ReadInv, RecordInv, BackstopUnused,
              Involved, Critical, Watching, Tasks, ActiveTasks

----------------------------------------------------------------------------
\* The invariant of every execution.
LEMMA Invariance == Spec => []IInv
<1>1. IInv /\ [Next]_vars => IInv'
  BY TypeStep, IndexStep, LockStep, ReadStep, RecordStep DEF IInv
<1>2. QED
  BY InitIInv, <1>1, PTL DEF Spec

\* Rows, queue, lock, tabs and what they have read keep their types.
THEOREM TypeCorrect == Spec => []TypeOK
BY Invariance, PTL DEF IInv

\* Whoever watches a task is listed with it, unless a lock expired: neither
\* concurrent submits and cancels nor the executor's writes of the whole blob
\* lose a tab or its principal.
THEOREM WatchersStayOnRecord == Spec => []WatchersOnRecord
<1>1. IInv => WatchersOnRecord
  BY DEF IInv, RecordInv, WatchersOnRecord, Watchers, Watching
<1>2. QED
  BY Invariance, <1>1, PTL

\* Under the lock, no submit reaches the savepoint of a violated unique index.
THEOREM BackstopIsUnused == Spec => []BackstopUnused
BY Invariance, PTL DEF IInv

\* Tasks that are being watched and hold the key are one task, also after a
\* lock expired under its holder: the unique index sees to it.
THEOREM WatchersShare == Spec => []WatchersShareOneTask
<1>1. IInv => WatchersShareOneTask
  BY DEF IInv, IndexInv, WatchersShareOneTask
<1>2. QED
  BY Invariance, <1>1, PTL

\* At most one subscriber is left: the principal of whoever is one.
LEMMA LastOne ==
  ASSUME TypeOK, NEW t \in Tasks, LastSubscriber(t),
         NEW x \in subscribers[t], NEW y \in subscribers[t]
  PROVE  x = y
<1>1. IsFiniteSet(subscribers[t])
  BY SubmissionAssumption, FS_Subset DEF SubmissionAssumption, TypeOK
<1>2. SUFFICES ASSUME x # y PROVE FALSE
  OBVIOUS
<1>3. Cardinality({x, y}) = 2
  <2>1. IsFiniteSet({x}) /\ Cardinality({x}) = 1
    BY FS_Singleton
  <2>2. Cardinality({x} \cup {y}) = Cardinality({x}) + 1
    BY <1>2, <2>1, FS_AddElement
  <2>3. {x} \cup {y} = {x, y}
    OBVIOUS
  <2>4. QED
    BY <2>1, <2>2, <2>3
<1>4. Cardinality({x, y}) <= Cardinality(subscribers[t])
  BY <1>1, FS_Subset
<1>5. QED
  BY <1>1, <1>3, <1>4, FS_CardinalityType DEF LastSubscriber

\* A cancel that ends or aborts a task leaves nobody watching it.
LEMMA AbortStep ==
  IInv /\ [Next]_vars =>
    (~lost => \A t \in Tasks :
        status[t] \notin ABORT_STATES /\ status'[t] \in ABORT_STATES => Watchers(t)' = {})
<1> SUFFICES ASSUME IInv, [Next]_vars, ~lost, NEW t \in Tasks,
                    status[t] \notin ABORT_STATES, status'[t] \in ABORT_STATES
             PROVE  Watchers(t)' = {}
  OBVIOUS
<1> USE DEF IInv
<1>1. ASSUME NEW c \in Clients, FailUnenqueued(c) PROVE FALSE
  <2>1. target[c] \in Tasks
    BY <1>1 DEF FailUnenqueued, TargetInv, Involved
  <2>2. QED
    BY <1>1, <2>1, SetStatusFacts
       DEF FailUnenqueued, Statuses, TERMINAL_STATES, ABORT_STATES, FAILURE, ABORTING, ABORTED
<1>2. ASSUME NEW u \in Tasks, Start(u) PROVE FALSE
  BY <1>2, SetStatusFacts
     DEF Start, Statuses, ACTIVE_STATES, ABORT_STATES, IN_PROGRESS, ABORTING, ABORTED
<1>3. ASSUME NEW u \in Tasks, Finish(u) PROVE FALSE
  BY <1>3, SetStatusFacts
     DEF Finish, Statuses, TERMINAL_STATES, ABORT_STATES, SUCCESS, ABORTING, ABORTED
<1>4. ASSUME NEW c \in Clients, Decide(c) PROVE Watchers(t)' = {}
  <2>1. pc[c] = "decide" /\ target' = target /\ target[c] \in Tasks
    BY <1>4 DEF Decide, TargetInv, Involved
  <2>2. Abort(c)
    BY <1>4 DEF Decide, Detach, Unsubscribe, RefuseAbort
  <2>3. t = target[c]
    BY <2>1, <2>2, SetStatusFacts DEF Abort, Statuses, TERMINAL_STATES, ACTIVE_STATES
  <2>4. pc' = [pc EXCEPT ![c] = "left"] /\ DOMAIN pc = Clients
    BY <2>2 DEF Abort, Goto, TypeOK
  <2>5. SUFFICES ASSUME NEW d \in Clients, target'[d] = t, pc'[d] \in Watching PROVE FALSE
    BY DEF Watchers, Watching
  <2>6. d # c /\ pc[d] \in Watching /\ target[d] = target[c]
    BY <2>1, <2>3, <2>4, <2>5 DEF Watching
  <2>7. d \in properties[t].consumers /\ {Owner[c], Owner[d]} \subseteq subscribers[t]
    BY <2>1, <2>3, <2>6 DEF RecordInv, Watching
  <2>8. Owner[c] = Owner[d]
    BY <2>2, <2>3, <2>7, LastOne DEF Abort
  <2>9. QED
    BY <2>2, <2>3, <2>6, <2>7, <2>8 DEF Abort, OtherTabs
<1>5. ASSUME status' = status PROVE FALSE
  BY <1>5
<1>6. QED
  BY <1>1, <1>2, <1>3, <1>4, <1>5
     DEF Next, Submitting, Cancelling, Executing, Submit, Find, Join, Insert, Reread,
         ReleaseLock, Enqueue, EnqueueFails, Cancel, Validate, WriteProperties, Expire,
         vars, rows

\* Under the lock, a task is only aborted when its last watcher cancels it.
THEOREM AbortsSpareWatchers == Spec => AbortSparesWatchers
BY Invariance, AbortStep, PTL DEF Spec, AbortSparesWatchers

=============================================================================
