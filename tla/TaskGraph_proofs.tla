-------------------------- MODULE TaskGraph_proofs --------------------------
(***************************************************************************)
(* The safety theorems of TaskGraph, for any set of tasks, inline or not,  *)
(* any number of workers, crashes, cancels and timeouts, and pruning at     *)
(* any moment.                                                             *)
(***************************************************************************)
EXTENDS TaskGraph, FiniteSetTheorems, TLAPS

\* What an executor may have loaded: the statuses of some tasks.
Seen == UNION {[P -> Statuses] : P \in SUBSET Tasks}

\* The records that describe an executor.
Jobs == [pc : Pcs, seen : Seen, todo : SUBSET Tasks, on : SUBSET Tasks,
         outcome : Outcomes]

\* The part of TypeOK that the steps need.
Typed ==
  /\ rows \subseteq Tasks
  /\ status \in [Tasks -> Statuses]
  /\ declared \in [Tasks -> SUBSET Tasks]
  /\ job \in [Tasks -> Jobs]
  /\ aborts \in [Tasks -> SUBSET ABORT_STATES]
  /\ undone \in [Tasks -> SUBSET Tasks]

\* Who is about to commit knows what.
EndingOf(t) == job[t].pc = "ending" => job[t].outcome # ""

EndingInv == \A t \in Tasks : EndingOf(t)

\* A task that is not submitted has no row, and nobody refers to it or has
\* asked for its end.
NewInv ==
  \A t \in Tasks : job[t].pc = "new" =>
    /\ t \notin rows /\ status[t] = PENDING /\ aborts[t] = {}
    /\ \A u \in Tasks : t \notin declared[u]

\* The edges are the declared dependencies among the rows there are.
EdgeInv ==
  /\ edges \subseteq rows \X rows
  /\ \A t, p \in rows : p \in declared[t] <=> <<t, p>> \in edges

\* The success of p that the executor of t has seen stands, or was overwritten
\* since then.
Kept(t, p) == status[p] = SUCCESS \/ p \in undone[t]

Passed(t) == \A p \in declared[t] \cap rows : Kept(t, p)

\* At the gate an executor has overlooked no prerequisite whose row exists,
\* and has passed only those that had succeeded.
GateOf(t) ==
  job[t].pc \in {"gate", "wait"} =>
    \A p \in declared[t] \cap rows :
      /\ p \in DOMAIN job[t].seen
      /\ job[t].seen[p] = SUCCESS => Kept(t, p)
      /\ job[t].pc = "gate" /\ p \notin job[t].todo => Kept(t, p)

GateInv == \A t \in Tasks : GateOf(t)

Late == {"claimed", "running", "ending", "dead", "returned"}

\* The body of a task has begun, as its row, its executor, or a cancel that
\* has read the row says.
Started(t) ==
  \/ status[t] \in Begun
  \/ ABORTING \in aborts[t]
  \/ job[t].pc \in {"claimed", "running", "ending"}

\* It begins only behind the gate.
BegunOf(t) == Started(t) => job[t].pc \in Late /\ Passed(t)

BegunInv == \A t \in Tasks : BegunOf(t)

IInv == Typed /\ EndingInv /\ NewInv /\ EdgeInv /\ GateInv /\ BegunInv

\* Nothing has been submitted at first.
LEMMA InitIInv == Init => IInv
<1> SUFFICES ASSUME Init PROVE IInv
  OBVIOUS
<1> USE DEF Init, Blank
<1>1. [p \in {} |-> PENDING] \in Seen
  BY DEF Seen
<1>2. Typed
  BY <1>1 DEF Typed, Jobs, Pcs, Outcomes, Statuses, ACTIVE_STATES
<1>3. NewInv /\ EdgeInv
  BY DEF NewInv, EdgeInv
<1>4. GateInv /\ EndingInv
  BY DEF GateInv, GateOf, EndingInv, EndingOf
<1>5. BegunInv
  BY DEF BegunInv, BegunOf, Started, Begun, PENDING, IN_PROGRESS, ABORTING,
         SUCCESS, TIMED_OUT
<1>6. QED
  BY <1>2, <1>3, <1>4, <1>5 DEF IInv

\* A compare-and-swap that expects no ended status changes no ended status,
\* and no other task's.
LEMMA CASFacts ==
  ASSUME Typed, NEW t \in Tasks, NEW from \in SUBSET ACTIVE_STATES,
         NEW to \in Statuses, CAS(t, from, to)
  PROVE  /\ status' \in [Tasks -> Statuses]
         /\ \A p \in Tasks : status[p] \in TERMINAL_STATES => status'[p] = status[p]
         /\ \A p \in Tasks \ {t} : status'[p] = status[p]
         /\ status'[t] # status[t] => t \in rows /\ status[t] \in from /\ status'[t] = to
BY DEF CAS, Typed, Statuses, ACTIVE_STATES, TERMINAL_STATES, PENDING, IN_PROGRESS,
       ABORTING, SUCCESS, FAILURE, ABORTED, TIMED_OUT

\* Executors that know nothing.
LEMMA BlankType ==
  ASSUME NEW pc \in Pcs PROVE Blank(pc) \in Jobs
<1>1. [p \in {} |-> PENDING] \in Seen
  BY DEF Seen
<1>2. QED
  BY <1>1 DEF Blank, Jobs, Outcomes

\* An executor that knows nothing has seen no prerequisite.
LEMMA BlankFields ==
  ASSUME NEW at
  PROVE  /\ Blank(at).pc = at /\ DOMAIN Blank(at).seen = {}
         /\ Blank(at).todo = {} /\ Blank(at).on = {}
<1>1. Blank(at).pc = at
  BY DEF Blank
<1>2. DOMAIN Blank(at).seen = {}
  BY DEF Blank
<1>3. Blank(at).todo = {}
  BY DEF Blank
<1>4. Blank(at).on = {}
  BY DEF Blank
<1>5. QED
  BY <1>1, <1>2, <1>3, <1>4

\* What is read of the prerequisites are statuses of tasks.
LEMMA SnapshotType ==
  ASSUME Typed, NEW t \in Tasks PROVE Snapshot(t) \in Seen
<1>1. Prerequisites(t) \in SUBSET Tasks
  BY DEF Prerequisites, Typed
<1>2. \A p \in Prerequisites(t) :
        (IF status[p] \in TERMINAL_STATES THEN status[p] ELSE PENDING) \in Statuses
  BY <1>1 DEF Typed, Statuses, ACTIVE_STATES
<1>3. Snapshot(t) \in [Prerequisites(t) -> Statuses]
  BY <1>2 DEF Snapshot
<1>4. QED
  BY <1>1, <1>3 DEF Seen

\* ... of tasks of the graph.
LEMMA SeenDomain ==
  ASSUME NEW s \in Seen PROVE DOMAIN s \in SUBSET Tasks
BY DEF Seen

\* An executor that has read is one.
LEMMA SeeType ==
  ASSUME Typed, NEW t \in Tasks, NEW s \in Seen, See(t, s)
  PROVE  job' \in [Tasks -> Jobs]
<1>1. Blank("gate") \in Jobs
  BY BlankType DEF Pcs
<1>2. [Blank("gate") EXCEPT !.seen = s, !.todo = DOMAIN s] \in Jobs
  BY <1>1, SeenDomain DEF Jobs
<1>3. QED
  BY <1>2 DEF See, Typed

\* So is one that leaves.
LEMMA LeaveType ==
  ASSUME Typed, NEW t \in Tasks, Leave(t)
  PROVE  job' \in [Tasks -> Jobs]
<1>1. Blank("returned") \in Jobs
  BY BlankType DEF Pcs
<1>2. QED
  BY <1>1 DEF Leave, Typed

\* Updates of two fields of a job.
LEMMA UpdateType ==
  ASSUME NEW j \in Jobs, NEW pc \in Pcs, NEW outcome \in Outcomes,
         NEW todo \in SUBSET Tasks, NEW on \in SUBSET Tasks
  PROVE  /\ [j EXCEPT !.pc = pc, !.todo = todo] \in Jobs
         /\ [j EXCEPT !.on = on, !.todo = todo] \in Jobs
         /\ [j EXCEPT !.pc = pc, !.outcome = outcome] \in Jobs
BY DEF Jobs

\* An executor that loads its task reads, and forgets.
LEMMA LoadType ==
  ASSUME Typed, NEW t \in Tasks, Load(t)
  PROVE  job' \in [Tasks -> Jobs] /\ undone' \in [Tasks -> SUBSET Tasks]
<1>1. Snapshot(t) \in Seen
  BY SnapshotType
<1>2. job' \in [Tasks -> Jobs]
  BY <1>1, SeeType DEF Load
<1>3. QED
  BY <1>2 DEF Load, Typed

\* An UPDATE by id writes one status; a dependent that has loaded the one it
\* replaces has it on its list.
LEMMA BlindType ==
  ASSUME Typed, NEW t \in Tasks, NEW to \in Statuses, BlindWrite(t, to)
  PROVE  /\ status' \in [Tasks -> Statuses]
         /\ undone' \in [Tasks -> SUBSET Tasks]
         /\ status'[t] = to /\ \A u \in Tasks \ {t} : status'[u] = status[u]
         /\ \A u \in Tasks : undone[u] \subseteq undone'[u]
         /\ status[t] = SUCCESS => \A u \in HaveLoaded(t) : t \in undone'[u]
<1>1. /\ status' \in [Tasks -> Statuses]
      /\ status'[t] = to /\ \A u \in Tasks \ {t} : status'[u] = status[u]
  BY DEF BlindWrite, Typed
<1>2. CASE status[t] # SUCCESS
  BY <1>1, <1>2 DEF BlindWrite, Typed
<1>3. CASE status[t] = SUCCESS
  <2>1. undone' = [u \in Tasks |-> IF u \in HaveLoaded(t)
                                   THEN undone[u] \cup {t} ELSE undone[u]]
    BY <1>3 DEF BlindWrite
  <2>2. HaveLoaded(t) \subseteq Tasks
    BY DEF HaveLoaded
  <2>3. QED
    BY <1>1, <2>1, <2>2 DEF Typed
<1>4. QED
  BY <1>2, <1>3

\* Every step keeps the types.
LEMMA TypedStep == Typed /\ EndingInv /\ [Next]_vars => Typed'
<1> SUFFICES ASSUME Typed, EndingInv, [Next]_vars PROVE Typed'
  OBVIOUS
<1> USE DEF ACTIVE_STATES, ABORTABLE_STATES, ABORT_STATES
<1>0. {PENDING, IN_PROGRESS, ABORTING, SUCCESS, FAILURE, ABORTED, TIMED_OUT}
        = Statuses
  BY DEF Statuses, TERMINAL_STATES
<1>1. ASSUME NEW t \in Tasks, Submit(t) PROVE Typed'
  <2>1. rows' \subseteq Tasks /\ UNCHANGED status
    BY <1>1 DEF Submit, Typed
  <2>2. declared' \in [Tasks -> SUBSET Tasks]
    BY <1>1 DEF Submit, Typed, Known
  <2>3. job' \in [Tasks -> Jobs]
    <3>1. \A j \in Jobs : [j EXCEPT !.pc = "start"] \in Jobs
      BY DEF Jobs, Pcs
    <3>2. QED
      BY <1>1, <3>1 DEF Submit, Goto, Typed
  <2>4. QED
    BY <1>1, <2>1, <2>2, <2>3 DEF Submit, Typed
<1>2. ASSUME NEW t \in Tasks, Start(t) PROVE Typed'
  <2>1. CASE Load(t) /\ UNCHANGED status
    BY <1>2, <2>1, LoadType DEF Start, Typed
  <2>2. CASE Leave(t) /\ CAS(t, {PENDING, ABORTING}, ABORTED) /\ UNCHANGED undone
    BY <1>2, <2>2, <1>0, LeaveType, CASFacts DEF Start, Typed
  <2>3. QED
    BY <1>2, <2>1, <2>2 DEF Start
<1>3. ASSUME NEW t \in Tasks, GatePasses(t) PROVE Typed'
  <2>1. PICK p \in job[t].todo : job' = [job EXCEPT ![t].todo = @ \ {p}]
    BY <1>3 DEF GatePasses
  <2>2. \A j \in Jobs : [j EXCEPT !.todo = @ \ {p}] \in Jobs
    BY DEF Jobs
  <2>3. job' \in [Tasks -> Jobs]
    BY <2>1, <2>2 DEF Typed
  <2>4. QED
    BY <1>3, <2>3 DEF GatePasses, Typed, table
<1>4. ASSUME NEW t \in Tasks, GateFails(t) PROVE Typed'
  BY <1>4, <1>0, LeaveType, CASFacts DEF GateFails, Typed
<1>5. ASSUME NEW t \in Tasks, Defer(t) PROVE Typed'
  <2>1. Blank("start") \in Jobs
    BY BlankType DEF Pcs
  <2>2. status' \in [Tasks -> Statuses]
    BY <1>5, <1>0, CASFacts DEF Defer, Typed
  <2>3. job' \in [Tasks -> Jobs]
    BY <1>5, <2>1, LeaveType DEF Defer, Typed
  <2>4. QED
    BY <1>5, <2>2, <2>3 DEF Defer, Typed
<1>6. ASSUME NEW t \in Tasks, Block(t) PROVE Typed'
  <2>1. {p \in DOMAIN job[t].seen : ~SeenEnded(t, p)} \in SUBSET Tasks
    BY SeenDomain DEF Typed, Jobs
  <2>2. QED
    <3>1. [job[t] EXCEPT !.pc = "wait",
                         !.todo = {p \in DOMAIN job[t].seen : ~SeenEnded(t, p)}]
            \in Jobs
      <4>1. job[t] \in Jobs
        BY DEF Typed
      <4>2. QED
        BY <2>1, <4>1, UpdateType DEF Pcs, Outcomes
    <3>2. QED
      BY <1>6, <3>1 DEF Block, Typed, table
<1>7. ASSUME NEW t \in Tasks, Wait(t) PROVE Typed'
  <2>1. CASE ReadAgain(t)
    <3>1. CASE Load(t)
      BY <1>7, <3>1, LoadType DEF Wait, Typed, table
    <3>2. CASE See(t, job[t].seen) /\ UNCHANGED undone
      <4>1. job[t].seen \in Seen
        BY DEF Typed, Jobs
      <4>2. QED
        BY <1>7, <3>2, <4>1, SeeType DEF Wait, Typed, table
    <3>3. QED
      BY <2>1, <3>1, <3>2 DEF ReadAgain
  <2>2. ASSUME NEW p \in rows,
               job' = [job EXCEPT ![t] = [@ EXCEPT !.on = {p}, !.todo = job[t].todo \ {p}]],
               UNCHANGED undone
        PROVE  Typed'
    <3>1. job[t] \in Jobs
      BY DEF Typed
    <3>2. job[t].todo \ {p} \in SUBSET Tasks /\ {p} \in SUBSET Tasks
      BY <3>1 DEF Jobs, Typed
    <3>3. [job[t] EXCEPT !.on = {p}, !.todo = job[t].todo \ {p}] \in Jobs
      BY <3>1, <3>2, UpdateType DEF Pcs, Outcomes
    <3>4. job' \in [Tasks -> Jobs]
      BY <2>2, <3>3 DEF Typed
    <3>5. QED
      BY <1>7, <2>2, <3>4 DEF Wait, Typed, table
  <2>3. CASE job' = [job EXCEPT ![t].on = {}] /\ UNCHANGED undone
    <3>1. \A j \in Jobs : [j EXCEPT !.on = {}] \in Jobs
      BY DEF Jobs
    <3>2. [job[t] EXCEPT !.on = {}] \in Jobs
      BY <3>1 DEF Typed
    <3>3. QED
      BY <1>7, <2>3, <3>2 DEF Wait, Typed, table
  <2>4. QED
    BY <1>7, <2>1, <2>2, <2>3 DEF Wait
<1>8. ASSUME NEW t \in Tasks, Claim(t) PROVE Typed'
  <2>1. Blank("claimed") \in Jobs
    BY BlankType DEF Pcs
  <2>2. job' \in [Tasks -> Jobs]
    BY <1>8, <2>1, LeaveType DEF Claim, Typed
  <2>3. QED
    BY <1>8, <1>0, <2>2, CASFacts DEF Claim, Typed
<1>9. ASSUME NEW t \in Tasks, BodyEnds(t) PROVE Typed'
  <2>1. PICK outcome \in {"returns", "raises", "aborts"} :
          job' = [job EXCEPT ![t] = [@ EXCEPT !.pc = "ending", !.outcome = outcome]]
    BY <1>9 DEF BodyEnds
  <2>2. [job[t] EXCEPT !.pc = "ending", !.outcome = outcome] \in Jobs
    <3>1. job[t] \in Jobs
      BY DEF Typed
    <3>2. QED
      BY <3>1, UpdateType DEF Pcs, Outcomes
  <2>3. QED
    BY <1>9, <2>1, <2>2 DEF BodyEnds, Typed, table
<1>10. ASSUME NEW t \in Tasks, Commit(t) PROVE Typed'
  <2>1. status' \in [Tasks -> Statuses]
    <3>1. CASE job[t].outcome = "returns"
      BY <1>10, <1>0, <3>1, CASFacts DEF Commit
    <3>2. CASE job[t].outcome = "raises"
      BY <1>10, <1>0, <3>2, CASFacts DEF Commit
    <3>3. CASE job[t].outcome = "aborts"
      BY <1>10, <1>0, <3>3, CASFacts DEF Commit
    <3>4. QED
      BY <1>10, <3>1, <3>2, <3>3 DEF Commit, Typed, Jobs, Outcomes, EndingInv, EndingOf
  <2>2. QED
    BY <1>10, <2>1, LeaveType DEF Commit, Typed
<1>11. ASSUME NEW t \in Tasks, Cancel(t) \/ TimeOut(t) PROVE Typed'
  <2>1. PICK to \in ABORT_STATES : Request(t, to)
    BY <1>11 DEF Cancel, TimeOut
  <2>2. QED
    BY <2>1 DEF Request, Typed, table
<1>12. ASSUME NEW t \in Tasks, Crash(t) PROVE Typed'
  <2>1. Blank("dead") \in Jobs
    BY BlankType DEF Pcs
  <2>2. QED
    BY <1>12, <2>1 DEF Crash, Typed, table
<1>13. ASSUME NEW t \in Tasks, Reap(t) PROVE Typed'
  BY <1>13, <1>0, CASFacts DEF Reap, Typed
<1>14. ASSUME NEW t \in Tasks, Prune(t) PROVE Typed'
  BY <1>14 DEF Prune, Typed
<1>15. ASSUME NEW t \in Tasks, BuildContext(t) PROVE Typed'
  <2>1. CASE BlindWrite(t, IN_PROGRESS) /\ Goto(t, "running")
    <3>1. \A j \in Jobs : [j EXCEPT !.pc = "running"] \in Jobs
      BY DEF Jobs, Pcs
    <3>2. QED
      BY <1>15, <2>1, <3>1, <1>0, BlindType DEF BuildContext, Goto, Typed
  <2>2. CASE Leave(t) /\ UNCHANGED <<status, undone>>
    BY <1>15, <2>2, LeaveType DEF BuildContext, Typed
  <2>3. QED
    BY <1>15, <2>1, <2>2 DEF BuildContext
<1>16. ASSUME NEW t \in Tasks, WriteAbort(t) PROVE Typed'
  <2>1. PICK to \in aborts[t] :
          /\ aborts' = [aborts EXCEPT ![t] = @ \ {to}]
          /\ IF t \in rows THEN BlindWrite(t, to) ELSE UNCHANGED <<status, undone>>
    BY <1>16 DEF WriteAbort
  <2>2. to \in ABORT_STATES /\ aborts' \in [Tasks -> SUBSET ABORT_STATES]
    BY <2>1 DEF Typed
  <2>3. to \in Statuses
    BY <2>2, <1>0
  <2>4. QED
    BY <1>16, <2>1, <2>2, <2>3, BlindType DEF WriteAbort, Typed
<1>17. CASE UNCHANGED vars
  BY <1>17 DEF vars, Typed
<1>18. QED
  BY <1>1, <1>2, <1>3, <1>4, <1>5, <1>6, <1>7, <1>8, <1>9, <1>10, <1>11, <1>12,
     <1>13, <1>14, <1>15, <1>16, <1>17 DEF Next, Execute

----------------------------------------------------------------------------
\* A step that concerns one submitted task: it overwrites no success that a
\* dependent has loaded without putting it on the dependent's list.
Touches(t) ==
  /\ rows' = rows /\ edges' = edges /\ declared' = declared
  /\ \A u \in Tasks \ {t} :
       /\ status'[u] = status[u] /\ job'[u] = job[u] /\ aborts'[u] = aborts[u]
       /\ undone[u] \subseteq undone'[u]
  /\ status[t] = SUCCESS /\ status'[t] # SUCCESS =>
       \A u \in HaveLoaded(t) : t \in undone'[u]
  /\ job[t].pc # "new" /\ job'[t].pc # "new"

\* What an executor has seen succeed stays so, but for such an overwriting.
LEMMA KeptStays ==
  ASSUME Typed, NEW t \in Tasks, Touches(t), NEW u \in Tasks,
         job[u].pc \notin {"new", "start"}, undone[u] \subseteq undone'[u],
         NEW p \in declared[u], Kept(u, p)
  PROVE  Kept(u, p)'
<1>1. p \in Tasks
  BY DEF Typed
<1>2. CASE p \in undone[u]
  BY <1>2 DEF Kept
<1>3. CASE status[p] = SUCCESS /\ p # t
  BY <1>1, <1>3 DEF Kept, Touches
<1>4. CASE status[p] = SUCCESS /\ p = t
  <2>1. u \in HaveLoaded(t)
    BY <1>4 DEF HaveLoaded
  <2>2. QED
    BY <1>4, <2>1 DEF Kept, Touches
<1>5. QED
  BY <1>2, <1>3, <1>4 DEF Kept

\* So an executor that does nothing is still right about its prerequisites.
LEMMA GateStays ==
  ASSUME IInv, NEW t \in Tasks, Touches(t), NEW u \in Tasks,
         job'[u] = job[u], undone[u] \subseteq undone'[u]
  PROVE  GateOf(u)' /\ EndingOf(u)'
<1>1. Typed /\ GateOf(u) /\ EndingOf(u)
  BY DEF IInv, GateInv, EndingInv
<1>2. rows' = rows /\ declared' = declared
  BY DEF Touches
<1>3. job[u].pc \in {"gate", "wait"} =>
        \A p \in declared[u] : Kept(u, p) => Kept(u, p)'
  BY <1>1, KeptStays
<1>4. GateOf(u)'
  BY <1>1, <1>2, <1>3 DEF GateOf
<1>5. EndingOf(u)'
  BY <1>1 DEF EndingOf
<1>6. QED
  BY <1>4, <1>5

\* A task that had begun keeps what let it begin.
LEMMA BegunStays ==
  ASSUME IInv, NEW t \in Tasks, Touches(t), NEW u \in Tasks,
         Started(u)' => Started(u),
         Started(u) => undone[u] \subseteq undone'[u] /\ job'[u].pc \in Late
  PROVE  BegunOf(u)'
<1>1. Typed /\ BegunOf(u)
  BY DEF IInv, BegunInv
<1>2. rows' = rows /\ declared' = declared
  BY DEF Touches
<1>3. CASE Started(u)
  <2>1. job[u].pc \notin {"new", "start"} /\ Passed(u)
    BY <1>1, <1>3 DEF BegunOf, Late
  <2>2. \A p \in declared[u] : Kept(u, p) => Kept(u, p)'
    BY <1>1, <1>3, <2>1, KeptStays
  <2>3. Passed(u)'
    BY <1>2, <2>1, <2>2 DEF Passed
  <2>4. QED
    BY <1>3, <2>3 DEF BegunOf
<1>4. CASE ~Started(u)
  BY <1>4 DEF BegunOf
<1>5. QED
  BY <1>3, <1>4

\* Such a step can only disturb what is known of its own task.
LEMMA TouchKeeps ==
  ASSUME IInv, NEW t \in Tasks, Touches(t), GateOf(t)', EndingOf(t)', BegunOf(t)',
         Typed'
  PROVE  IInv'
<1>1. ASSUME NEW u \in Tasks \ {t}
      PROVE  GateOf(u)' /\ EndingOf(u)' /\ BegunOf(u)'
  <2>1. /\ status'[u] = status[u] /\ job'[u] = job[u] /\ aborts'[u] = aborts[u]
        /\ undone[u] \subseteq undone'[u]
    BY DEF Touches
  <2>2. Started(u)' <=> Started(u)
    BY <2>1 DEF Started
  <2>3. Started(u) => job'[u].pc \in Late
    BY <2>1 DEF IInv, BegunInv, BegunOf
  <2>4. QED
    BY <2>1, <2>2, <2>3, GateStays, BegunStays
<1>2. GateInv' /\ EndingInv' /\ BegunInv'
  BY <1>1 DEF GateInv, EndingInv, BegunInv
<1>3. NewInv'
  BY DEF IInv, NewInv, Touches
<1>4. EdgeInv'
  BY DEF IInv, EdgeInv, Touches
<1>5. QED
  BY <1>2, <1>3, <1>4 DEF IInv

\* An executor that has left the gate has nothing to remember of it.
LEMMA BlankGate ==
  ASSUME NEW t \in Tasks, NEW at \in Pcs \ {"gate", "wait", "ending"},
         job'[t] = Blank(at)
  PROVE  GateOf(t)' /\ EndingOf(t)' /\ job'[t].pc = at
<1>1. job'[t].pc = at
  BY BlankFields
<1>2. QED
  BY <1>1 DEF GateOf, EndingOf

\* A compare-and-swap that expects no ended status overwrites no success.
LEMMA CASTouches ==
  ASSUME IInv, NEW t \in Tasks, NEW from \in SUBSET ACTIVE_STATES,
         NEW to \in Statuses, CAS(t, from, to),
         UNCHANGED <<rows, edges, declared, aborts, undone>>,
         \A u \in Tasks \ {t} : job'[u] = job[u],
         job[t].pc # "new", job'[t].pc # "new"
  PROVE  Touches(t)
<1>1. /\ status[t] \in TERMINAL_STATES => status'[t] = status[t]
      /\ \A u \in Tasks \ {t} : status'[u] = status[u]
  BY CASFacts DEF IInv
<1>2. status[t] = SUCCESS => status'[t] = SUCCESS
  BY <1>1 DEF TERMINAL_STATES
<1>3. QED
  BY <1>1, <1>2 DEF Touches

\* Nor does a step that changes no status.
LEMMA LookTouches ==
  ASSUME NEW t \in Tasks, UNCHANGED table,
         \A u \in Tasks \ {t} :
           job'[u] = job[u] /\ aborts'[u] = aborts[u] /\ undone'[u] = undone[u],
         job[t].pc # "new", job'[t].pc # "new"
  PROVE  Touches(t)
BY DEF Touches, table

\* One job is replaced, the others are not.
LEMMA OtherJobs ==
  ASSUME Typed, NEW t \in Tasks, NEW j, job' = [job EXCEPT ![t] = j]
  PROVE  job'[t] = j /\ \A u \in Tasks \ {t} : job'[u] = job[u]
BY DEF Typed

\* Before the claim, a step that does not claim does not make the task begin.
LEMMA EarlyStep ==
  ASSUME IInv, NEW t \in Tasks, job[t].pc \in {"start", "gate", "wait"},
         job'[t].pc \in {"start", "gate", "wait", "returned"},
         aborts'[t] = aborts[t], status'[t] \in {status[t], FAILURE, ABORTED}
  PROVE  BegunOf(t)'
<1>1. ~Started(t)
  BY DEF IInv, BegunInv, BegunOf, Late
<1>2. FAILURE \notin Begun /\ ABORTED \notin Begun
  BY DEF Begun, PENDING, IN_PROGRESS, ABORTING, SUCCESS, FAILURE, ABORTED, TIMED_OUT
<1>3. ~Started(t)'
  BY <1>1, <1>2 DEF Started
<1>4. QED
  BY <1>3 DEF BegunOf

\* What a step of one task's executor, of a cancel, of a timeout or of the
\* reaper leaves.
Right(t) == Touches(t) /\ GateOf(t)' /\ EndingOf(t)' /\ BegunOf(t)'

\* An executor that ends its task without having begun it.
LEMMA GivesUp ==
  ASSUME IInv, NEW t \in Tasks, job[t].pc \in {"start", "gate", "wait"},
         NEW from \in SUBSET ACTIVE_STATES, NEW to \in {FAILURE, ABORTED},
         CAS(t, from, to), NEW at \in {"start", "returned"},
         job' = [job EXCEPT ![t] = Blank(at)],
         UNCHANGED <<rows, edges, declared, aborts, undone>>
  PROVE  Right(t)
<1>1. to \in Statuses
  BY DEF Statuses, TERMINAL_STATES
<1>2. job'[t] = Blank(at) /\ \A u \in Tasks \ {t} : job'[u] = job[u]
  BY OtherJobs DEF IInv
<1>3. GateOf(t)' /\ EndingOf(t)' /\ job'[t].pc = at
  BY <1>2, BlankGate DEF Pcs
<1>4. Touches(t)
  BY <1>1, <1>2, <1>3, CASTouches
<1>5. status'[t] \in {status[t], FAILURE, ABORTED}
  BY <1>1, CASFacts DEF IInv
<1>6. BegunOf(t)'
  BY <1>3, <1>5, EarlyStep
<1>7. QED
  BY <1>3, <1>4, <1>6 DEF Right

\* What is read of the prerequisites is true, and it is all of them.
LEMMA LoadRight ==
  ASSUME IInv, NEW t \in Tasks, t \in rows, job[t].pc \in {"start", "wait"}, Load(t),
         UNCHANGED table, UNCHANGED aborts
  PROVE  Right(t)
<1> DEFINE seen == Snapshot(t)
           next == [Blank("gate") EXCEPT !.seen = seen, !.todo = DOMAIN seen]
<1>1. next.pc = "gate" /\ next.seen = seen /\ next.todo = DOMAIN seen
  BY DEF Blank
<1>2. job' = [job EXCEPT ![t] = next] /\ undone' = [undone EXCEPT ![t] = {}]
  BY DEF Load, See
<1>3. DOMAIN seen = Prerequisites(t)
  BY DEF Snapshot
<1>4. \A p \in DOMAIN seen : seen[p] = SUCCESS => status[p] = SUCCESS
  BY DEF Snapshot, TERMINAL_STATES, PENDING, SUCCESS, FAILURE, ABORTED, TIMED_OUT
<1>5. declared[t] \cap rows \subseteq DOMAIN seen
  BY <1>3 DEF Prerequisites, IInv, EdgeInv
<1>6. rows' = rows /\ status' = status /\ declared' = declared
  BY DEF table
<1> HIDE DEF seen, next
<1>7. job'[t] = next /\ \A u \in Tasks \ {t} : job'[u] = job[u]
  BY <1>2, OtherJobs DEF IInv
<1>8. GateOf(t)'
  BY <1>1, <1>4, <1>5, <1>6, <1>7 DEF GateOf, Kept
<1>9. Touches(t)
  <2>1. \A u \in Tasks \ {t} : undone'[u] = undone[u]
    BY <1>2 DEF IInv, Typed
  <2>2. QED
    BY <1>1, <1>7, <2>1, LookTouches
<1>10. EndingOf(t)' /\ BegunOf(t)'
  BY <1>1, <1>6, <1>7, EarlyStep DEF EndingOf
<1>11. QED
  BY <1>8, <1>9, <1>10 DEF Right

\* An executor that goes on with what it has read before, and has at the gate
\* passed no other prerequisite than one that has succeeded.
LEMMA SameSeen ==
  ASSUME IInv, NEW t \in Tasks, UNCHANGED table, UNCHANGED <<aborts, undone>>,
         job[t].pc \in {"gate", "wait"}, job'[t].pc \in {"gate", "wait"},
         \A u \in Tasks \ {t} : job'[u] = job[u],
         job'[t].seen = job[t].seen,
         job'[t].pc = "gate" =>
           \A p \in declared[t] \cap rows :
             p \notin job'[t].todo =>
               (p \notin job[t].todo /\ job[t].pc = "gate") \/ Kept(t, p)
  PROVE  Right(t)
<1>1. GateOf(t)
  BY DEF IInv, GateInv
<1>2. rows' = rows /\ status' = status /\ declared' = declared
  BY DEF table
<1>3. GateOf(t)'
  BY <1>1, <1>2 DEF GateOf, Kept
<1>4. Touches(t)
  BY LookTouches
<1>5. EndingOf(t)' /\ BegunOf(t)'
  BY <1>2, EarlyStep DEF EndingOf
<1>6. QED
  BY <1>3, <1>4, <1>5 DEF Right

\* The steps up to the claim.
LEMMA GateStep ==
  ASSUME IInv, NEW t \in Tasks,
         \/ Start(t) \/ GatePasses(t) \/ GateFails(t) \/ Defer(t)
         \/ Block(t) \/ Wait(t)
  PROVE  Right(t)
<1>0. {PENDING, ABORTING} \in SUBSET ACTIVE_STATES
  BY DEF ACTIVE_STATES
<1>b. Typed
  BY DEF IInv
<1>1. CASE Start(t)
  <2>1. CASE t \in rows /\ Load(t) /\ UNCHANGED status
    BY <1>1, <2>1, LoadRight DEF Start, table
  <2>2. CASE Leave(t) /\ CAS(t, {PENDING, ABORTING}, ABORTED) /\ UNCHANGED undone
    BY <1>0, <1>1, <2>2, GivesUp DEF Start, Leave
  <2>3. QED
    BY <1>1, <2>1, <2>2 DEF Start
<1>2. CASE GatePasses(t)
  <2>1. PICK p \in job[t].todo :
          /\ ~Missing(t, p) /\ Passes(Current(t, p))
          /\ job' = [job EXCEPT ![t].todo = @ \ {p}]
    BY <1>2 DEF GatePasses
  <2>2. job[t].pc = "gate" /\ UNCHANGED table /\ UNCHANGED <<aborts, undone>>
    BY <1>2 DEF GatePasses
  <2>3. /\ job'[t].pc = "gate" /\ job'[t].seen = job[t].seen
        /\ job'[t].todo = job[t].todo \ {p}
        /\ \A u \in Tasks \ {t} : job'[u] = job[u]
    BY <2>1, <2>2, <1>b DEF Typed, Jobs
  <2>4. p \in declared[t] \cap rows => Kept(t, p)
    <3>1. GateOf(t)
      BY DEF IInv, GateInv
    <3>2. QED
      BY <2>1, <2>2, <3>1 DEF GateOf, Passes, Current, SeenEnded, Kept
  <2>5. QED
    BY <2>2, <2>3, <2>4, SameSeen
<1>3. CASE GateFails(t)
  BY <1>0, <1>3, GivesUp DEF GateFails, Leave
<1>4. CASE Defer(t)
  <2>1. /\ job[t].pc = "gate"
        /\ UNCHANGED <<rows, edges, declared, aborts, undone>>
    BY <1>4 DEF Defer, GateWaits
  <2>2. CASE job' = [job EXCEPT ![t] = Blank("start")] /\ UNCHANGED status
    <3>1. CAS(t, {}, FAILURE)
      BY <2>2 DEF CAS
    <3>2. QED
      BY <2>1, <2>2, <3>1, GivesUp
  <2>3. CASE CAS(t, {PENDING, ABORTING}, FAILURE)
    BY <1>0, <1>4, <2>1, <2>3, GivesUp DEF Defer, Leave
  <2>4. QED
    BY <1>4, <2>2, <2>3 DEF Defer
<1>5. CASE Block(t)
  <2>1. UNCHANGED table /\ UNCHANGED <<aborts, undone>> /\ job[t].pc = "gate"
    BY <1>5 DEF Block, GateWaits
  <2>2. /\ job'[t].pc = "wait" /\ job'[t].seen = job[t].seen
        /\ \A u \in Tasks \ {t} : job'[u] = job[u]
    BY <1>5, <1>b DEF Block, Typed, Jobs
  <2>3. QED
    BY <2>1, <2>2, SameSeen
<1>6. CASE Wait(t)
  <2>1. UNCHANGED table /\ UNCHANGED aborts /\ job[t].pc = "wait"
    BY <1>6 DEF Wait
  <2>2. CASE t \in rows /\ Load(t)
    BY <2>1, <2>2, LoadRight
  <2>3. CASE See(t, job[t].seen) /\ UNCHANGED undone
    <3> DEFINE seen == job[t].seen
               next == [Blank("gate") EXCEPT !.seen = seen, !.todo = DOMAIN seen]
    <3>1. next.pc = "gate" /\ next.seen = seen /\ next.todo = DOMAIN seen
      BY DEF Blank
    <3>2. job' = [job EXCEPT ![t] = next]
      BY <2>3 DEF See
    <3> HIDE DEF next
    <3>3. job'[t] = next /\ \A u \in Tasks \ {t} : job'[u] = job[u]
      BY <1>b, <3>2, OtherJobs
    <3>4. declared[t] \cap rows \subseteq DOMAIN seen
      BY <2>1 DEF IInv, GateInv, GateOf
    <3>5. QED
      BY <2>1, <2>3, <3>1, <3>3, <3>4, SameSeen
  <2>4. CASE /\ job'[t].pc = "wait" /\ job'[t].seen = job[t].seen
             /\ \A u \in Tasks \ {t} : job'[u] = job[u]
             /\ UNCHANGED undone
    BY <2>1, <2>4, SameSeen
  <2>5. ASSUME NEW p \in rows, UNCHANGED undone,
               job' = [job EXCEPT ![t] =
                         [@ EXCEPT !.on = {p}, !.todo = job[t].todo \ {p}]]
        PROVE  Right(t)
    <3> DEFINE next == [job[t] EXCEPT !.on = {p}, !.todo = job[t].todo \ {p}]
    <3>1. next.pc = job[t].pc /\ next.seen = job[t].seen
      BY <1>b DEF Typed, Jobs
    <3>2. job' = [job EXCEPT ![t] = next]
      BY <2>5
    <3> HIDE DEF next
    <3>3. job'[t] = next /\ \A u \in Tasks \ {t} : job'[u] = job[u]
      BY <1>b, <3>2, OtherJobs
    <3>4. QED
      BY <2>1, <2>4, <2>5, <3>1, <3>3
  <2>6. CASE job' = [job EXCEPT ![t].on = {}] /\ UNCHANGED undone
    BY <2>1, <2>4, <2>6, <1>b DEF Typed, Jobs
  <2>7. QED
    BY <1>6, <2>2, <2>3, <2>5, <2>6 DEF Wait, ReadAgain
<1>7. QED
  BY <1>1, <1>2, <1>3, <1>4, <1>5, <1>6

\* The claim is what makes a task begin: behind the gate.
LEMMA ClaimStep ==
  ASSUME IInv, NEW t \in Tasks, Claim(t)
  PROVE  Right(t)
<1>1. /\ job[t].pc = "gate" /\ job[t].todo = {} /\ CAS(t, {PENDING}, IN_PROGRESS)
      /\ UNCHANGED <<rows, edges, declared, aborts, undone>>
  BY DEF Claim
<1>2. {PENDING} \in SUBSET ACTIVE_STATES /\ IN_PROGRESS \in Statuses
  BY DEF ACTIVE_STATES, Statuses
<1>3. PICK at \in {"claimed", "returned"} :
        /\ job' = [job EXCEPT ![t] = Blank(at)]
        /\ status'[t] = status[t] \/ at = "claimed"
  BY CASFacts, <1>1, <1>2 DEF Claim, Leave, IInv
<1>4. job'[t] = Blank(at) /\ \A u \in Tasks \ {t} : job'[u] = job[u]
  BY <1>3, OtherJobs DEF IInv
<1>5. GateOf(t)' /\ EndingOf(t)' /\ job'[t].pc = at
  BY <1>4, BlankGate DEF Pcs
<1>6. Touches(t)
  BY <1>1, <1>2, <1>4, <1>5, CASTouches
<1>7. BegunOf(t)'
  <2>1. CASE at = "claimed"
    <3>1. Passed(t)
      BY <1>1 DEF IInv, GateInv, GateOf, Passed
    <3>2. Typed /\ \A p \in declared[t] : Kept(t, p) => Kept(t, p)'
      BY <1>1, <1>6, KeptStays DEF IInv
    <3>3. Passed(t)'
      BY <1>1, <3>1, <3>2 DEF Passed
    <3>4. QED
      BY <1>5, <2>1, <3>3 DEF BegunOf, Late
  <2>2. CASE at = "returned" /\ status'[t] = status[t]
    BY <1>1, <1>5, <2>2, EarlyStep
  <2>3. QED
    BY <1>3, <2>1, <2>2
<1>8. QED
  BY <1>5, <1>6, <1>7 DEF Right

\* After the claim, whatever an executor does, its task had begun.
LEMMA LateStep ==
  ASSUME IInv, NEW t \in Tasks, job[t].pc \in {"claimed", "running", "ending"},
         Touches(t), job'[t].pc \in Late, undone[t] \subseteq undone'[t],
         EndingOf(t)'
  PROVE  Right(t)
<1>1. Started(t)
  BY DEF Started
<1>2. BegunOf(t)'
  BY <1>1, BegunStays
<1>3. GateOf(t)'
  BY DEF GateOf, Late
<1>4. QED
  BY <1>2, <1>3 DEF Right

\* The steps after it.
LEMMA BodyStep ==
  ASSUME IInv, NEW t \in Tasks,
         BuildContext(t) \/ BodyEnds(t) \/ Commit(t) \/ Crash(t)
  PROVE  Right(t)
<1>0. {PENDING, IN_PROGRESS, ABORTING, SUCCESS, FAILURE, ABORTED, TIMED_OUT}
        = Statuses
  BY DEF Statuses, TERMINAL_STATES, ACTIVE_STATES
<1>b. Typed
  BY DEF IInv
<1>c. ASSUME NEW at \in {"dead", "returned"}, job' = [job EXCEPT ![t] = Blank(at)]
      PROVE  /\ job'[t].pc = at /\ EndingOf(t)'
             /\ \A u \in Tasks \ {t} : job'[u] = job[u]
  <2>1. job'[t] = Blank(at) /\ \A u \in Tasks \ {t} : job'[u] = job[u]
    BY <1>b, <1>c, OtherJobs
  <2>2. QED
    BY <2>1, BlankGate DEF Pcs
<1>1. CASE BuildContext(t)
  <2>1. job[t].pc = "claimed" /\ UNCHANGED <<rows, edges, declared, aborts>>
    BY <1>1 DEF BuildContext
  <2>2. CASE BlindWrite(t, IN_PROGRESS) /\ Goto(t, "running")
    <3>1. /\ \A u \in Tasks \ {t} : status'[u] = status[u]
          /\ \A u \in Tasks : undone[u] \subseteq undone'[u]
          /\ status[t] = SUCCESS => \A u \in HaveLoaded(t) : t \in undone'[u]
      BY <1>0, <1>b, <2>2, BlindType
    <3>2. job'[t].pc = "running" /\ \A u \in Tasks \ {t} : job'[u] = job[u]
      BY <1>b, <2>2 DEF Goto, Typed, Jobs
    <3>3. Touches(t)
      BY <2>1, <3>1, <3>2 DEF Touches
    <3>4. QED
      BY <2>1, <3>1, <3>2, <3>3, LateStep DEF Late, EndingOf
  <2>3. CASE Leave(t) /\ UNCHANGED <<status, undone>>
    <3>1. /\ job'[t].pc = "returned" /\ EndingOf(t)'
          /\ \A u \in Tasks \ {t} : job'[u] = job[u]
      BY <1>c, <2>3 DEF Leave
    <3>2. Touches(t)
      BY <2>1, <2>3, <3>1, LookTouches DEF table
    <3>3. QED
      BY <2>1, <2>3, <3>1, <3>2, LateStep DEF Late
  <2>4. QED
    BY <1>1, <2>2, <2>3 DEF BuildContext
<1>2. CASE BodyEnds(t)
  <2>1. PICK outcome \in {"returns", "raises", "aborts"} :
          job' = [job EXCEPT ![t] = [@ EXCEPT !.pc = "ending", !.outcome = outcome]]
    BY <1>2 DEF BodyEnds
  <2>2. job[t].pc = "running" /\ UNCHANGED table /\ UNCHANGED <<aborts, undone>>
    BY <1>2 DEF BodyEnds
  <2>3. /\ job'[t].pc = "ending" /\ job'[t].outcome = outcome
        /\ \A u \in Tasks \ {t} : job'[u] = job[u]
    BY <1>b, <2>1 DEF Typed, Jobs
  <2>4. Touches(t)
    BY <2>2, <2>3, LookTouches
  <2>5. QED
    BY <2>2, <2>3, <2>4, LateStep DEF Late, EndingOf
<1>3. CASE Commit(t)
  <2>1. /\ job[t].pc = "ending" /\ job' = [job EXCEPT ![t] = Blank("returned")]
        /\ UNCHANGED <<rows, edges, declared, aborts, undone>>
    BY <1>3 DEF Commit, Leave
  <2>2. /\ job'[t].pc = "returned" /\ EndingOf(t)'
        /\ \A u \in Tasks \ {t} : job'[u] = job[u]
    BY <1>c, <2>1
  <2>3. job[t].outcome \in {"returns", "raises", "aborts"}
    BY <2>1, <1>b DEF IInv, EndingInv, EndingOf, Typed, Jobs, Outcomes
  <2>4. \E from \in SUBSET ACTIVE_STATES, to \in Statuses : CAS(t, from, to)
    <3>1. /\ {IN_PROGRESS} \in SUBSET ACTIVE_STATES
          /\ {ABORTING} \in SUBSET ACTIVE_STATES
          /\ {IN_PROGRESS, ABORTING} \in SUBSET ACTIVE_STATES
      BY DEF ACTIVE_STATES
    <3>2. CASE job[t].outcome = "returns"
      BY <1>0, <1>3, <3>1, <3>2 DEF Commit
    <3>3. CASE job[t].outcome = "raises"
      BY <1>0, <1>3, <3>1, <3>3 DEF Commit
    <3>4. CASE job[t].outcome = "aborts"
      BY <1>0, <1>3, <3>1, <3>4 DEF Commit
    <3>5. QED
      BY <2>3, <3>2, <3>3, <3>4
  <2>5. Touches(t)
    BY <2>1, <2>2, <2>4, CASTouches
  <2>6. QED
    BY <2>1, <2>2, <2>5, LateStep DEF Late
<1>4. CASE Crash(t)
  <2>1. /\ job[t].pc \in {"claimed", "running", "ending"}
        /\ job' = [job EXCEPT ![t] = Blank("dead")]
        /\ UNCHANGED table /\ UNCHANGED <<aborts, undone>>
    BY <1>4 DEF Crash
  <2>2. /\ job'[t].pc = "dead" /\ EndingOf(t)'
        /\ \A u \in Tasks \ {t} : job'[u] = job[u]
    BY <1>c, <2>1
  <2>3. Touches(t)
    BY <2>1, <2>2, LookTouches
  <2>4. QED
    BY <2>1, <2>2, <2>3, LateStep DEF Late
<1>5. QED
  BY <1>1, <1>2, <1>3, <1>4

\* Cancels, timeouts and the reaper touch no executor, and what they write
\* they have read of a task that had begun, or it is an end.
LEMMA OutsideStep ==
  ASSUME IInv, NEW t \in Tasks,
         Cancel(t) \/ TimeOut(t) \/ WriteAbort(t) \/ Reap(t)
  PROVE  Right(t)
<1>0. {PENDING, IN_PROGRESS, ABORTING, SUCCESS, FAILURE, ABORTED, TIMED_OUT}
        = Statuses
  BY DEF Statuses, TERMINAL_STATES, ACTIVE_STATES
<1>a. FAILURE \notin Begun /\ ABORTED \notin Begun
  BY DEF Begun, PENDING, IN_PROGRESS, ABORTING, SUCCESS, FAILURE, ABORTED, TIMED_OUT
<1>b. Typed /\ BegunOf(t)
  BY DEF IInv, BegunInv
<1>c. ASSUME Touches(t), job' = job, undone[t] \subseteq undone'[t],
             Started(t)' => Started(t)
      PROVE  Right(t)
  <2>1. Started(t) => job'[t].pc \in Late
    BY <1>b, <1>c DEF BegunOf
  <2>2. BegunOf(t)'
    BY <1>c, <2>1, BegunStays
  <2>3. QED
    BY <1>c, <2>2, GateStays DEF Right
<1>1. ASSUME NEW to, Request(t, to), to = ABORTING => Started(t) PROVE Right(t)
  <2>1. /\ t \in rows /\ UNCHANGED table /\ job' = job /\ undone' = undone
        /\ aborts' = [aborts EXCEPT ![t] = @ \cup {to}]
    BY <1>1 DEF Request
  <2>2. /\ aborts'[t] = aborts[t] \cup {to}
        /\ \A u \in Tasks \ {t} : aborts'[u] = aborts[u]
    BY <1>b, <2>1 DEF Typed
  <2>3. job[t].pc # "new"
    BY <2>1 DEF IInv, NewInv
  <2>4. Touches(t)
    BY <2>1, <2>2, <2>3, LookTouches
  <2>5. Started(t)' => Started(t)
    BY <1>1, <2>1, <2>2 DEF Started, table
  <2>6. QED
    BY <1>c, <2>1, <2>4, <2>5
<1>2. CASE Cancel(t)
  <2>1. ABORTED # ABORTING /\ IN_PROGRESS \in Begun
    BY DEF Begun, ABORTED, ABORTING
  <2>2. QED
    BY <1>1, <1>2, <2>1 DEF Cancel, Started
<1>3. CASE TimeOut(t)
  BY <1>1, <1>3 DEF TimeOut, Started
<1>4. CASE WriteAbort(t)
  <2>1. PICK to \in aborts[t] :
          /\ aborts' = [aborts EXCEPT ![t] = @ \ {to}]
          /\ IF t \in rows THEN BlindWrite(t, to) ELSE UNCHANGED <<status, undone>>
    BY <1>4 DEF WriteAbort
  <2>2. UNCHANGED <<rows, edges, declared, job>>
    BY <1>4 DEF WriteAbort
  <2>3. /\ aborts'[t] \subseteq aborts[t]
        /\ \A u \in Tasks \ {t} : aborts'[u] = aborts[u]
    BY <1>b, <2>1 DEF Typed
  <2>4. job[t].pc # "new"
    BY <2>1 DEF IInv, NewInv
  <2>5. to \in {ABORTING, ABORTED} /\ to \in Statuses
    BY <1>0, <1>b DEF Typed, ABORT_STATES
  <2>6. CASE BlindWrite(t, to)
    <3>1. /\ status'[t] = to /\ \A u \in Tasks \ {t} : status'[u] = status[u]
          /\ \A u \in Tasks : undone[u] \subseteq undone'[u]
          /\ status[t] = SUCCESS => \A u \in HaveLoaded(t) : t \in undone'[u]
      BY <1>b, <2>5, <2>6, BlindType
    <3>2. Touches(t)
      BY <2>2, <2>3, <2>4, <3>1 DEF Touches
    <3>3. Started(t)' => Started(t)
      BY <1>a, <2>2, <2>3, <2>5, <3>1 DEF Started
    <3>4. QED
      BY <1>c, <2>2, <3>1, <3>2, <3>3
  <2>7. CASE UNCHANGED <<status, undone>>
    <3>1. Touches(t)
      BY <2>2, <2>3, <2>4, <2>7, LookTouches DEF table
    <3>2. Started(t)' => Started(t)
      BY <2>2, <2>3, <2>7 DEF Started
    <3>3. QED
      BY <1>c, <2>2, <2>7, <3>1, <3>2
  <2>8. QED
    BY <2>1, <2>6, <2>7
<1>5. CASE Reap(t)
  <2>1. /\ t \in rows /\ CAS(t, ACTIVE_STATES, FAILURE)
        /\ UNCHANGED <<rows, edges, declared, job, aborts, undone>>
    BY <1>5 DEF Reap
  <2>2. job[t].pc # "new"
    BY <2>1 DEF IInv, NewInv
  <2>3. Touches(t)
    BY <1>0, <2>1, <2>2, CASTouches
  <2>4. status'[t] \in {status[t], FAILURE}
    BY <1>0, <1>b, <2>1, CASFacts
  <2>5. Started(t)' => Started(t)
    BY <1>a, <2>1, <2>4 DEF Started
  <2>6. QED
    BY <1>c, <2>1, <2>3, <2>5
<1>6. QED
  BY <1>2, <1>3, <1>4, <1>5

\* Every step but submission and deletion is of that kind.
LEMMA StepRight ==
  ASSUME IInv, NEW t \in Tasks,
         \/ Start(t) \/ Execute(t) \/ Cancel(t) \/ TimeOut(t) \/ WriteAbort(t)
         \/ Crash(t) \/ Reap(t)
  PROVE  Right(t)
BY GateStep, ClaimStep, BodyStep, OutsideStep DEF Execute

----------------------------------------------------------------------------
\* A submission makes a row that nobody has referred to yet.
LEMMA SubmitKeeps ==
  ASSUME IInv, NEW t \in Tasks, Submit(t), Typed' PROVE IInv'
<1>1. PICK prerequisites \in SUBSET Known(t) :
        /\ declared' = [declared EXCEPT ![t] = prerequisites]
        /\ edges' = edges \cup ({t} \X prerequisites)
  BY DEF Submit
<1>2. /\ job[t].pc = "new" /\ rows' = rows \cup {t} /\ status' = status
      /\ t \notin rows /\ status[t] = PENDING /\ aborts[t] = {}
      /\ aborts' = aborts /\ undone' = undone
      /\ \A u \in Tasks : t \notin declared[u]
  BY DEF Submit, IInv, NewInv
<1>3. /\ declared'[t] = prerequisites
      /\ \A u \in Tasks \ {t} : declared'[u] = declared[u]
      /\ prerequisites \subseteq rows \ {t}
  BY <1>1 DEF IInv, Typed, Known
<1>4. /\ job'[t].pc = "start"
      /\ \A u \in Tasks \ {t} : job'[u] = job[u]
  BY DEF Submit, Goto, IInv, Typed, Jobs
<1>5. EndingInv'
  BY <1>4 DEF IInv, EndingInv, EndingOf
<1>6. NewInv'
  <2>1. SUFFICES ASSUME NEW u \in Tasks, job'[u].pc = "new"
                 PROVE  /\ u \notin rows' /\ status'[u] = PENDING /\ aborts'[u] = {}
                        /\ \A v \in Tasks : u \notin declared'[v]
    BY DEF NewInv
  <2>2. u # t /\ job[u].pc = "new"
    BY <1>4, <2>1
  <2>3. /\ u \notin rows /\ status[u] = PENDING /\ aborts[u] = {}
        /\ \A v \in Tasks : u \notin declared[v]
    BY <2>2 DEF IInv, NewInv
  <2>4. QED
    BY <1>2, <1>3, <2>2, <2>3
<1>7. EdgeInv'
  <2>1. edges \subseteq rows \X rows
    BY DEF IInv, EdgeInv
  <2>2. edges' \subseteq rows' \X rows'
    BY <1>1, <1>2, <1>3, <2>1
  <2>3. \A a, b \in rows' : b \in declared'[a] <=> <<a, b>> \in edges'
    <3>1. SUFFICES ASSUME NEW a \in rows', NEW b \in rows'
                   PROVE  b \in declared'[a] <=> <<a, b>> \in edges'
      OBVIOUS
    <3>2. CASE a = t
      BY <1>1, <1>2, <1>3, <2>1, <3>2
    <3>3. CASE a # t /\ b = t
      BY <1>1, <1>2, <1>3, <2>1, <3>3 DEF IInv, Typed
    <3>4. CASE a # t /\ b # t
      BY <1>1, <1>2, <1>3, <3>4 DEF IInv, Typed, EdgeInv
    <3>5. QED
      BY <3>2, <3>3, <3>4
  <2>4. QED
    BY <2>2, <2>3 DEF EdgeInv
<1>8. ASSUME NEW u \in Tasks \ {t}
      PROVE  /\ declared'[u] \cap rows' = declared[u] \cap rows
             /\ job'[u] = job[u]
             /\ \A p \in Tasks : Kept(u, p)' <=> Kept(u, p)
  BY <1>2, <1>3, <1>4 DEF Kept
<1>9. GateInv'
  <2>1. SUFFICES ASSUME NEW u \in Tasks PROVE GateOf(u)'
    BY DEF GateInv
  <2>2. CASE u = t
    BY <1>4, <2>2 DEF GateOf
  <2>3. CASE u # t
    BY <1>8, <2>3 DEF GateOf, IInv, GateInv, Typed
  <2>4. QED
    BY <2>2, <2>3
<1>10. BegunInv'
  <2>1. SUFFICES ASSUME NEW u \in Tasks PROVE BegunOf(u)'
    BY DEF BegunInv
  <2>2. CASE u = t
    <3>1. PENDING \notin Begun
      BY DEF Begun, PENDING, IN_PROGRESS, ABORTING, SUCCESS, TIMED_OUT
    <3>2. QED
      BY <1>2, <1>4, <2>2, <3>1 DEF BegunOf, Started
  <2>3. CASE u # t
    <3>1. Started(u)' <=> Started(u)
      BY <1>2, <1>8, <2>3 DEF Started
    <3>2. Passed(u)' <=> Passed(u)
      BY <1>8, <2>3 DEF Passed, IInv, Typed
    <3>3. QED
      BY <1>8, <2>3, <3>1, <3>2 DEF BegunOf, IInv, BegunInv
  <2>4. QED
    BY <2>2, <2>3
<1>11. QED
  BY <1>5, <1>6, <1>7, <1>9, <1>10 DEF IInv

\* A deletion takes the row and its edges away, and nothing else.
LEMMA PruneKeeps ==
  ASSUME IInv, NEW t \in Tasks, Prune(t), Typed' PROVE IInv'
<1>1. /\ rows' = rows \ {t} /\ edges' = EdgesWithout(t)
      /\ status' = status /\ declared' = declared /\ job' = job
      /\ aborts' = aborts /\ undone' = undone
  BY DEF Prune
<1>2. EndingInv' /\ NewInv'
  BY <1>1 DEF IInv, EndingInv, EndingOf, NewInv
<1>3. EdgeInv'
  <2>1. edges' \subseteq rows' \X rows'
    BY <1>1 DEF IInv, EdgeInv, EdgesWithout
  <2>2. \A a, b \in rows' : b \in declared'[a] <=> <<a, b>> \in edges'
    BY <1>1 DEF IInv, EdgeInv, EdgesWithout
  <2>3. QED
    BY <2>1, <2>2 DEF EdgeInv
<1>4. GateInv'
  BY <1>1 DEF IInv, GateInv, GateOf, Kept
<1>5. BegunInv'
  BY <1>1 DEF IInv, BegunInv, BegunOf, Started, Passed, Kept
<1>6. QED
  BY <1>2, <1>3, <1>4, <1>5 DEF IInv

\* IInv is inductive.
LEMMA IInvStep == IInv /\ [Next]_vars => IInv'
<1> SUFFICES ASSUME IInv, [Next]_vars PROVE IInv'
  OBVIOUS
<1>1. Typed'
  BY TypedStep DEF IInv
<1>2. CASE UNCHANGED vars
  BY <1>2 DEF vars, IInv, Typed, EndingInv, EndingOf, NewInv, EdgeInv, GateInv,
              GateOf, BegunInv, BegunOf, Started, Passed, Kept
<1>3. ASSUME NEW t \in Tasks, Submit(t) PROVE IInv'
  BY <1>1, <1>3, SubmitKeeps
<1>4. ASSUME NEW t \in Tasks, Prune(t) PROVE IInv'
  BY <1>1, <1>4, PruneKeeps
<1>5. ASSUME NEW t \in Tasks,
             \/ Start(t) \/ Execute(t) \/ Cancel(t) \/ TimeOut(t)
             \/ WriteAbort(t) \/ Crash(t) \/ Reap(t)
      PROVE  IInv'
  BY <1>1, <1>5, StepRight, TouchKeeps DEF Right
<1>6. QED
  BY <1>2, <1>3, <1>4, <1>5 DEF Next

\* all_success, for every graph of tasks: no task has begun unless every
\* prerequisite it was submitted with has succeeded or was deleted after it
\* had ended.  What the gate knows may be stale: a success it has seen can only
\* be replaced by a write that does not compare, and then the dependent is one
\* that had loaded it before.
THEOREM RunsAfterSuccess == Spec => []RunsOnlyAfterSuccess
<1>1. IInv => RunsOnlyAfterSuccess
  BY DEF IInv, BegunInv, BegunOf, Started, Passed, Kept, RunsOnlyAfterSuccess
<1>2. QED
  BY <1>1, InitIInv, IInvStep, PTL DEF Spec

----------------------------------------------------------------------------
\* Only a submission adds dependencies, and none on a task that is not
\* submitted yet: a cycle would have to be closed by its youngest member.
LEMMA AcyclicStep ==
  IInv /\ DependenciesAcyclic /\ [Next]_vars => DependenciesAcyclic'
<1> SUFFICES ASSUME IInv, DependenciesAcyclic, [Next]_vars
             PROVE  DependenciesAcyclic'
  OBVIOUS
<1>1. ASSUME declared' = declared PROVE DependenciesAcyclic'
  BY <1>1 DEF DependenciesAcyclic
<1>2. ASSUME NEW t \in Tasks, Submit(t) PROVE DependenciesAcyclic'
  <2>1. SUFFICES ASSUME NEW S \in (SUBSET Tasks) \ {{}}
                 PROVE  \E u \in S : declared'[u] \cap S = {}
    BY DEF DependenciesAcyclic
  <2>2. PICK prerequisites \in SUBSET Known(t) :
          declared' = [declared EXCEPT ![t] = prerequisites]
    BY <1>2 DEF Submit
  <2>3. /\ declared'[t] = prerequisites /\ t \notin prerequisites
        /\ \A u \in Tasks \ {t} : declared'[u] = declared[u]
    BY <2>2 DEF IInv, Typed, Known
  <2>4. \A u \in Tasks : t \notin declared[u]
    BY <1>2 DEF Submit, IInv, NewInv
  <2>5. CASE S \subseteq {t}
    BY <2>3, <2>5
  <2>6. CASE ~(S \subseteq {t})
    <3>1. PICK u \in S \ {t} : declared[u] \cap (S \ {t}) = {}
      BY <2>6 DEF DependenciesAcyclic
    <3>2. QED
      BY <2>3, <2>4, <3>1
  <2>7. QED
    BY <2>5, <2>6
<1>3. ASSUME NEW t \in Tasks, Prune(t) PROVE declared' = declared
  BY <1>3 DEF Prune
<1>4. ASSUME NEW t \in Tasks,
             \/ Start(t) \/ Execute(t) \/ Cancel(t) \/ TimeOut(t)
             \/ WriteAbort(t) \/ Crash(t) \/ Reap(t)
      PROVE  declared' = declared
  BY <1>4, StepRight DEF Right, Touches
<1>5. CASE UNCHANGED vars
  BY <1>1, <1>5 DEF vars
<1>6. QED
  BY <1>1, <1>2, <1>3, <1>4, <1>5 DEF Next

\* No chain of dependencies closes, for any set of tasks, although nothing
\* in the submission looks for a cycle.
THEOREM NoCycles == Spec => []DependenciesAcyclic
<1>1. Init => DependenciesAcyclic
  BY DEF Init, DependenciesAcyclic
<1>2. QED
  BY <1>1, InitIInv, IInvStep, AcyclicStep, PTL DEF Spec

----------------------------------------------------------------------------
\* An executor looks at, or waits for, prerequisites that it has read, one at
\* a time, and has read none that its task does not have.
BlockOf(t) ==
  /\ job[t].todo \cup job[t].on \subseteq DOMAIN job[t].seen
  /\ Cardinality(job[t].on) <= 1
  /\ DOMAIN job[t].seen \subseteq declared[t]
  /\ job[t].pc = "new" => DOMAIN job[t].seen = {}

BlockInv ==
  /\ \A t \in Tasks : BlockOf(t)
  /\ crashes \in 0..MaxCrashes /\ requests \in 0..MaxAborts

\* One that knows nothing waits for nobody.
LEMMA BlankBlock ==
  ASSUME NEW t \in Tasks, NEW at, job'[t] = Blank(at) PROVE BlockOf(t)'
<1>1. DOMAIN job'[t].seen = {} /\ job'[t].todo = {} /\ job'[t].on = {}
  BY BlankFields
<1>2. QED
  BY <1>1, FS_EmptySet DEF BlockOf

\* One that has read starts all over.
LEMMA SeeBlock ==
  ASSUME Typed, NEW t \in Tasks, NEW s \in Seen, See(t, s), declared' = declared,
         DOMAIN s \subseteq declared[t]
  PROVE  BlockOf(t)'
<1>1. job'[t] = [Blank("gate") EXCEPT !.seen = s, !.todo = DOMAIN s]
  BY DEF See, Typed
<1>2. /\ job'[t].seen = s /\ job'[t].todo = DOMAIN s /\ job'[t].on = {}
      /\ job'[t].pc = "gate"
  BY <1>1 DEF Blank
<1>3. QED
  BY <1>2, FS_EmptySet DEF BlockOf

\* What is read are prerequisites that were declared.
LEMMA SnapshotDeclared ==
  ASSUME IInv, NEW t \in Tasks
  PROVE  Snapshot(t) \in Seen /\ DOMAIN Snapshot(t) \subseteq declared[t]
<1>1. Snapshot(t) \in Seen /\ DOMAIN Snapshot(t) = Prerequisites(t)
  BY SnapshotType DEF IInv, Snapshot
<1>2. Prerequisites(t) \subseteq declared[t]
  BY DEF Prerequisites, IInv, EdgeInv
<1>3. QED
  BY <1>1, <1>2

\* A step of one executor that changes no declaration.
LEMMA BlockKept ==
  ASSUME Typed, BlockInv, NEW t \in Tasks, declared' = declared, BlockOf(t)',
         \A u \in Tasks \ {t} : job'[u] = job[u], crashes' \in 0..MaxCrashes,
         requests' \in 0..MaxAborts
  PROVE  BlockInv'
<1>1. ASSUME NEW u \in Tasks \ {t} PROVE BlockOf(u)'
  <2>1. BlockOf(u) /\ job'[u] = job[u] /\ declared' = declared
    BY DEF BlockInv
  <2>2. QED
    BY <2>1 DEF BlockOf
<1>2. QED
  BY <1>1 DEF BlockInv

\* Every step keeps it so.
LEMMA BlockStep == IInv /\ BlockInv /\ [Next]_vars => BlockInv'
<1> SUFFICES ASSUME IInv, BlockInv, [Next]_vars PROVE BlockInv'
  OBVIOUS
<1> USE DEF table, counters
<1>1. /\ Typed /\ crashes \in 0..MaxCrashes /\ requests \in 0..MaxAborts
      /\ \A t \in Tasks : BlockOf(t)
  BY DEF IInv, BlockInv
<1>2. ASSUME NEW t \in Tasks, NEW at, job' = [job EXCEPT ![t] = Blank(at)],
             declared' = declared, crashes' \in 0..MaxCrashes, requests' = requests
      PROVE  BlockInv'
  <2>1. job'[t] = Blank(at) /\ \A u \in Tasks \ {t} : job'[u] = job[u]
    BY <1>1, <1>2 DEF Typed
  <2>2. QED
    BY <1>1, <1>2, <2>1, BlankBlock, BlockKept
<1>3. ASSUME NEW t \in Tasks, NEW s \in Seen, See(t, s),
             DOMAIN s \subseteq declared[t], declared' = declared, UNCHANGED counters
      PROVE  BlockInv'
  <2>1. \A u \in Tasks \ {t} : job'[u] = job[u]
    BY <1>1, <1>3 DEF Typed, See
  <2>2. QED
    BY <1>1, <1>3, <2>1, SeeBlock, BlockKept
<1>4. ASSUME NEW t \in Tasks, NEW r, job' = [job EXCEPT ![t] = r],
             r.seen = job[t].seen, r.pc # "new",
             r.todo \cup r.on \subseteq DOMAIN job[t].seen, Cardinality(r.on) <= 1,
             declared' = declared, UNCHANGED counters
      PROVE  BlockInv'
  <2>1. job'[t] = r /\ \A u \in Tasks \ {t} : job'[u] = job[u]
    BY <1>1, <1>4 DEF Typed
  <2>2. BlockOf(t)'
    BY <1>1, <1>4, <2>1 DEF BlockOf
  <2>3. QED
    BY <1>1, <1>4, <2>1, <2>2, BlockKept
<1>5. ASSUME NEW t \in Tasks, Submit(t) PROVE BlockInv'
  <2>1. PICK prerequisites \in SUBSET Known(t) :
          declared' = [declared EXCEPT ![t] = prerequisites]
    BY <1>5 DEF Submit
  <2>2. job[t] \in Jobs /\ job'[t] = [job[t] EXCEPT !.pc = "start"]
    BY <1>1, <1>5 DEF Submit, Goto, Typed
  <2>3. /\ job'[t].pc = "start" /\ job'[t].seen = job[t].seen
        /\ job'[t].todo = job[t].todo /\ job'[t].on = job[t].on
    BY <2>2 DEF Jobs
  <2>4. BlockOf(t)'
    BY <1>1, <1>5, <2>3 DEF BlockOf, Submit
  <2>5. ASSUME NEW u \in Tasks \ {t} PROVE BlockOf(u)'
    <3>1. job'[u] = job[u] /\ declared'[u] = declared[u]
      BY <1>1, <1>5, <2>1 DEF Submit, Goto, Typed
    <3>2. BlockOf(u)
      BY <1>1
    <3>3. QED
      BY <3>1, <3>2 DEF BlockOf
  <2>6. QED
    BY <1>1, <1>5, <2>4, <2>5 DEF BlockInv, Submit
<1>6. ASSUME NEW t \in Tasks, Start(t) PROVE BlockInv'
  BY <1>1, <1>2, <1>3, <1>6, SnapshotDeclared DEF Start, Load, Leave
<1>7. ASSUME NEW t \in Tasks, GatePasses(t) PROVE BlockInv'
  <2>1. PICK p \in job[t].todo : job' = [job EXCEPT ![t].todo = @ \ {p}]
    BY <1>7 DEF GatePasses
  <2> DEFINE r == [job[t] EXCEPT !.todo = job[t].todo \ {p}]
  <2>2. job[t] \in Jobs /\ BlockOf(t) /\ job' = [job EXCEPT ![t] = r]
    BY <1>1, <2>1 DEF Typed
  <2>3. /\ r.seen = job[t].seen /\ r.pc = "gate" /\ r.on = job[t].on
        /\ r.todo \subseteq job[t].todo
    BY <1>7, <2>2 DEF Jobs, GatePasses
  <2> HIDE DEF r
  <2>4. QED
    BY <1>4, <1>7, <2>2, <2>3 DEF BlockOf, GatePasses
<1>8. ASSUME NEW t \in Tasks, GateFails(t) \/ Defer(t) \/ Commit(t)
      PROVE  BlockInv'
  BY <1>1, <1>2, <1>8 DEF GateFails, Defer, Commit, Leave
<1>9. ASSUME NEW t \in Tasks, Block(t) PROVE BlockInv'
  <2> DEFINE todo == {p \in DOMAIN job[t].seen : ~SeenEnded(t, p)}
             r == [job[t] EXCEPT !.pc = "wait", !.todo = todo]
  <2>1. job[t] \in Jobs /\ BlockOf(t) /\ job' = [job EXCEPT ![t] = r]
    BY <1>1, <1>9 DEF Typed, Block
  <2>2. todo \subseteq DOMAIN job[t].seen
    OBVIOUS
  <2> HIDE DEF todo
  <2>3. /\ r.seen = job[t].seen /\ r.pc = "wait" /\ r.on = job[t].on /\ r.todo = todo
    BY <2>1 DEF Jobs
  <2> HIDE DEF r
  <2>4. QED
    BY <1>4, <1>9, <2>1, <2>2, <2>3 DEF BlockOf, Block
<1>10. ASSUME NEW t \in Tasks, Wait(t) PROVE BlockInv'
  <2>1. job[t] \in Jobs /\ BlockOf(t) /\ job[t].pc = "wait"
    BY <1>1, <1>10 DEF Typed, Wait
  <2>2. CASE ReadAgain(t)
    <3>1. job[t].seen \in Seen /\ DOMAIN job[t].seen \subseteq declared[t]
      BY <2>1 DEF Jobs, BlockOf
    <3>2. QED
      BY <1>3, <1>10, <2>2, <3>1, SnapshotDeclared DEF ReadAgain, Load, Wait
  <2>3. ASSUME NEW p \in job[t].todo,
               job' = [job EXCEPT ![t] = [@ EXCEPT !.on = {p}, !.todo = job[t].todo \ {p}]]
        PROVE  BlockInv'
    <3> DEFINE r == [job[t] EXCEPT !.on = {p}, !.todo = job[t].todo \ {p}]
    <3>1. job' = [job EXCEPT ![t] = r]
      BY <2>3
    <3>2. /\ r.seen = job[t].seen /\ r.pc = "wait" /\ r.on = {p}
          /\ r.todo \subseteq job[t].todo
      BY <2>1 DEF Jobs
    <3> HIDE DEF r
    <3>3. Cardinality(r.on) <= 1
      <4>1. Cardinality({p}) = 1
        BY FS_Singleton
      <4>2. QED
        BY <3>2, <4>1
    <3>4. QED
      BY <1>4, <1>10, <2>1, <3>1, <3>2, <3>3 DEF BlockOf, Wait
  <2>4. CASE job' = [job EXCEPT ![t].on = {}]
    <3> DEFINE r == [job[t] EXCEPT !.on = {}]
    <3>1. job' = [job EXCEPT ![t] = r]
      BY <2>4
    <3>2. /\ r.seen = job[t].seen /\ r.pc = "wait" /\ r.on = {}
          /\ r.todo = job[t].todo
      BY <2>1 DEF Jobs
    <3> HIDE DEF r
    <3>3. Cardinality(r.on) <= 1
      BY <3>2, FS_EmptySet
    <3>4. QED
      BY <1>4, <1>10, <2>1, <3>1, <3>2, <3>3 DEF BlockOf, Wait
  <2>5. QED
    BY <1>10, <2>2, <2>3, <2>4 DEF Wait
<1>11. ASSUME NEW t \in Tasks, Claim(t) PROVE BlockInv'
  BY <1>1, <1>2, <1>11 DEF Claim, Leave
<1>12. ASSUME NEW t \in Tasks, BodyEnds(t) PROVE BlockInv'
  <2>1. PICK outcome \in {"returns", "raises", "aborts"} :
          job' = [job EXCEPT ![t] = [@ EXCEPT !.pc = "ending", !.outcome = outcome]]
    BY <1>12 DEF BodyEnds
  <2> DEFINE r == [job[t] EXCEPT !.pc = "ending", !.outcome = outcome]
  <2>2. job[t] \in Jobs /\ BlockOf(t) /\ job' = [job EXCEPT ![t] = r]
    BY <1>1, <2>1 DEF Typed
  <2>3. /\ r.seen = job[t].seen /\ r.pc = "ending" /\ r.on = job[t].on
        /\ r.todo = job[t].todo
    BY <2>2 DEF Jobs
  <2> HIDE DEF r
  <2>4. QED
    BY <1>4, <1>12, <2>2, <2>3 DEF BlockOf, BodyEnds
<1>13. ASSUME NEW t \in Tasks, Crash(t) PROVE BlockInv'
  <2>1. crashes' \in 0..MaxCrashes
    BY <1>1, <1>13, GraphAssumption DEF Crash, GraphAssumption
  <2>2. QED
    BY <1>2, <1>13, <2>1 DEF Crash
<1>14. ASSUME NEW t \in Tasks,
              Cancel(t) \/ TimeOut(t) \/ WriteAbort(t) \/ Reap(t) \/ Prune(t)
       PROVE  BlockInv'
  <2>1. declared' = declared /\ job' = job /\ crashes' = crashes
    BY <1>14 DEF Cancel, TimeOut, Request, WriteAbort, Reap, Prune
  <2>2. requests' \in 0..MaxAborts
    BY <1>1, <1>14, GraphAssumption
    DEF GraphAssumption, Cancel, TimeOut, Request, WriteAbort, Reap, Prune
  <2>3. QED
    BY <1>1, <2>1, <2>2 DEF BlockInv, BlockOf
<1>15. ASSUME NEW t \in Tasks, BuildContext(t) PROVE BlockInv'
  <2>1. CASE Goto(t, "running")
    <3> DEFINE r == [job[t] EXCEPT !.pc = "running"]
    <3>1. job[t] \in Jobs /\ BlockOf(t) /\ job' = [job EXCEPT ![t] = r]
      BY <1>1, <2>1 DEF Typed, Goto
    <3>2. /\ r.seen = job[t].seen /\ r.pc = "running" /\ r.on = job[t].on
          /\ r.todo = job[t].todo
      BY <3>1 DEF Jobs
    <3> HIDE DEF r
    <3>3. QED
      BY <1>4, <1>15, <3>1, <3>2 DEF BlockOf, BuildContext
  <2>2. CASE Leave(t)
    BY <1>1, <1>2, <1>15, <2>2 DEF BuildContext, Leave
  <2>3. QED
    BY <1>15, <2>1, <2>2 DEF BuildContext
<1>16. CASE UNCHANGED vars
  BY <1>1, <1>16 DEF vars, BlockInv, BlockOf
<1>17. QED
  BY <1>5, <1>6, <1>7, <1>8, <1>9, <1>10, <1>11, <1>12, <1>13, <1>14, <1>15, <1>16
  DEF Next, Execute

\* For any graph and any number of crashes an executor blocks on one
\* prerequisite at a time, only on ones that its task was submitted with, and
\* no edge of the table outlives a row at one of its ends.
THEOREM TypeCorrect == Spec => []TypeOK
<1>1. Init => BlockInv
  <2> SUFFICES ASSUME Init PROVE BlockInv
    OBVIOUS
  <2>1. ASSUME NEW t \in Tasks PROVE BlockOf(t)
    <3>1. job[t] = Blank("new")
      BY DEF Init
    <3>2. DOMAIN job[t].seen = {} /\ job[t].todo = {} /\ job[t].on = {}
      BY <3>1, BlankFields
    <3>3. QED
      BY <3>2, FS_EmptySet DEF BlockOf
  <2>2. crashes \in 0..MaxCrashes /\ requests \in 0..MaxAborts
    BY GraphAssumption DEF Init, GraphAssumption
  <2>3. QED
    BY <2>1, <2>2 DEF BlockInv
<1>2. IInv /\ BlockInv => TypeOK
  <2> SUFFICES ASSUME IInv, BlockInv PROVE TypeOK
    OBVIOUS
  <2>1. ASSUME NEW t \in Tasks
        PROVE  /\ job[t].pc \in Pcs /\ job[t].outcome \in Outcomes
               /\ job[t].seen \in [DOMAIN job[t].seen -> Statuses]
    BY DEF IInv, Typed, Jobs, Seen
  <2>2. QED
    BY <2>1 DEF IInv, Typed, EdgeInv, BlockInv, BlockOf, TypeOK
<1>3. QED
  BY <1>1, <1>2, InitIInv, IInvStep, BlockStep, PTL DEF Spec
=============================================================================
