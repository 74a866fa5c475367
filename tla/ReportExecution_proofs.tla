----------------------- MODULE ReportExecution_proofs -----------------------
(***************************************************************************)
(* The safety theorems of ReportExecution, for any number of messages, of  *)
(* retries, of recipients and of faults.                                   *)
(***************************************************************************)
EXTENDS ReportExecution, FiniteSetTheorems, TLAPS

\* A worker runs the message; or has failed and is to publish the retry.
Running == {"claimed", "work", "send", "deliver", "failed", "boundary", "quiet",
            "delivered", "overrun"}
Busy == Running \cup {"publish"}

\* A notification may follow.
Sending == {"claimed", "work", "send", "deliver"}

Jobs == [pc : Pcs, id : Slots, retry : BOOLEAN, window : Nat, owns : BOOLEAN,
         awaited : BOOLEAN, ran : BOOLEAN, flag : BOOLEAN, viaSuccess : BOOLEAN,
         started : BOOLEAN, left : 0..Recipients, late : Nat]

Rows == [state : States, window : Nat, anchor : Nat, attempt : 0..MaxAttempts,
         retry : BOOLEAN, old : BOOLEAN]

\* TypeOK without what it says of owners.
Typed ==
  /\ row \in Rows
  /\ jobs \in [Slots -> Jobs]
  /\ current \subseteq Slots
  /\ editor \in {"idle", "decided"}
  /\ faults \in 0..MaxFaults
  /\ history \in [runs : Nat, out : BOOLEAN, disturbed : BOOLEAN]

\* A free slot holds nothing.
FreeInv(s) ==
  jobs[s].pc = "free" =>
    /\ ~jobs[s].owns /\ ~jobs[s].awaited /\ jobs[s].window = NoWindow
    /\ jobs[s].late = 0

\* What a message is and has been through fits the row's window.
MessageInv(s) ==
  jobs[s].pc # "free" =>
    /\ jobs[s].window # NoWindow
    /\ jobs[s].ran => jobs[s].window <= row.window
    /\ jobs[s].owns => jobs[s].ran /\ jobs[s].window = row.window
    /\ jobs[s].awaited => jobs[s].retry /\ ~jobs[s].ran
    /\ jobs[s].pc \in Busy => jobs[s].ran

\* Copies of a message agree, and only one of them is run; one message owns
\* the row, one is awaited, and none while the owner is being run.
PairInv(s, t) ==
  jobs[s].pc # "free" /\ jobs[t].pc # "free" =>
    /\ jobs[s].id = jobs[t].id =>
         /\ jobs[s].retry = jobs[t].retry /\ jobs[s].window = jobs[t].window
         /\ jobs[s].owns = jobs[t].owns /\ jobs[s].awaited = jobs[t].awaited
         /\ jobs[s].ran = jobs[t].ran
         /\ jobs[s].pc \in Busy /\ jobs[t].pc \in Busy => s = t
    /\ jobs[s].owns /\ jobs[t].owns => jobs[s].id = jobs[t].id
    /\ jobs[s].awaited /\ jobs[t].awaited => jobs[s].id = jobs[t].id
    /\ jobs[s].owns /\ jobs[s].pc \in Busy => ~jobs[t].awaited

MessagesInv ==
  /\ \A s \in Slots : FreeInv(s) /\ MessageInv(s)
  /\ \A s, t \in Slots : PairInv(s, t)

\* What was read of the row and not outdated since is so.
ReadInv(s) ==
  s \in current =>
    /\ jobs[s].pc = "recover" => row.state = "WORKING" /\ row.old
    /\ jobs[s].pc = "cas" =>
         /\ row.state # "WORKING"
         /\ jobs[s].retry => row.state = "RETRYING" /\ jobs[s].awaited
                               /\ row.anchor = jobs[s].window
         /\ ~jobs[s].retry => row.window = NoWindow \/ jobs[s].window > row.window

\* The counter, the window it is for, and the runs of the row's window.
CounterInv ==
  /\ row.anchor <= row.window
  /\ row.anchor = NoWindow => row.attempt = 0
  /\ row.state = "RETRYING" => row.anchor = row.window /\ row.attempt = history.runs
  /\ history.runs <= MaxAttempts + 1
  /\ \A s \in Slots :
       Owns(s) /\ jobs[s].pc \in Running => Attempts(row, jobs[s]) = history.runs - 1

\* Who may still send, when the row waits for a retry and when its window has
\* been delivered.
DeliveryInv ==
  /\ row.state = "RETRYING" =>
       /\ ~history.out
       /\ \A s \in Slots :
            /\ jobs[s].pc \in Sending => jobs[s].window # row.window
            /\ jobs[s].pc \in Running => ~Owns(s)
  /\ \A s \in Slots :
       /\ history.out /\ Owns(s) /\ jobs[s].pc \in Running => jobs[s].started
       /\ jobs[s].pc \in Sending /\ jobs[s].window = row.window /\ ~Owns(s) =>
            row.state # "RETRYING" /\ \A t \in Slots : ~Owns(t)

\* A delivery after the row was lost is the last one.
LateInv(s) ==
  /\ jobs[s].pc \in {"work", "send", "deliver"} => jobs[s].left >= 1
  /\ jobs[s].late > 0 =>
       /\ jobs[s].late = 1 /\ ~jobs[s].owns
       /\ jobs[s].pc \in Busy \ {"deliver"}

\* Undisturbed, a run knows whether its failure is to be retried.
FlagInv ==
  ~history.disturbed =>
    /\ row.state = "RETRYING" => row.retry
    /\ \A s \in Slots : Owns(s) /\ jobs[s].pc \in Running => jobs[s].flag = row.retry

IInv == /\ Typed /\ MessagesInv /\ CounterInv /\ DeliveryInv /\ FlagInv
        /\ \A s \in Slots : ReadInv(s) /\ LateInv(s)
        /\ RetryIsComing

----------------------------------------------------------------------------
(* The operators of the model.                                             *)

\* What a free slot holds.
LEMMA FreeFields ==
  /\ Free.pc = "free" /\ ~Free.owns /\ ~Free.awaited /\ ~Free.ran /\ ~Free.retry
  /\ Free.window = NoWindow /\ Free.late = 0 /\ Free.left = 0 /\ ~Free.started
BY DEF Free

\* ... is a job.
LEMMA FreeType == ASSUME NEW s \in Slots PROVE Free \in Jobs
<1>1. (CHOOSE i \in Slots : TRUE) \in Slots
  OBVIOUS
<1>2. 0 \in 0..Recipients
  BY ReportAssumption DEF ReportAssumption
<1>3. QED
  BY <1>1, <1>2 DEF Free, Jobs, Pcs, NoWindow

\* There are more slots than other messages: one id is left.
LEMMA FreshIdFacts ==
  ASSUME Typed, NEW s \in Slots
  PROVE  /\ FreshId(s) \in Slots
         /\ \A t \in Slots \ {s} : jobs[t].pc # "free" => jobs[t].id # FreshId(s)
<1> DEFINE others == Live \ {s}
           used == {jobs[t].id : t \in others}
           f == [t \in others |-> jobs[t].id]
<1>1. IsFiniteSet(Slots) /\ others \subseteq Slots \ {s}
  BY ReportAssumption DEF ReportAssumption, Live
<1>2. /\ IsFiniteSet(Slots \ {s})
      /\ Cardinality(Slots \ {s}) = Cardinality(Slots) - 1
  BY <1>1, FS_RemoveElement
<1>3. IsFiniteSet(others) /\ Cardinality(others) <= Cardinality(Slots) - 1
  BY <1>1, <1>2, FS_Subset
<1>4. \A t \in Slots : jobs[t].id \in Slots
  BY DEF Typed, Jobs
<1>5. \E i \in Slots : i \notin used
  <2>1. SUFFICES ASSUME Slots \subseteq used PROVE FALSE
    OBVIOUS
  <2>2. f \in Surjection(others, Slots)
    BY <1>1, <1>4, <2>1 DEF Surjection, Range
  <2>3. Cardinality(Slots) <= Cardinality(others)
    BY <1>3, <2>2, FS_Surjection
  <2>4. QED
    BY <1>1, <1>3, <2>3, FS_CardinalityType
<1>6. FreshId(s) = IF s \notin used THEN s ELSE CHOOSE i \in Slots : i \notin used
  BY DEF FreshId
<1>7. FreshId(s) \in Slots /\ FreshId(s) \notin used
  BY <1>5, <1>6
<1>8. \A t \in Slots \ {s} : jobs[t].pc # "free" => jobs[t].id \in used
  BY DEF Live
<1>9. QED
  BY <1>7, <1>8

\* The windows in use are finitely many.
LEMMA UsedFinite ==
  ASSUME Typed
  PROVE  UsedWindows \subseteq Nat \ {NoWindow} /\ IsFiniteSet(UsedWindows)
<1> DEFINE windows == {jobs[s].window : s \in Slots}
           f == [s \in Slots |-> jobs[s].window]
<1>1. windows \subseteq Nat /\ row.window \in Nat /\ row.anchor \in Nat
  BY DEF Typed, Rows, Jobs
<1>2. f \in Surjection(Slots, windows)
  BY DEF Surjection, Range
<1>3. IsFiniteSet(windows)
  BY <1>2, FS_Surjection, ReportAssumption DEF ReportAssumption
<1>4. UsedWindows \subseteq (windows \cup {row.window}) \cup {row.anchor}
  BY DEF UsedWindows
<1>5. IsFiniteSet((windows \cup {row.window}) \cup {row.anchor})
  BY <1>3, FS_AddElement
<1>6. IsFiniteSet(UsedWindows)
  BY <1>4, <1>5, FS_Subset
<1>7. QED
  BY <1>1, <1>6 DEF UsedWindows

\* A renumbering keeps the order of the windows, and leaves room for a new one.
LEMMA RankFacts ==
  ASSUME Typed, NEW v \in UsedWindows \cup {NoWindow}
  PROVE  /\ Cardinality(UsedWindows) \in Nat
         /\ Rank(v) \in 0..Cardinality(UsedWindows)
         /\ Rank(v) = NoWindow <=> v = NoWindow
         /\ \A w \in UsedWindows : v < w => Rank(v) < Rank(w)
<1> DEFINE Upto(w) == {u \in UsedWindows : u <= w}
<1>1. UsedWindows \subseteq Nat \ {NoWindow} /\ IsFiniteSet(UsedWindows)
  BY UsedFinite
<1>2. \A w : /\ IsFiniteSet(Upto(w)) /\ Cardinality(Upto(w)) \in Nat
             /\ Cardinality(Upto(w)) <= Cardinality(UsedWindows)
  BY <1>1, FS_Subset, FS_CardinalityType
<1>3. Cardinality(UsedWindows) \in Nat
  BY <1>1, FS_CardinalityType
<1>4. \A w \in UsedWindows : Rank(w) = Cardinality(Upto(w)) /\ Rank(w) # 0
  <2>1. TAKE w \in UsedWindows
  <2>2. w \in Upto(w) /\ w # NoWindow
    BY <1>1
  <2>3. Cardinality(Upto(w)) # 0
    BY <1>2, <2>2, FS_EmptySet
  <2>4. QED
    BY <2>2, <2>3 DEF Rank
<1>5. Rank(NoWindow) = 0
  BY DEF Rank, NoWindow
<1>6. ASSUME v \in UsedWindows, NEW w \in UsedWindows, v < w PROVE Rank(v) < Rank(w)
  <2>1. v \in Nat /\ w \in Nat
    BY <1>1, <1>6
  <2>2. Upto(v) \in SUBSET Upto(w) /\ w \in Upto(w) /\ w \notin Upto(v)
    <3>1. \A u \in UsedWindows : u \in Nat
      BY <1>1
    <3>2. \A u \in UsedWindows : u <= v => u <= w
      BY <1>6, <2>1, <3>1
    <3>3. w <= w /\ ~(w <= v)
      BY <1>6, <2>1
    <3>4. QED
      BY <3>2, <3>3
  <2>3. IsFiniteSet(Upto(w)) /\ Upto(v) # Upto(w)
    BY <1>2, <2>2
  <2> HIDE DEF Upto
  <2>4. /\ Cardinality(Upto(v)) <= Cardinality(Upto(w))
        /\ Cardinality(Upto(v)) # Cardinality(Upto(w))
    BY <2>2, <2>3, FS_Subset
  <2>5. QED
    BY <1>2, <1>4, <1>6, <2>4
<1>7. ASSUME v = NoWindow, NEW w \in UsedWindows PROVE Rank(v) < Rank(w)
  <2>1. Rank(w) \in Nat /\ Rank(w) # 0 /\ Rank(v) = 0
    BY <1>2, <1>4, <1>5, <1>7
  <2>2. QED
    BY <2>1
<1>8. Rank(v) \in 0..Cardinality(UsedWindows) /\ (Rank(v) = NoWindow <=> v = NoWindow)
  <2>1. CASE v = NoWindow
    BY <1>3, <1>5, <2>1 DEF NoWindow
  <2>2. CASE v \in UsedWindows
    <3>1. v # NoWindow /\ Rank(v) = Cardinality(Upto(v)) /\ Rank(v) # 0
      BY <1>1, <1>4, <2>2
    <3>2. QED
      BY <1>2, <1>3, <3>1 DEF NoWindow
  <2>3. QED
    BY <2>1, <2>2
<1>9. QED
  BY <1>3, <1>6, <1>7, <1>8

----------------------------------------------------------------------------
(* What a step does to the row and to the jobs, field by field.            *)

\* The row is written ...
Written(state, window, anchor, attempt) ==
  /\ row' \in Rows
  /\ row'.state = state /\ row'.window = window
  /\ row'.anchor = anchor /\ row'.attempt = attempt
  /\ row'.retry = row.retry /\ ~row'.old
  /\ current' = {}

\* ... in its state alone, or not at all.
StateWritten(state) == Written(state, row.window, row.anchor, row.attempt)
RowKept == row' = row /\ current' = current

\* Only slot s changes.
Others(s) == /\ jobs' \in [Slots -> Jobs]
             /\ \A t \in Slots \ {s} : jobs'[t] = jobs[t]

\* The message in slot s remains the same message, ...
Keeps(s) ==
  /\ Others(s)
  /\ jobs'[s].id = jobs[s].id /\ jobs'[s].retry = jobs[s].retry
  /\ jobs'[s].window = jobs[s].window /\ jobs'[s].owns = jobs[s].owns
  /\ jobs'[s].awaited = jobs[s].awaited /\ jobs'[s].ran = jobs[s].ran

\* ... and goes on ...
Moves(s, pc, flag, started, left, late) ==
  /\ Keeps(s)
  /\ jobs'[s].pc = pc /\ jobs'[s].flag = flag /\ jobs'[s].started = started
  /\ jobs'[s].left = left /\ jobs'[s].late = late

\* ... to its next step, no more, ...
MovesTo(s, pc) ==
  Moves(s, pc, jobs[s].flag, jobs[s].started, jobs[s].left, jobs[s].late)

\* ... or ends.
Ends(s) ==
  /\ Others(s)
  /\ jobs'[s].pc = "free" /\ ~jobs'[s].owns /\ ~jobs'[s].awaited
  /\ jobs'[s].window = NoWindow /\ jobs'[s].late = 0

\* A message of slot s is delivered again to slot t.
Delivered(s, t) ==
  /\ Others(t)
  /\ jobs'[t].id = jobs[s].id /\ jobs'[t].retry = jobs[s].retry
  /\ jobs'[t].window = jobs[s].window /\ jobs'[t].owns = jobs[s].owns
  /\ jobs'[t].awaited = jobs[s].awaited /\ jobs'[t].ran = jobs[s].ran
  /\ jobs'[t].pc = "queued" /\ jobs'[t].late = 0

\* A slot is given a job.
LEMMA BecomeFacts ==
  ASSUME Typed, NEW s \in Slots, NEW r \in Jobs, jobs' = [jobs EXCEPT ![s] = r]
  PROVE  Others(s) /\ jobs'[s] = r
BY DEF Typed, Others

\* A job is dropped.
LEMMA DropFacts ==
  ASSUME Typed, NEW s \in Slots, Drop(s)
  PROVE  Ends(s)
BY FreeType, FreeFields, BecomeFacts DEF Drop, Ends

\* A job goes to its next step.
LEMMA GotoFacts ==
  ASSUME Typed, NEW s \in Slots, NEW pc \in Pcs, Goto(s, pc)
  PROVE  MovesTo(s, pc)
<1> DEFINE r == [jobs[s] EXCEPT !.pc = pc]
<1>1. jobs[s] \in Jobs
  BY DEF Typed
<1>2. jobs' = [jobs EXCEPT ![s] = r] /\ r \in Jobs
  BY <1>1 DEF Goto, Jobs
<1>3. Others(s) /\ jobs'[s] = r
  BY <1>2, BecomeFacts
<1>4. QED
  BY <1>1, <1>3 DEF MovesTo, Moves, Keeps, Jobs

\* The row is written.
LEMMA WriteFacts ==
  ASSUME Typed, NEW state \in States
  PROVE  /\ WriteRow([row EXCEPT !.state = state]) => StateWritten(state)
         /\ WriteRow(Reset([row EXCEPT !.state = state])) =>
              Written(state, row.window, NoWindow, 0)
         /\ \A w \in Nat : WriteRow([row EXCEPT !.state = state, !.window = w]) =>
              Written(state, w, row.anchor, row.attempt)
         /\ \A w \in Nat, n \in 0..MaxAttempts :
              WriteRow([row EXCEPT !.state = state, !.attempt = n, !.anchor = w]) =>
                Written(state, row.window, w, n)
<1>1. row \in Rows /\ 0 \in 0..MaxAttempts /\ NoWindow \in Nat
  BY ReportAssumption DEF Typed, ReportAssumption, NoWindow
<1>2. ASSUME NEW w \in Nat, NEW a \in Nat, NEW n \in 0..MaxAttempts, NEW r,
             r = [row EXCEPT !.state = state, !.window = w, !.attempt = n, !.anchor = a],
             WriteRow(r)
      PROVE  Written(state, w, a, n)
  <2>1. /\ r \in Rows /\ r.state = state /\ r.window = w /\ r.attempt = n
        /\ r.anchor = a /\ r.retry = row.retry
    BY <1>1, <1>2 DEF Rows
  <2>2. row' = [r EXCEPT !.old = FALSE] /\ current' = {}
    BY <1>2 DEF WriteRow
  <2>3. QED
    BY <2>1, <2>2 DEF Written, Rows
<1>3. row.window \in Nat /\ row.anchor \in Nat /\ row.attempt \in 0..MaxAttempts
  BY <1>1 DEF Rows
<1>4. [row EXCEPT !.state = state] =
        [row EXCEPT !.state = state, !.window = row.window, !.attempt = row.attempt,
                    !.anchor = row.anchor]
  BY <1>1 DEF Rows
<1>5. Reset([row EXCEPT !.state = state]) =
        [row EXCEPT !.state = state, !.window = row.window, !.attempt = 0,
                    !.anchor = NoWindow]
  BY <1>1 DEF Rows, Reset
<1>6. \A w \in Nat : [row EXCEPT !.state = state, !.window = w] =
        [row EXCEPT !.state = state, !.window = w, !.attempt = row.attempt,
                    !.anchor = row.anchor]
  BY <1>1 DEF Rows
<1>7. \A w \in Nat, n \in 0..MaxAttempts :
        [row EXCEPT !.state = state, !.attempt = n, !.anchor = w] =
        [row EXCEPT !.state = state, !.window = row.window, !.attempt = n,
                    !.anchor = w]
  BY <1>1 DEF Rows
<1>8. QED
  BY <1>1, <1>2, <1>3, <1>4, <1>5, <1>6, <1>7 DEF StateWritten

\* A job ends without a trace; or the owner's run ends with an idle row.
Leaves(s) == Ends(s) /\ RowKept
Closes(s) ==
  /\ Owns(s) /\ jobs[s].pc \in Running /\ Ends(s)
  /\ \E state \in Idle : \/ StateWritten(state)
                         \/ Written(state, row.window, NoWindow, 0)

\* The labels, spelled out.
LEMMA PcsFacts ==
  /\ DOMAIN Terminal = {"quiet", "delivered", "overrun"}
  /\ \A pc \in DOMAIN Terminal : Terminal[pc] \in Idle
  /\ Busy \cup {"free", "queued", "cancel", "recover", "claim", "cas"} = Pcs
<1>1. DOMAIN Terminal = {"quiet", "delivered", "overrun"}
  BY DEF Terminal
<1>2. \A pc \in DOMAIN Terminal : Terminal[pc] \in Idle
  BY <1>1 DEF Terminal, Idle
<1>3. QED
  BY <1>1, <1>2 DEF Pcs, Busy, Running

\* The first read drops a message or sends it one of three ways.
LEMMA StartFacts ==
  ASSUME Typed, NEW s \in Slots, Start(s)
  PROVE  /\ jobs[s].pc = "queued" /\ UNCHANGED <<row, editor, faults, history>>
         /\ \/ /\ Leaves(s)
               /\ jobs[s].retry => row.state # "RETRYING" \/ row.anchor # jobs[s].window
            \/ MovesTo(s, "cancel") /\ RowKept /\ jobs[s].retry /\ ~row.retry
            \/ /\ MovesTo(s, "recover") /\ row.state = "WORKING" /\ row.old
               /\ current' = current \cup {s} /\ ~jobs[s].retry
            \/ MovesTo(s, "claim") /\ RowKept
<1>1. {"cancel", "recover", "claim"} \subseteq Pcs
  BY PcsFacts
<1>2. QED
  BY <1>1, DropFacts, GotoFacts DEF Start, Leaves, RowKept

\* A retry that is no longer wanted is cancelled, or too late.
LEMMA CancelFacts ==
  ASSUME Typed, NEW s \in Slots, CancelDisabled(s)
  PROVE  /\ jobs[s].pc = "cancel" /\ Ends(s) /\ UNCHANGED <<editor, faults, history>>
         /\ \/ RowKept
            \/ row.state = "RETRYING" /\ Written("ERROR", row.window, NoWindow, 0)
<1>1. "ERROR" \in States
  BY DEF States, Idle
<1>2. QED
  BY <1>1, DropFacts, WriteFacts DEF CancelDisabled, RowKept

\* Nobody owns the row any more, nobody is awaited.
Disowned(s) ==
  /\ jobs' \in [Slots -> Jobs]
  /\ jobs'[s].pc = "free" /\ jobs'[s].window = NoWindow /\ jobs'[s].late = 0
  /\ \A t \in Slots : ~jobs'[t].owns /\ ~jobs'[t].awaited
  /\ \A t \in Slots \ {s} :
       /\ jobs'[t].pc = jobs[t].pc /\ jobs'[t].id = jobs[t].id
       /\ jobs'[t].retry = jobs[t].retry /\ jobs'[t].window = jobs[t].window
       /\ jobs'[t].ran = jobs[t].ran /\ jobs'[t].left = jobs[t].left
       /\ jobs'[t].late = jobs[t].late

\* A recovery takes the row from its owner, or finds that it has moved.
LEMMA RecoverFacts ==
  ASSUME Typed, NEW s \in Slots, Recover(s)
  PROVE  /\ jobs[s].pc = "recover" /\ UNCHANGED <<editor, faults, history>>
         /\ \/ Leaves(s)
            \/ s \in current /\ StateWritten("ERROR") /\ Disowned(s)
<1>1. "ERROR" \in States
  BY DEF States, Idle
<1>2. CASE Unmoved(s)
  <2>1. StateWritten("ERROR") /\ s \in current
    BY <1>1, <1>2, WriteFacts DEF Recover, Unmoved
  <2>2. jobs' = [t \in Slots |-> IF t = s THEN Free
                   ELSE [jobs[t] EXCEPT !.owns = FALSE, !.awaited = FALSE]]
    BY <1>2 DEF Recover
  <2>3. \A t \in Slots : jobs[t] \in Jobs
    BY DEF Typed
  <2> DEFINE without(j) == [j EXCEPT !.owns = FALSE, !.awaited = FALSE]
  <2>w. ASSUME NEW j \in Jobs
        PROVE  /\ without(j) \in Jobs /\ ~without(j).owns /\ ~without(j).awaited
               /\ without(j).pc = j.pc /\ without(j).id = j.id
               /\ without(j).retry = j.retry /\ without(j).window = j.window
               /\ without(j).ran = j.ran /\ without(j).left = j.left
               /\ without(j).late = j.late
    BY DEF Jobs
  <2>o. \A t \in Slots \ {s} : jobs'[t] = without(jobs[t])
    BY <2>2
  <2>s. jobs'[s] = Free
    BY <2>2
  <2> HIDE DEF without
  <2>4. \A t \in Slots : jobs'[t] \in Jobs
    BY <2>3, <2>w, <2>o, <2>s, FreeType
  <2>5. Disowned(s)
    <3>1. jobs' \in [Slots -> Jobs]
      BY <2>2, <2>4
    <3>2. \A t \in Slots \ {s} :
            /\ ~jobs'[t].owns /\ ~jobs'[t].awaited
            /\ jobs'[t].pc = jobs[t].pc /\ jobs'[t].id = jobs[t].id
            /\ jobs'[t].retry = jobs[t].retry /\ jobs'[t].window = jobs[t].window
            /\ jobs'[t].ran = jobs[t].ran /\ jobs'[t].left = jobs[t].left
            /\ jobs'[t].late = jobs[t].late
      BY <2>3, <2>w, <2>o
    <3>3. /\ jobs'[s].pc = "free" /\ jobs'[s].window = NoWindow /\ jobs'[s].late = 0
          /\ ~jobs'[s].owns /\ ~jobs'[s].awaited
      BY <2>s, FreeFields
    <3>4. QED
      BY <3>1, <3>2, <3>3 DEF Disowned
  <2>6. QED
    BY <2>1, <2>5 DEF Recover
<1>3. CASE ~Unmoved(s)
  BY <1>3, DropFacts DEF Recover, Leaves, RowKept
<1>4. QED
  BY <1>2, <1>3

\* A claim is prepared, from what is read now, or refused.
LEMMA ReadClaimFacts ==
  ASSUME Typed, NEW s \in Slots, ReadClaim(s)
  PROVE  /\ jobs[s].pc = "claim" /\ UNCHANGED <<row, editor, faults, history>>
         /\ \/ /\ row.state # "WORKING"
               /\ jobs[s].retry => AwaitedRetry(jobs[s])
               /\ ~jobs[s].retry => NewWindow(jobs[s])
               /\ Moves(s, "cas", row.retry, jobs[s].started, jobs[s].left, jobs[s].late)
               /\ current' = current \cup {s}
            \/ /\ Leaves(s)
               /\ jobs[s].retry => row.state = "WORKING" \/ ~AwaitedRetry(jobs[s])
<1> DEFINE admitted == /\ row.state # "WORKING"
                       /\ IF jobs[s].retry THEN AwaitedRetry(jobs[s])
                                           ELSE NewWindow(jobs[s])
           via == row.state \in {"SUCCESS", "GRACE"}
           r == [jobs[s] EXCEPT !.pc = "cas", !.flag = row.retry, !.viaSuccess = via]
<1>1. CASE admitted
  <2>1. jobs[s] \in Jobs /\ row.retry \in BOOLEAN /\ "cas" \in Pcs
    BY PcsFacts DEF Typed, Rows
  <2>2. via \in BOOLEAN
    OBVIOUS
  <2>3. /\ jobs' = [jobs EXCEPT ![s].pc = "cas", ![s].flag = row.retry,
                                ![s].viaSuccess = via]
        /\ current' = current \cup {s}
    BY <1>1 DEF ReadClaim
  <2> HIDE DEF via
  <2>4. r \in Jobs /\ jobs' = [jobs EXCEPT ![s] = r]
    BY <2>1, <2>2, <2>3 DEF Jobs, Typed
  <2>5. Others(s) /\ jobs'[s] = r
    BY <2>4, BecomeFacts
  <2>6. Moves(s, "cas", row.retry, jobs[s].started, jobs[s].left, jobs[s].late)
    BY <2>1, <2>5 DEF Moves, Keeps, Jobs
  <2>7. QED
    BY <1>1, <2>3, <2>6 DEF ReadClaim
<1>2. CASE ~admitted
  BY <1>2, DropFacts DEF ReadClaim, Leaves, RowKept
<1>3. QED
  BY <1>1, <1>2

\* The message in slot s is run, and owns the row with its copies.
Claimed(s) ==
  /\ jobs' \in [Slots -> Jobs]
  /\ jobs'[s].pc = "claimed"
  /\ \A t \in Slots \ {s} : jobs'[t].pc = jobs[t].pc
  /\ \A t \in Slots :
       /\ jobs'[t].id = jobs[t].id
       /\ jobs'[t].retry = jobs[t].retry /\ jobs'[t].window = jobs[t].window
       /\ jobs'[t].owns <=> jobs[t].pc # "free" /\ jobs[t].id = jobs[s].id
       /\ jobs'[t].ran <=> jobs[t].ran \/ jobs'[t].owns
       /\ ~jobs'[t].awaited
       /\ jobs'[t].flag = jobs[t].flag /\ jobs'[t].started = jobs[t].started
       /\ jobs'[t].left = jobs[t].left /\ jobs'[t].late = jobs[t].late

\* The compare-and-swap starts a run, of the window or a new one, or loses.
LEMMA ClaimFacts ==
  ASSUME Typed, NEW s \in Slots, Claim(s)
  PROVE  /\ jobs[s].pc = "cas" /\ UNCHANGED <<editor, faults>>
         /\ \/ /\ s \in current /\ row.retry = jobs[s].flag
               /\ Written("WORKING", jobs[s].window, row.anchor, row.attempt)
               /\ Claimed(s)
               /\ history' = IF jobs[s].window = row.window
                             THEN [history EXCEPT !.runs = @ + 1]
                             ELSE [runs |-> 1, out |-> FALSE, disturbed |-> FALSE]
            \/ Leaves(s) /\ history' = history /\ ~Unchanged(s)
<1>1. CASE Unchanged(s)
  <2> DEFINE owns(t) == t \in Copies(s)
             pc(t) == IF t = s THEN "claimed" ELSE jobs[t].pc
             ran(t) == jobs[t].ran \/ t \in Copies(s)
             r(t) == [jobs[t] EXCEPT !.pc = pc(t), !.owns = owns(t),
                                     !.ran = ran(t), !.awaited = FALSE]
  <2>1. \A t \in Slots : jobs[t] \in Jobs
    BY DEF Typed
  <2>2. \A t \in Slots : owns(t) \in BOOLEAN /\ ran(t) \in BOOLEAN /\ pc(t) \in Pcs
    BY <2>1, PcsFacts DEF Jobs, Busy, Running
  <2>3. jobs' = [t \in Slots |-> r(t)]
    BY <1>1 DEF Claim
  <2>4. \A t \in Slots :
          /\ owns(t) <=> jobs[t].pc # "free" /\ jobs[t].id = jobs[s].id
          /\ ran(t) <=> jobs[t].ran \/ owns(t)
    BY DEF Copies, Live
  <2>5. pc(s) = "claimed" /\ \A t \in Slots \ {s} : pc(t) = jobs[t].pc
    OBVIOUS
  <2>6. Written("WORKING", jobs[s].window, row.anchor, row.attempt)
    <3>1. jobs[s].window \in Nat /\ "WORKING" \in States
      BY <2>1 DEF Jobs, States
    <3>2. WriteRow([row EXCEPT !.state = "WORKING", !.window = jobs[s].window])
      BY <1>1 DEF Claim
    <3>3. QED
      BY <3>1, <3>2, WriteFacts
  <2> HIDE DEF owns, ran, pc
  <2>7. \A t \in Slots :
          /\ r(t) \in Jobs
          /\ r(t).pc = pc(t) /\ r(t).id = jobs[t].id /\ r(t).retry = jobs[t].retry
          /\ r(t).window = jobs[t].window /\ r(t).owns = owns(t) /\ ~r(t).awaited
          /\ r(t).ran = ran(t) /\ r(t).flag = jobs[t].flag
          /\ r(t).started = jobs[t].started /\ r(t).left = jobs[t].left
          /\ r(t).late = jobs[t].late
    <3> TAKE t \in Slots
    <3> DEFINE o == owns(t)
               n == ran(t)
               p == pc(t)
    <3>1. jobs[t] \in Jobs /\ o \in BOOLEAN /\ n \in BOOLEAN /\ p \in Pcs
      BY <2>1, <2>2
    <3>2. r(t) = [jobs[t] EXCEPT !.pc = p, !.owns = o, !.ran = n, !.awaited = FALSE]
      OBVIOUS
    <3> HIDE DEF r, o, n, p
    <3>3. r(t) \in Jobs
      BY <3>1, <3>2 DEF Jobs
    <3>4. /\ r(t).pc = p /\ r(t).id = jobs[t].id /\ r(t).retry = jobs[t].retry
          /\ r(t).window = jobs[t].window /\ r(t).owns = o /\ ~r(t).awaited
          /\ r(t).ran = n /\ r(t).flag = jobs[t].flag
          /\ r(t).started = jobs[t].started /\ r(t).left = jobs[t].left
          /\ r(t).late = jobs[t].late
      BY <3>1, <3>2 DEF Jobs
    <3>5. QED
      BY <3>3, <3>4 DEF o, n, p
  <2> HIDE DEF r
  <2>8. Claimed(s)
    BY <2>3, <2>4, <2>5, <2>7 DEF Claimed
  <2>9. QED
    BY <1>1, <2>6, <2>8 DEF Claim, Unchanged
<1>2. CASE ~Unchanged(s)
  BY <1>2, DropFacts DEF Claim, Leaves, RowKept
<1>3. QED
  BY <1>1, <1>2

\* Only an owner writes; any other worker is finished.
LEMMA OwnedFacts ==
  ASSUME Typed, NEW s \in Slots, NEW r, WriteOwned(s, r, Free)
  PROVE  Ends(s) /\ (RowKept \/ (Owns(s) /\ WriteRow(r)))
<1>1. Drop(s) /\ (RowKept \/ (Owns(s) /\ WriteRow(r)))
  BY DEF WriteOwned, RowKept, Drop
<1>2. QED
  BY <1>1, DropFacts

\* A run is entered, unless it ends at once or has lost the row.
LEMMA EnterFacts ==
  ASSUME Typed, NEW s \in Slots, Enter(s)
  PROVE  /\ jobs[s].pc = "claimed" /\ UNCHANGED <<editor, faults, history>>
         /\ \/ Leaves(s) \/ Closes(s)
            \/ /\ Owns(s) /\ StateWritten("WORKING")
               /\ Moves(s, "work", row.retry, jobs[s].started, Recipients, jobs[s].late)
<1> DEFINE r == [jobs[s] EXCEPT !.pc = "work", !.flag = row.retry, !.left = Recipients]
<1>1. jobs[s].pc = "claimed" /\ UNCHANGED <<editor, faults, history>>
  BY DEF Enter
<1>2. {"GRACE", "WORKING"} \subseteq States /\ "GRACE" \in Idle
  BY DEF States, Idle
<1>3. CASE WriteOwned(s, [row EXCEPT !.state = "GRACE"], Free)
  BY <1>1, <1>2, <1>3, OwnedFacts, WriteFacts DEF Leaves, Closes, Running
<1>4. CASE WriteOwned(s, [row EXCEPT !.state = "WORKING"], r)
  <2>1. CASE ~Owns(s)
    BY <1>1, <1>4, <2>1, DropFacts DEF WriteOwned, Leaves, RowKept
  <2>2. CASE Owns(s)
    <3>1. StateWritten("WORKING") /\ jobs' = [jobs EXCEPT ![s] = r]
      BY <1>2, <1>4, <2>2, WriteFacts DEF WriteOwned
    <3>2. jobs[s] \in Jobs /\ row.retry \in BOOLEAN /\ Recipients \in 0..Recipients
      BY ReportAssumption DEF ReportAssumption, Typed, Rows
    <3>3. r \in Jobs
      BY <3>2, PcsFacts DEF Jobs, Busy, Running
    <3>4. Others(s) /\ jobs'[s] = r
      BY <3>1, <3>3, BecomeFacts
    <3>5. Moves(s, "work", row.retry, jobs[s].started, Recipients, jobs[s].late)
      BY <3>2, <3>4 DEF Moves, Keeps, Jobs
    <3>6. QED
      BY <1>1, <2>2, <3>1, <3>5
  <2>3. QED
    BY <2>1, <2>2
<1>5. QED
  BY <1>3, <1>4 DEF Enter

\* The query and the capture of the content end in one of four ways.
LEMMA WorkFacts ==
  ASSUME Typed, NEW s \in Slots, Work(s)
  PROVE  /\ jobs[s].pc = "work" /\ UNCHANGED <<editor, faults, history>> /\ RowKept
         /\ \E pc \in {"quiet", "send", "failed", "overrun"} : MovesTo(s, pc)
<1>1. {"quiet", "send", "failed", "overrun"} \subseteq Pcs
  BY PcsFacts DEF Busy, Running
<1>2. QED
  BY <1>1, GotoFacts DEF Work, Overrun, RowKept

\* Only an owner is cleared for the next recipient.
LEMMA AssertFacts ==
  ASSUME Typed, NEW s \in Slots, Assert(s)
  PROVE  /\ jobs[s].pc = "send" /\ UNCHANGED <<editor, faults, history>>
         /\ \/ Leaves(s)
            \/ /\ Owns(s) /\ RowKept
               /\ \E pc \in {"deliver", "failed", "overrun"} :
                    Moves(s, pc, row.retry, jobs[s].started, jobs[s].left, jobs[s].late)
<1>1. CASE Owns(s)
  <2>1. PICK pc \in {"deliver", "failed", "overrun"} :
          jobs' = [jobs EXCEPT ![s].pc = pc, ![s].flag = row.retry]
    BY <1>1 DEF Assert, Overrun
  <2> DEFINE r == [jobs[s] EXCEPT !.pc = pc, !.flag = row.retry]
  <2>2. jobs[s] \in Jobs /\ row.retry \in BOOLEAN /\ pc \in Pcs
    BY PcsFacts DEF Typed, Rows, Busy, Running
  <2>3. r \in Jobs /\ jobs' = [jobs EXCEPT ![s] = r]
    BY <2>1, <2>2 DEF Jobs, Typed
  <2>4. Others(s) /\ jobs'[s] = r
    BY <2>3, BecomeFacts
  <2>5. Moves(s, pc, row.retry, jobs[s].started, jobs[s].left, jobs[s].late)
    BY <2>2, <2>4 DEF Moves, Keeps, Jobs
  <2>6. QED
    BY <1>1, <2>5 DEF Assert, RowKept
<1>2. CASE ~Owns(s)
  BY <1>2, DropFacts DEF Assert, Leaves, RowKept
<1>3. QED
  BY <1>1, <1>2

\* A delivery counts as one, and as late when the row was lost before.
LEMMA DeliverFacts ==
  ASSUME Typed, NEW s \in Slots, jobs[s].left >= 1, Deliver(s)
  PROVE  /\ jobs[s].pc = "deliver" /\ UNCHANGED <<editor, faults>> /\ RowKept
         /\ history' = [history EXCEPT !.out = @ \/ jobs[s].window = row.window]
         /\ \E pc \in {"failed", "overrun", "send", "delivered"} :
              /\ pc = "send" => jobs[s].left > 1
              /\ Moves(s, pc, jobs[s].flag, TRUE, jobs[s].left - 1,
                       IF Owns(s) THEN jobs[s].late ELSE jobs[s].late + 1)
<1> DEFINE late == IF Owns(s) THEN jobs[s].late ELSE jobs[s].late + 1
<1>1. PICK pc \in {"failed", "overrun", "send", "delivered"} :
        /\ pc = "send" => jobs[s].left > 1
        /\ jobs' = [jobs EXCEPT ![s] =
             [jobs[s] EXCEPT !.pc = pc, !.started = TRUE, !.left = jobs[s].left - 1,
                             !.late = late]]
  BY DEF Deliver, AfterDelivery, Overrun
<1> DEFINE r == [jobs[s] EXCEPT !.pc = pc, !.started = TRUE, !.left = jobs[s].left - 1,
                                !.late = late]
<1>2. /\ jobs[s] \in Jobs /\ pc \in Pcs /\ late \in Nat
      /\ jobs[s].left - 1 \in 0..Recipients
  BY PcsFacts, ReportAssumption DEF ReportAssumption, Typed, Busy, Running, Jobs
<1> HIDE DEF late
<1>3. r \in Jobs /\ jobs' = [jobs EXCEPT ![s] = r]
  BY <1>1, <1>2 DEF Jobs
<1>4. Others(s) /\ jobs'[s] = r
  BY <1>3, BecomeFacts
<1>5. Moves(s, pc, jobs[s].flag, TRUE, jobs[s].left - 1, late)
  BY <1>2, <1>4 DEF Moves, Keeps, Jobs
<1>6. QED
  BY <1>1, <1>5 DEF Deliver, RowKept, late

\* A run that no failure ended ends with an idle row.
LEMMA FinishFacts ==
  ASSUME Typed, NEW s \in Slots, Finish(s)
  PROVE  /\ jobs[s].pc \in Running /\ UNCHANGED <<editor, faults, history>>
         /\ Leaves(s) \/ Closes(s)
<1> DEFINE state == Terminal[jobs[s].pc]
<1>1. jobs[s].pc \in Running /\ state \in Idle /\ state \in States
  BY PcsFacts DEF Finish, Running, States
<1>2. \/ WriteOwned(s, [row EXCEPT !.state = state], Free)
      \/ WriteOwned(s, Reset([row EXCEPT !.state = state]), Free)
  BY DEF Finish
<1> HIDE DEF state
<1>3. Leaves(s) \/ Closes(s)
  BY <1>1, <1>2, OwnedFacts, WriteFacts DEF Leaves, Closes
<1>4. QED
  BY <1>1, <1>3 DEF Finish

\* A failure ends the run with an idle row, or a retry is to be published.
LEMMA FailFacts ==
  ASSUME Typed, NEW s \in Slots, Fail(s)
  PROVE  /\ jobs[s].pc = "failed" /\ UNCHANGED <<editor, faults, history>>
         /\ \/ Leaves(s) \/ Closes(s)
            \/ /\ Owns(s) /\ jobs[s].flag /\ ~jobs[s].started /\ MovesTo(s, "publish")
               /\ Attempts(row, jobs[s]) < MaxAttempts
               /\ Written("RETRYING", row.window, jobs[s].window,
                          Attempts(row, jobs[s]) + 1)
<1> DEFINE error == [row EXCEPT !.state = "ERROR"]
           retry == [row EXCEPT !.state = "RETRYING", !.attempt = Attempts(row, jobs[s]) + 1,
                                !.anchor = jobs[s].window]
<1>1. jobs[s].pc = "failed" /\ UNCHANGED <<editor, faults, history>>
  BY DEF Fail
<1>2. PICK permanent \in BOOLEAN :
        LET r == AfterFailure(row, jobs[s], permanent) IN
        WriteOwned(s, r, IF r.state = "RETRYING" THEN [jobs[s] EXCEPT !.pc = "publish"]
                                                 ELSE Free)
  BY DEF Fail
<1> DEFINE r == AfterFailure(row, jobs[s], permanent)
<1>3. \/ r \in {error, Reset(error)}
      \/ /\ r = retry /\ jobs[s].flag /\ ~jobs[s].started
         /\ Attempts(row, jobs[s]) < MaxAttempts
  BY DEF AfterFailure, DeliveryBegun, AttemptsLeft
<1>4. error.state = "ERROR" /\ Reset(error).state = "ERROR" /\ retry.state = "RETRYING"
  BY DEF Reset, Typed, Rows
<1>5. /\ {"ERROR", "RETRYING"} \subseteq States /\ "ERROR" \in Idle
      /\ jobs[s].window \in Nat
      /\ Attempts(row, jobs[s]) < MaxAttempts => Attempts(row, jobs[s]) + 1 \in 0..MaxAttempts
  BY ReportAssumption DEF States, Idle, Typed, Rows, Jobs, Attempts, ReportAssumption
<1>6. CASE r \in {error, Reset(error)}
  <2>1. WriteOwned(s, r, Free)
    BY <1>2, <1>4, <1>6
  <2>2. Leaves(s) \/ Closes(s)
    BY <1>1, <1>5, <1>6, <2>1, OwnedFacts, WriteFacts DEF Leaves, Closes, Running
  <2>3. QED
    BY <1>1, <2>2
<1>7. CASE r = retry /\ Attempts(row, jobs[s]) < MaxAttempts
  <2>1. WriteOwned(s, retry, [jobs[s] EXCEPT !.pc = "publish"])
    BY <1>2, <1>4, <1>7
  <2>2. CASE ~Owns(s)
    BY <1>1, <2>1, <2>2, DropFacts DEF WriteOwned, Leaves, RowKept
  <2>3. CASE Owns(s)
    <3>1. Goto(s, "publish") /\ WriteRow(retry)
      BY <2>1, <2>3 DEF WriteOwned, Goto
    <3>2. MovesTo(s, "publish")
      BY <3>1, GotoFacts, PcsFacts DEF Busy
    <3>3. Written("RETRYING", row.window, jobs[s].window, Attempts(row, jobs[s]) + 1)
      BY <1>5, <1>7, <3>1, WriteFacts
    <3>4. QED
      BY <1>1, <1>3, <1>4, <1>7, <2>3, <3>2, <3>3
  <2>4. QED
    BY <2>2, <2>3
<1>8. QED
  BY <1>3, <1>6, <1>7

\* A message that no other is a copy of takes slot s.
Enqueued(s, window, retry, awaited) ==
  /\ jobs'[s].pc = "queued" /\ jobs'[s].id = FreshId(s) /\ jobs'[s].window = window
  /\ jobs'[s].retry = retry /\ jobs'[s].awaited = awaited
  /\ ~jobs'[s].owns /\ ~jobs'[s].ran /\ jobs'[s].late = 0

\* The retry takes the place of the run that failed.
LEMMA PublishFacts ==
  ASSUME Typed, NEW s \in Slots, Publish(s)
  PROVE  /\ jobs[s].pc = "publish" /\ UNCHANGED <<editor, faults, history>> /\ RowKept
         /\ Others(s) /\ Enqueued(s, jobs[s].window, TRUE, Owns(s))
<1> DEFINE r == RetryOf(s)
<1>1. /\ jobs[s] \in Jobs /\ Free \in Jobs /\ FreshId(s) \in Slots /\ "queued" \in Pcs
      /\ Owns(s) \in BOOLEAN /\ Owns(s) = jobs[s].owns
  BY FreeType, FreshIdFacts, PcsFacts DEF Typed, Jobs, Owns
<1>2. /\ r \in Jobs /\ r.pc = "queued" /\ r.id = FreshId(s) /\ r.window = jobs[s].window
      /\ r.retry /\ r.awaited = Owns(s) /\ ~r.owns /\ ~r.ran /\ r.late = 0
  BY <1>1, FreeFields DEF RetryOf, Jobs
<1>3. jobs' = [jobs EXCEPT ![s] = r]
  BY DEF Publish
<1> HIDE DEF r
<1>4. Others(s) /\ jobs'[s] = r
  BY <1>2, <1>3, BecomeFacts
<1>5. QED
  BY <1>2, <1>4 DEF Publish, RowKept, Enqueued

\* The last try to write a terminal status, for an owner.
LEMMA BoundaryFacts ==
  ASSUME Typed, NEW s \in Slots, Boundary(s)
  PROVE  /\ jobs[s].pc = "boundary" /\ UNCHANGED <<editor, faults, history>>
         /\ Leaves(s) \/ Closes(s)
<1>1. "ERROR" \in States /\ "ERROR" \in Idle
  BY DEF States, Idle
<1>2. QED
  BY <1>1, DropFacts, WriteFacts DEF Boundary, Leaves, Closes, RowKept, Running

\* What a message is when it is delivered again.
LEMMA AgainFacts ==
  ASSUME Typed, NEW s \in Slots, NEW t \in Slots,
         jobs' = [jobs EXCEPT ![t] = Again(jobs[s])]
  PROVE  Delivered(s, t)
<1> DEFINE r == Again(jobs[s])
<1>1. jobs[s] \in Jobs /\ Free \in Jobs /\ "queued" \in Pcs
  BY FreeType, PcsFacts DEF Typed
<1>2. /\ r \in Jobs /\ r.pc = "queued" /\ r.id = jobs[s].id /\ r.window = jobs[s].window
      /\ r.retry = jobs[s].retry /\ r.owns = jobs[s].owns
      /\ r.awaited = jobs[s].awaited /\ r.ran = jobs[s].ran /\ r.late = 0
  BY <1>1, FreeFields DEF Again, Jobs
<1> HIDE DEF r
<1>3. Others(t) /\ jobs'[t] = r
  BY <1>2, BecomeFacts DEF r
<1>4. QED
  BY <1>2, <1>3 DEF Delivered

\* A worker dies with its message, or the message is delivered again.
LEMMA CrashFacts ==
  ASSUME Typed, NEW s \in Slots, Crash(s)
  PROVE  /\ jobs[s].pc \notin {"free", "queued"} /\ UNCHANGED editor /\ RowKept
         /\ history' = [history EXCEPT !.disturbed = TRUE]
         /\ Ends(s) \/ Delivered(s, s)
BY DropFacts, AgainFacts DEF Crash, Disturb, RowKept

\* A message is delivered twice.
LEMMA RedeliverFacts ==
  ASSUME Typed, NEW s \in Slots, NEW t \in Slots, Redeliver(s, t)
  PROVE  /\ jobs[s].pc # "free" /\ jobs[t].pc = "free"
         /\ UNCHANGED <<editor, history>> /\ RowKept /\ Delivered(s, t)
BY AgainFacts DEF Redeliver, RowKept

\* A failed write is one more failure of the run, or its end.
LEMMA WriteFailsFacts ==
  ASSUME Typed, NEW s \in Slots, WriteFails(s)
  PROVE  /\ jobs[s].pc \in Running \ Sending \/ jobs[s].pc = "claimed"
         /\ UNCHANGED <<editor, history>> /\ RowKept
         /\ Ends(s) \/ \E pc \in {"boundary", "failed"} : MovesTo(s, pc)
<1>1. {"boundary", "failed"} \subseteq Pcs
  BY PcsFacts DEF Busy, Running
<1>2. Ends(s) \/ \E pc \in {"boundary", "failed"} : MovesTo(s, pc)
  BY <1>1, GotoFacts, DropFacts DEF WriteFails
<1>3. QED
  BY <1>2 DEF WriteFails, RowKept, Running, Sending

\* The retry is lost.
LEMMA PublishFailsFacts ==
  ASSUME Typed, NEW s \in Slots, PublishFails(s)
  PROVE  /\ jobs[s].pc = "publish" /\ UNCHANGED editor /\ RowKept /\ Ends(s)
         /\ history' = [history EXCEPT !.disturbed = TRUE]
BY DropFacts DEF PublishFails, Drop, Disturb, RowKept

\* The row keeps its windows and counter.
RowOtherwiseKept ==
  /\ row' \in Rows /\ row'.window = row.window /\ row'.anchor = row.anchor
  /\ row'.attempt = row.attempt

\* Time passes ...
LEMMA AgeFacts ==
  ASSUME Typed, Age
  PROVE  /\ RowOtherwiseKept /\ row'.state = row.state /\ row'.retry = row.retry
         /\ row'.old /\ UNCHANGED <<jobs, current, editor, faults, history>>
BY DEF Typed, Rows, Age, RowOtherwiseKept

\* ... somebody edits the schedule ...
LEMMA ToggleFacts ==
  ASSUME Typed, Toggle
  PROVE  /\ RowOtherwiseKept /\ row'.state = row.state /\ row'.old = row.old
         /\ UNCHANGED <<jobs, current, editor>>
         /\ history' = [history EXCEPT !.disturbed = TRUE]
BY DEF Typed, Rows, Toggle, Disturb, RowOtherwiseKept

\* ... or deactivates it.
LEMMA DeactivateFacts ==
  ASSUME Typed, Deactivate
  PROVE  /\ RowOtherwiseKept /\ row'.state = "NOOP" /\ row'.retry = row.retry
         /\ row'.old = row.old /\ current' \subseteq current
         /\ row.state # "NOOP" => current' = {}
         /\ editor = "decided" /\ editor' = "idle" /\ UNCHANGED <<jobs, faults, history>>
<1>1. "NOOP" \in States
  BY DEF States, Idle
<1>2. QED
  BY <1>1 DEF Typed, Rows, Deactivate, RowOtherwiseKept

\* All windows are renumbered.
Renumbered(s) ==
  /\ jobs' \in [Slots -> Jobs]
  /\ \A t \in Slots \ {s} :
       /\ jobs'[t].window = Rank(jobs[t].window)
       /\ jobs'[t].pc = jobs[t].pc /\ jobs'[t].id = jobs[t].id
       /\ jobs'[t].retry = jobs[t].retry /\ jobs'[t].owns = jobs[t].owns
       /\ jobs'[t].awaited = jobs[t].awaited /\ jobs'[t].ran = jobs[t].ran
       /\ jobs'[t].flag = jobs[t].flag /\ jobs'[t].started = jobs[t].started
       /\ jobs'[t].left = jobs[t].left /\ jobs'[t].late = jobs[t].late

\* A new window comes, and its message.
LEMMA TickFacts ==
  ASSUME Typed, NEW s \in Slots, Tick(s)
  PROVE  /\ jobs[s].pc = "free" /\ UNCHANGED <<current, editor, faults, history>>
         /\ row' \in Rows
         /\ row'.state = row.state /\ row'.attempt = row.attempt
         /\ row'.retry = row.retry /\ row'.old = row.old
         /\ row'.window = Rank(row.window) /\ row'.anchor = Rank(row.anchor)
         /\ Renumbered(s)
         /\ Enqueued(s, Cardinality(UsedWindows) + 1, FALSE, FALSE)
<1> DEFINE new == CronMessage(s, Cardinality(UsedWindows) + 1)
<1>1. row \in Rows /\ \A t \in Slots : jobs[t] \in Jobs
  BY DEF Typed
<1>2. /\ Rank(row.window) \in Nat /\ Rank(row.anchor) \in Nat
      /\ \A t \in Slots : Rank(jobs[t].window) \in Nat
      /\ Cardinality(UsedWindows) \in Nat
  <2>1. \A v \in UsedWindows \cup {NoWindow} :
          Rank(v) \in Nat /\ Cardinality(UsedWindows) \in Nat
    BY RankFacts
  <2>2. {row.window, row.anchor} \subseteq UsedWindows \cup {NoWindow}
        /\ \A t \in Slots : jobs[t].window \in UsedWindows \cup {NoWindow}
    BY DEF UsedWindows
  <2>3. QED
    BY <2>1, <2>2
<1>3. /\ row' \in Rows
      /\ row'.state = row.state /\ row'.attempt = row.attempt
      /\ row'.retry = row.retry /\ row'.old = row.old
      /\ row'.window = Rank(row.window) /\ row'.anchor = Rank(row.anchor)
  BY <1>1, <1>2 DEF Tick, Rows
<1>4. /\ new \in Jobs /\ new.pc = "queued" /\ new.id = FreshId(s) /\ ~new.retry
      /\ new.window = Cardinality(UsedWindows) + 1 /\ ~new.awaited /\ ~new.owns
      /\ ~new.ran /\ new.late = 0
  <2> DEFINE w == Cardinality(UsedWindows) + 1
             i == FreshId(s)
  <2>1. Free \in Jobs /\ i \in Slots /\ "queued" \in Pcs
    BY FreeType, FreshIdFacts, PcsFacts
  <2>2. w \in Nat
    BY <1>2
  <2>3. new = [Free EXCEPT !.pc = "queued", !.id = i, !.window = w]
    BY DEF CronMessage
  <2> HIDE DEF new, w, i
  <2>4. /\ new \in Jobs /\ new.pc = "queued" /\ new.id = i /\ ~new.retry
        /\ new.window = w /\ ~new.awaited /\ ~new.owns /\ ~new.ran
        /\ new.late = 0
    BY <2>1, <2>2, <2>3, FreeFields DEF Jobs
  <2>5. QED
    BY <2>4 DEF w, i
<1>5. jobs' = [t \in Slots |-> IF t = s THEN new
                 ELSE [jobs[t] EXCEPT !.window = Rank(jobs[t].window)]]
  BY DEF Tick
<1> HIDE DEF new
<1>6. jobs' \in [Slots -> Jobs]
  <2>1. \A t \in Slots : [jobs[t] EXCEPT !.window = Rank(jobs[t].window)] \in Jobs
    BY <1>1, <1>2 DEF Jobs
  <2>2. QED
    BY <1>4, <1>5, <2>1
<1>7. Renumbered(s)
  BY <1>1, <1>5, <1>6 DEF Renumbered, Jobs
<1>8. Enqueued(s, Cardinality(UsedWindows) + 1, FALSE, FALSE)
  BY <1>4, <1>5 DEF Enqueued
<1>9. QED
  BY <1>3, <1>7, <1>8 DEF Tick

----------------------------------------------------------------------------
(* The steps keep the invariant.                                           *)

\* Row, jobs, readers, editor, faults and history keep their types.
LEMMA TypeStep ==
  Typed /\ (\A s \in Slots : LateInv(s)) /\ [Next]_vars => Typed'
<1> SUFFICES ASSUME Typed, \A s \in Slots : LateInv(s), [Next]_vars PROVE Typed'
  OBVIOUS
<1>1. /\ row \in Rows /\ jobs \in [Slots -> Jobs] /\ current \subseteq Slots
      /\ editor \in {"idle", "decided"} /\ faults \in 0..MaxFaults
      /\ history \in [runs : Nat, out : BOOLEAN, disturbed : BOOLEAN]
      /\ [history EXCEPT !.disturbed = TRUE] \in
            [runs : Nat, out : BOOLEAN, disturbed : BOOLEAN]
  BY DEF Typed
<1>2. ASSUME row' \in Rows, jobs' \in [Slots -> Jobs], current' \subseteq Slots,
             editor' \in {"idle", "decided"}, faults' \in 0..MaxFaults,
             history' \in [runs : Nat, out : BOOLEAN, disturbed : BOOLEAN]
      PROVE  Typed'
  BY <1>2 DEF Typed
<1>3. ASSUME Fault PROVE faults' \in 0..MaxFaults
  BY <1>1, <1>3, ReportAssumption DEF Fault, ReportAssumption
<1> USE DEF Others, RowKept, Written, StateWritten, Keeps, Moves, MovesTo, Ends, Leaves,
        Closes
<1>4. ASSUME NEW s \in Slots, Start(s) PROVE Typed'
  BY <1>1, <1>2, <1>4, StartFacts
<1>5. ASSUME NEW s \in Slots, CancelDisabled(s) PROVE Typed'
  BY <1>1, <1>2, <1>5, CancelFacts
<1>6. ASSUME NEW s \in Slots, Recover(s) PROVE Typed'
  BY <1>1, <1>2, <1>6, RecoverFacts DEF Disowned
<1>7. ASSUME NEW s \in Slots, ReadClaim(s) PROVE Typed'
  BY <1>1, <1>2, <1>7, ReadClaimFacts
<1>8. ASSUME NEW s \in Slots, Claim(s) PROVE Typed'
  <2>1. history' \in [runs : Nat, out : BOOLEAN, disturbed : BOOLEAN]
    <3>1. CASE history' = [history EXCEPT !.runs = @ + 1]
      BY <1>1, <3>1
    <3>2. CASE history' = [runs |-> 1, out |-> FALSE, disturbed |-> FALSE]
      BY <3>2
    <3>3. QED
      BY <1>1, <1>8, <3>1, <3>2, ClaimFacts
  <2>2. QED
    BY <1>1, <1>2, <1>8, <2>1, ClaimFacts DEF Claimed
<1>9. ASSUME NEW s \in Slots, Enter(s) PROVE Typed'
  BY <1>1, <1>2, <1>9, EnterFacts
<1>10. ASSUME NEW s \in Slots, Work(s) PROVE Typed'
  BY <1>1, <1>2, <1>10, WorkFacts
<1>11. ASSUME NEW s \in Slots, Assert(s) PROVE Typed'
  BY <1>1, <1>2, <1>11, AssertFacts
<1>12. ASSUME NEW s \in Slots, Deliver(s) PROVE Typed'
  <2>1. jobs[s].left >= 1
    BY <1>12 DEF LateInv, Deliver
  <2> DEFINE out == history.out \/ jobs[s].window = row.window
  <2>2. history' = [history EXCEPT !.out = out]
    BY <1>12, <2>1, DeliverFacts
  <2>3. out \in BOOLEAN
    BY <1>1
  <2> HIDE DEF out
  <2>4. history' \in [runs : Nat, out : BOOLEAN, disturbed : BOOLEAN]
    BY <1>1, <2>2, <2>3
  <2>5. QED
    BY <1>1, <1>2, <1>12, <2>1, <2>4, DeliverFacts
<1>13. ASSUME NEW s \in Slots, Finish(s) PROVE Typed'
  BY <1>1, <1>2, <1>13, FinishFacts
<1>14. ASSUME NEW s \in Slots, Fail(s) PROVE Typed'
  BY <1>1, <1>2, <1>14, FailFacts
<1>15. ASSUME NEW s \in Slots, Publish(s) PROVE Typed'
  BY <1>1, <1>2, <1>15, PublishFacts
<1>16. ASSUME NEW s \in Slots, Boundary(s) PROVE Typed'
  BY <1>1, <1>2, <1>16, BoundaryFacts
<1>17. ASSUME NEW s \in Slots, Crash(s) PROVE Typed'
  BY <1>1, <1>2, <1>3, <1>17, CrashFacts DEF Delivered, Crash
<1>18. ASSUME NEW s \in Slots, NEW t \in Slots, Redeliver(s, t) PROVE Typed'
  BY <1>1, <1>2, <1>3, <1>18, RedeliverFacts DEF Delivered, Redeliver
<1>19. ASSUME NEW s \in Slots, WriteFails(s) PROVE Typed'
  BY <1>1, <1>2, <1>3, <1>19, WriteFailsFacts DEF WriteFails
<1>20. ASSUME NEW s \in Slots, PublishFails(s) PROVE Typed'
  BY <1>1, <1>2, <1>3, <1>20, PublishFailsFacts DEF PublishFails
<1>21. ASSUME NEW s \in Slots, Tick(s) PROVE Typed'
  BY <1>1, <1>2, <1>21, TickFacts DEF Renumbered
<1>22. CASE Age
  BY <1>1, <1>2, <1>22, AgeFacts DEF RowOtherwiseKept
<1>23. CASE Toggle
  BY <1>1, <1>2, <1>3, <1>23, ToggleFacts DEF RowOtherwiseKept, Toggle
<1>24. CASE DecideDeactivate
  BY <1>1, <1>2, <1>3, <1>24 DEF DecideDeactivate
<1>25. CASE Deactivate
  BY <1>1, <1>2, <1>25, DeactivateFacts DEF RowOtherwiseKept
<1>26. CASE UNCHANGED vars
  BY <1>1, <1>2, <1>26 DEF vars
<1>27. QED
  BY <1>4, <1>5, <1>6, <1>7, <1>8, <1>9, <1>10, <1>11, <1>12, <1>13, <1>14, <1>15,
     <1>16, <1>17, <1>18, <1>19, <1>20, <1>21, <1>22, <1>23, <1>24, <1>25, <1>26
     DEF Next, JobStep

\* A message stays what it is while its job goes on.
LEMMA MessageMoves ==
  ASSUME Typed, MessagesInv, NEW s \in Slots, row'.window = row.window, Keeps(s),
         jobs[s].pc # "free", jobs'[s].pc # "free",
         jobs'[s].pc \in Busy => jobs[s].pc \in Busy
  PROVE  MessagesInv'
<1>1. \A t \in Slots : FreeInv(t)' /\ MessageInv(t)'
  BY DEF MessagesInv, FreeInv, MessageInv, Keeps, Others
<1>2. \A t, u \in Slots : PairInv(t, u)'
  BY DEF MessagesInv, PairInv, Keeps, Others
<1>3. QED
  BY <1>1, <1>2 DEF MessagesInv

\* The end of a job concerns no other.
LEMMA MessageEnds ==
  ASSUME Typed, MessagesInv, NEW s \in Slots, row'.window = row.window, Ends(s)
  PROVE  MessagesInv'
<1>1. \A t \in Slots : FreeInv(t)' /\ MessageInv(t)'
  BY DEF MessagesInv, FreeInv, MessageInv, Ends, Others
<1>2. \A t, u \in Slots : PairInv(t, u)'
  BY DEF MessagesInv, PairInv, Ends, Others
<1>3. QED
  BY <1>1, <1>2 DEF MessagesInv

\* A second delivery agrees with the first.
LEMMA MessageDelivered ==
  ASSUME Typed, MessagesInv, NEW s \in Slots, NEW t \in Slots, row' = row,
         Delivered(s, t), jobs[s].pc # "free", t = s \/ jobs[t].pc = "free"
  PROVE  MessagesInv'
<1>b. "queued" \notin Busy
  BY DEF Busy, Running
<1>1. \A u \in Slots : FreeInv(u)' /\ MessageInv(u)'
  BY <1>b DEF MessagesInv, FreeInv, MessageInv, Delivered, Others
<1>2. \A u, v \in Slots : PairInv(u, v)'
  BY <1>b DEF MessagesInv, PairInv, Delivered, Others
<1>3. QED
  BY <1>1, <1>2 DEF MessagesInv

\* Neither time nor an edit changes a message.
LEMMA MessageStays ==
  ASSUME MessagesInv, row'.window = row.window, jobs' = jobs
  PROVE  MessagesInv'
BY DEF MessagesInv, FreeInv, MessageInv, PairInv

\* A claim makes the message and its copies the owner.
LEMMA MessageClaim ==
  ASSUME Typed, MessagesInv, CounterInv, NEW s \in Slots, ReadInv(s), Claim(s)
  PROVE  MessagesInv'
<1>1. CASE Leaves(s)
  BY <1>1, MessageEnds DEF Leaves, RowKept
<1>2. CASE /\ s \in current /\ Claimed(s)
           /\ Written("WORKING", jobs[s].window, row.anchor, row.attempt)
  <2>1. /\ row'.window = jobs[s].window /\ jobs[s].pc = "cas"
        /\ jobs[s].window \in Nat /\ row.window \in Nat
        /\ \A t \in Slots : jobs[t].window \in Nat
    BY <1>2, ClaimFacts DEF Written, Typed, Rows, Jobs
  <2>2. row.window <= jobs[s].window
    BY <1>2, <2>1 DEF ReadInv, NoWindow, CounterInv
  <2>3. \A t \in Slots : FreeInv(t)' /\ MessageInv(t)'
    BY <1>2, <2>1, <2>2
       DEF MessagesInv, FreeInv, MessageInv, PairInv, Claimed, Busy, Running
  <2>4. \A t, u \in Slots : PairInv(t, u)'
    <3>1. \A t \in Slots :
            /\ jobs'[t].owns \in BOOLEAN /\ jobs'[t].ran \in BOOLEAN
            /\ jobs'[t].awaited \in BOOLEAN
            /\ jobs'[t].owns /\ t # s => jobs'[t].pc \notin Busy
      <4>1. ~jobs[s].ran
        BY <1>2, <2>1 DEF ReadInv, MessagesInv, MessageInv, NoWindow
      <4>2. \A t \in Slots : jobs'[t] \in Jobs
        BY <1>2 DEF Claimed
      <4>3. QED
        BY <1>2, <2>1, <4>1, <4>2 DEF Claimed, MessagesInv, MessageInv, PairInv, Jobs
    <3>2. QED
      BY <1>2, <2>1, <3>1 DEF MessagesInv, PairInv, Claimed
  <2>5. QED
    BY <2>3, <2>4 DEF MessagesInv
<1>3. QED
  BY <1>1, <1>2, ClaimFacts

\* A recovery leaves neither an owner nor an awaited message.
LEMMA MessageRecover ==
  ASSUME Typed, MessagesInv, NEW s \in Slots, Recover(s)
  PROVE  MessagesInv'
<1>1. CASE Leaves(s)
  BY <1>1, MessageEnds DEF Leaves, RowKept
<1>2. CASE StateWritten("ERROR") /\ Disowned(s)
  <2>1. row'.window = row.window
    BY <1>2 DEF StateWritten, Written
  <2>2. \A t \in Slots : FreeInv(t)' /\ MessageInv(t)'
    BY <1>2, <2>1 DEF MessagesInv, FreeInv, MessageInv, Disowned
  <2>3. \A t, u \in Slots : PairInv(t, u)'
    <3>1. SUFFICES ASSUME NEW t \in Slots, NEW u \in Slots,
                          jobs'[t].pc # "free", jobs'[u].pc # "free"
                   PROVE  PairInv(t, u)'
      BY DEF PairInv
    <3>2. t # s /\ u # s /\ PairInv(t, u)
      BY <1>2, <3>1 DEF MessagesInv, Disowned
    <3>3. \A v \in {t, u} :
            /\ jobs'[v].pc = jobs[v].pc /\ jobs'[v].id = jobs[v].id
            /\ jobs'[v].retry = jobs[v].retry /\ jobs'[v].window = jobs[v].window
            /\ jobs'[v].ran = jobs[v].ran
            /\ jobs'[v].owns = FALSE /\ jobs'[v].awaited = FALSE
      BY <1>2, <3>2 DEF Disowned, Jobs
    <3>4. QED
      BY <3>1, <3>2, <3>3 DEF PairInv
  <2>4. QED
    BY <2>2, <2>3 DEF MessagesInv
<1>3. QED
  BY <1>1, <1>2, RecoverFacts

\* A retry's message is new, and the only one awaited.
LEMMA MessagePublish ==
  ASSUME Typed, MessagesInv, NEW s \in Slots, Publish(s)
  PROVE  MessagesInv'
<1> DEFINE id == FreshId(s)
<1>1. /\ jobs[s].pc = "publish" /\ row' = row /\ Others(s)
      /\ Enqueued(s, jobs[s].window, TRUE, Owns(s))
  BY PublishFacts DEF RowKept
<1>2. \A t \in Slots \ {s} : jobs[t].pc # "free" => jobs[t].id # id
  BY FreshIdFacts
<1>3. "publish" \in Busy /\ "queued" \notin Busy
  BY DEF Busy, Running
<1>4. jobs'[s].id = id
  BY <1>1 DEF Enqueued
<1> HIDE DEF id
<1>5. \A t \in Slots : FreeInv(t)' /\ MessageInv(t)'
  BY <1>1, <1>3 DEF MessagesInv, FreeInv, MessageInv, Others, Enqueued
<1>6. \A t \in Slots \ {s} : ~(jobs[t].pc # "free" /\ jobs[t].awaited /\ Owns(s))
  BY <1>1, <1>3 DEF MessagesInv, PairInv, Owns
<1>7. \A t \in Slots \ {s} : jobs[t].owns /\ Owns(s) => jobs[t].pc \notin Busy
  BY <1>1, <1>3 DEF MessagesInv, PairInv, FreeInv, Owns
<1>8. \A t, u \in Slots : PairInv(t, u)'
  BY <1>1, <1>2, <1>3, <1>4, <1>6, <1>7 DEF MessagesInv, PairInv, Others, Enqueued
<1>9. QED
  BY <1>5, <1>8 DEF MessagesInv

\* A renumbering keeps the order; the new message is of the latest window.
LEMMA MessageTick ==
  ASSUME Typed, MessagesInv, NEW s \in Slots, Tick(s)
  PROVE  MessagesInv'
<1>1. /\ jobs[s].pc = "free" /\ row'.window = Rank(row.window) /\ Renumbered(s)
      /\ Enqueued(s, Cardinality(UsedWindows) + 1, FALSE, FALSE)
  BY TickFacts
<1>2. /\ jobs'[s].id = FreshId(s)
      /\ \A t \in Slots \ {s} : jobs[t].pc # "free" => jobs[t].id # FreshId(s)
  BY <1>1, FreshIdFacts DEF Enqueued
<1>3. \A t \in Slots : /\ jobs[t].window \in UsedWindows \cup {NoWindow}
                       /\ jobs[t].window \in Nat
  BY DEF UsedWindows, Typed, Jobs
<1>4. row.window \in UsedWindows \cup {NoWindow} /\ row.window \in Nat
  BY DEF UsedWindows, Typed, Rows
<1>5. /\ Cardinality(UsedWindows) \in Nat
      /\ \A v \in UsedWindows \cup {NoWindow} :
           /\ Rank(v) \in Nat
           /\ Rank(v) = NoWindow <=> v = NoWindow
           /\ \A w \in UsedWindows : v < w => Rank(v) < Rank(w)
  BY RankFacts
<1>6. \A t \in Slots :
        /\ Rank(jobs[t].window) = NoWindow <=> jobs[t].window = NoWindow
        /\ jobs[t].window <= row.window => Rank(jobs[t].window) <= Rank(row.window)
        /\ jobs[t].window = row.window => Rank(jobs[t].window) = Rank(row.window)
  BY <1>3, <1>4, <1>5 DEF NoWindow
<1>7. "queued" \notin Busy /\ Cardinality(UsedWindows) + 1 # NoWindow
  BY <1>5 DEF Busy, Running, NoWindow
<1>8. \A t \in Slots : FreeInv(t)' /\ MessageInv(t)'
  BY <1>1, <1>6, <1>7 DEF MessagesInv, FreeInv, MessageInv, Renumbered, Enqueued
<1>9. \A t, u \in Slots : PairInv(t, u)'
  BY <1>1, <1>2, <1>7 DEF MessagesInv, PairInv, Renumbered, Enqueued
<1>10. QED
  BY <1>8, <1>9 DEF MessagesInv

\* Every step keeps what the messages are.
LEMMA MessagesStep == IInv /\ [Next]_vars => MessagesInv'
<1> SUFFICES ASSUME IInv, [Next]_vars PROVE MessagesInv'
  OBVIOUS
<1> USE DEF IInv
<1>b. /\ "queued" \notin Busy /\ "cancel" \notin Busy /\ "recover" \notin Busy
      /\ "claim" \notin Busy /\ "cas" \notin Busy /\ "free" \notin Busy
      /\ {"claimed", "work", "send", "deliver", "failed", "boundary", "quiet",
          "delivered", "overrun", "publish"} \subseteq Busy
  BY DEF Busy, Running
<1> USE DEF RowKept, Written, StateWritten, Leaves, Closes, Moves, MovesTo
<1>1. ASSUME NEW s \in Slots, Start(s) PROVE MessagesInv'
  BY <1>1, <1>b, StartFacts, MessageMoves, MessageEnds
<1>2. ASSUME NEW s \in Slots, CancelDisabled(s) PROVE MessagesInv'
  BY <1>2, CancelFacts, MessageEnds
<1>3. ASSUME NEW s \in Slots, Recover(s) PROVE MessagesInv'
  BY <1>3, MessageRecover
<1>4. ASSUME NEW s \in Slots, ReadClaim(s) PROVE MessagesInv'
  BY <1>4, <1>b, ReadClaimFacts, MessageMoves, MessageEnds
<1>5. ASSUME NEW s \in Slots, Claim(s) PROVE MessagesInv'
  BY <1>5, MessageClaim
<1>6. ASSUME NEW s \in Slots, Enter(s) PROVE MessagesInv'
  BY <1>6, <1>b, EnterFacts, MessageMoves, MessageEnds
<1>7. ASSUME NEW s \in Slots, Work(s) PROVE MessagesInv'
  BY <1>7, <1>b, WorkFacts, MessageMoves
<1>8. ASSUME NEW s \in Slots, Assert(s) PROVE MessagesInv'
  BY <1>8, <1>b, AssertFacts, MessageMoves, MessageEnds
<1>9. ASSUME NEW s \in Slots, Deliver(s) PROVE MessagesInv'
  BY <1>9, <1>b, DeliverFacts, MessageMoves DEF LateInv, Deliver
<1>10. ASSUME NEW s \in Slots, Finish(s) PROVE MessagesInv'
  BY <1>10, FinishFacts, MessageEnds
<1>11. ASSUME NEW s \in Slots, Fail(s) PROVE MessagesInv'
  BY <1>11, <1>b, FailFacts, MessageMoves, MessageEnds
<1>12. ASSUME NEW s \in Slots, Publish(s) PROVE MessagesInv'
  BY <1>12, MessagePublish
<1>13. ASSUME NEW s \in Slots, Boundary(s) PROVE MessagesInv'
  BY <1>13, BoundaryFacts, MessageEnds
<1>14. ASSUME NEW s \in Slots, Crash(s) PROVE MessagesInv'
  BY <1>14, CrashFacts, MessageDelivered, MessageEnds
<1>15. ASSUME NEW s \in Slots, NEW t \in Slots, Redeliver(s, t) PROVE MessagesInv'
  BY <1>15, RedeliverFacts, MessageDelivered
<1>16. ASSUME NEW s \in Slots, WriteFails(s) PROVE MessagesInv'
  <2>1. jobs[s].pc \in Busy /\ jobs[s].pc # "free"
    BY <1>16, <1>b DEF WriteFails
  <2>2. QED
    BY <1>16, <1>b, <2>1, WriteFailsFacts, MessageMoves, MessageEnds
<1>17. ASSUME NEW s \in Slots, PublishFails(s) PROVE MessagesInv'
  BY <1>17, PublishFailsFacts, MessageEnds
<1>18. ASSUME NEW s \in Slots, Tick(s) PROVE MessagesInv'
  BY <1>18, MessageTick
<1>19. CASE Age
  BY <1>19, AgeFacts, MessageStays DEF RowOtherwiseKept
<1>20. CASE Toggle
  BY <1>20, ToggleFacts, MessageStays DEF RowOtherwiseKept
<1>21. CASE DecideDeactivate \/ UNCHANGED vars
  BY <1>21, MessageStays DEF DecideDeactivate, vars
<1>22. CASE Deactivate
  BY <1>22, DeactivateFacts, MessageStays DEF RowOtherwiseKept
<1>23. QED
  BY <1>1, <1>2, <1>3, <1>4, <1>5, <1>6, <1>7, <1>8, <1>9, <1>10, <1>11, <1>12,
     <1>13, <1>14, <1>15, <1>16, <1>17, <1>18, <1>19, <1>20, <1>21, <1>22
     DEF Next, JobStep

(***************************************************************************)
(* Most steps leave the row alone, and at most let a run go on or end.     *)
(***************************************************************************)
Quiet(s) ==
  /\ row' = row /\ Others(s)
  /\ history' \in {history, [history EXCEPT !.disturbed = TRUE]}
  /\ jobs'[s].pc \in Running =>
       /\ Keeps(s) /\ jobs[s].pc \in Running
       /\ jobs'[s].started = jobs[s].started
       /\ jobs'[s].flag \in {jobs[s].flag, row.retry}
  /\ jobs'[s].pc \in Sending => jobs[s].pc \in Sending
  /\ jobs'[s].owns => \E t \in Slots : jobs[t].owns
  /\ LateInv(s)'

\* A job that ends leaves nothing behind.
LEMMA LeavesQuietly ==
  ASSUME Typed, NEW s \in Slots, row' = row, Ends(s),
         history' \in {history, [history EXCEPT !.disturbed = TRUE]}
  PROVE  Quiet(s)
<1>1. /\ jobs'[s].pc = "free" /\ jobs'[s].late = 0 /\ ~jobs'[s].owns
      /\ Others(s)
  BY DEF Ends
<1>2. QED
  BY <1>1 DEF Quiet, LateInv, Running, Sending

\* The steps that are quiet: those of a message that is not yet run ...
LEMMA QueuedQuietly ==
  ASSUME Typed, NEW s \in Slots, LateInv(s), Start(s) \/ ReadClaim(s) \/ Publish(s)
  PROVE  Quiet(s)
<1>1. CASE Ends(s) /\ row' = row /\ history' = history
  BY <1>1, LeavesQuietly
<1>2. ASSUME row' = row, history' = history, Others(s),
             jobs'[s].pc \in {"queued", "cancel", "recover", "claim", "cas"},
             jobs'[s].owns => \E t \in Slots : jobs[t].owns, jobs'[s].late = 0
      PROVE  Quiet(s)
  BY <1>2 DEF Quiet, LateInv, Running, Sending
<1>3. CASE Publish(s)
  BY <1>2, <1>3, PublishFacts DEF RowKept, Enqueued
<1>4. jobs[s].pc \in {"queued", "claim"} => jobs[s].late = 0
  BY DEF LateInv, Busy, Running, Typed, Jobs
<1>5. CASE Start(s)
  BY <1>1, <1>2, <1>4, <1>5, StartFacts
     DEF RowKept, Leaves, MovesTo, Moves, Keeps
<1>6. CASE ReadClaim(s)
  BY <1>1, <1>2, <1>4, <1>6, ReadClaimFacts DEF Leaves, Moves, Keeps
<1>7. QED
  BY <1>3, <1>5, <1>6

\* ... those of a run between its writes ...
LEMMA RunsQuietly ==
  ASSUME Typed, NEW s \in Slots, LateInv(s), Work(s) \/ Assert(s) \/ WriteFails(s)
  PROVE  Quiet(s)
<1>1. ASSUME row' = row, history' = history, NEW flag, flag \in {jobs[s].flag, row.retry},
             NEW pc \in {"quiet", "send", "failed", "overrun", "boundary", "deliver"},
             Moves(s, pc, flag, jobs[s].started, jobs[s].left, jobs[s].late),
             jobs[s].pc \in Running,
             pc \in {"send", "deliver"} => jobs[s].pc \in {"work", "send"},
             pc = "deliver" => Owns(s)
      PROVE  Quiet(s)
  BY <1>1 DEF Quiet, Moves, Keeps, LateInv, Owns, Running, Busy, Sending
<1>2. CASE Work(s)
  BY <1>1, <1>2, WorkFacts DEF RowKept, MovesTo, Running
<1>3. CASE Assert(s)
  <2>1. CASE Leaves(s)
    BY <1>3, <2>1, AssertFacts, LeavesQuietly DEF Leaves, RowKept
  <2>2. CASE ~Leaves(s)
    BY <1>1, <1>3, <2>2, AssertFacts DEF RowKept, Running
  <2>3. QED
    BY <2>1, <2>2
<1>4. CASE WriteFails(s)
  <2>1. CASE Ends(s)
    BY <1>4, <2>1, WriteFailsFacts, LeavesQuietly DEF RowKept
  <2>2. jobs[s].pc \in Running
    BY <1>4, WriteFailsFacts DEF Running
  <2>3. CASE ~Ends(s)
    BY <1>1, <1>4, <2>2, <2>3, WriteFailsFacts DEF RowKept, MovesTo
  <2>4. QED
    BY <2>1, <2>3
<1>5. QED
  BY <1>2, <1>3, <1>4

\* ... and crashes and redeliveries.
LEMMA FaultsQuietly ==
  ASSUME Typed, NEW s \in Slots, NEW t \in Slots,
         \/ t = s /\ (Crash(s) \/ PublishFails(s))
         \/ Redeliver(s, t)
  PROVE  Quiet(t)
<1>1. ASSUME row' = row, Delivered(s, t),
             history' \in {history, [history EXCEPT !.disturbed = TRUE]}
      PROVE  Quiet(t)
  BY <1>1 DEF Quiet, Delivered, LateInv, Running, Sending
<1>2. CASE t = s /\ Crash(s)
  BY <1>1, <1>2, CrashFacts, LeavesQuietly DEF RowKept
<1>3. CASE t = s /\ PublishFails(s)
  BY <1>3, PublishFailsFacts, LeavesQuietly DEF RowKept
<1>4. CASE Redeliver(s, t)
  BY <1>1, <1>4, RedeliverFacts DEF RowKept
<1>5. QED
  BY <1>2, <1>3, <1>4

(***************************************************************************)
(* The steps that are not: each writes the row, but for a delivery.        *)
(***************************************************************************)
Cancels(s) ==
  /\ row.state = "RETRYING" /\ Ends(s) /\ history' = history
  /\ Written("ERROR", row.window, NoWindow, 0)

Recovers(s) ==
  s \in current /\ StateWritten("ERROR") /\ Disowned(s) /\ history' = history

Claims(s) ==
  /\ jobs[s].pc = "cas" /\ s \in current /\ row.retry = jobs[s].flag
  /\ Written("WORKING", jobs[s].window, row.anchor, row.attempt)
  /\ Claimed(s)
  /\ history' = IF jobs[s].window = row.window
                THEN [history EXCEPT !.runs = @ + 1]
                ELSE [runs |-> 1, out |-> FALSE, disturbed |-> FALSE]

Enters(s) ==
  /\ jobs[s].pc = "claimed" /\ Owns(s) /\ StateWritten("WORKING") /\ history' = history
  /\ Moves(s, "work", row.retry, jobs[s].started, Recipients, jobs[s].late)

Retries(s) ==
  /\ jobs[s].pc = "failed" /\ Owns(s) /\ jobs[s].flag /\ ~jobs[s].started
  /\ Attempts(row, jobs[s]) < MaxAttempts
  /\ Written("RETRYING", row.window, jobs[s].window, Attempts(row, jobs[s]) + 1)
  /\ MovesTo(s, "publish") /\ history' = history

Edits ==
  /\ RowOtherwiseKept /\ jobs' = jobs
  /\ row'.state \in {row.state, "NOOP"}
  /\ \/ row'.retry = row.retry /\ history' = history
     \/ history' = [history EXCEPT !.disturbed = TRUE]

\* Every step is quiet or one of these.
LEMMA StepKinds ==
  ASSUME Typed, \A s \in Slots : LateInv(s), [Next]_vars
  PROVE  \/ Edits
         \/ \E s \in Slots :
              \/ Quiet(s) \/ Cancels(s) \/ Recovers(s) \/ Claims(s) \/ Enters(s)
              \/ Deliver(s) \/ Retries(s) \/ (Closes(s) /\ history' = history) \/ Tick(s)
<1>l. \A s \in Slots : Leaves(s) /\ history' = history => Quiet(s)
  BY LeavesQuietly DEF Leaves, RowKept
<1>1. ASSUME NEW s \in Slots, Start(s) \/ ReadClaim(s) \/ Publish(s) PROVE Quiet(s)
  BY <1>1, QueuedQuietly
<1>2. ASSUME NEW s \in Slots, Work(s) \/ Assert(s) \/ WriteFails(s) PROVE Quiet(s)
  BY <1>2, RunsQuietly
<1>3. ASSUME NEW s \in Slots, Crash(s) \/ PublishFails(s) PROVE Quiet(s)
  BY <1>3, FaultsQuietly
<1>4. ASSUME NEW s \in Slots, NEW t \in Slots, Redeliver(s, t) PROVE Quiet(t)
  BY <1>4, FaultsQuietly
<1>5. ASSUME NEW s \in Slots, CancelDisabled(s) PROVE Quiet(s) \/ Cancels(s)
  BY <1>5, <1>l, CancelFacts DEF Leaves, Cancels
<1>6. ASSUME NEW s \in Slots, Recover(s) PROVE Quiet(s) \/ Recovers(s)
  BY <1>6, <1>l, RecoverFacts DEF Recovers
<1>7. ASSUME NEW s \in Slots, Claim(s) PROVE Quiet(s) \/ Claims(s)
  BY <1>7, <1>l, ClaimFacts DEF Claims
<1>8. ASSUME NEW s \in Slots, Enter(s)
      PROVE  Quiet(s) \/ Enters(s) \/ (Closes(s) /\ history' = history)
  BY <1>8, <1>l, EnterFacts DEF Enters
<1>9. ASSUME NEW s \in Slots, Finish(s) \/ Boundary(s)
      PROVE  Quiet(s) \/ (Closes(s) /\ history' = history)
  BY <1>9, <1>l, FinishFacts, BoundaryFacts
<1>10. ASSUME NEW s \in Slots, Fail(s)
       PROVE  Quiet(s) \/ Retries(s) \/ (Closes(s) /\ history' = history)
  BY <1>10, <1>l, FailFacts DEF Retries
<1>11. CASE Age
  BY <1>11, AgeFacts DEF Edits
<1>12. CASE Toggle
  BY <1>12, ToggleFacts DEF Edits
<1>13. CASE Deactivate
  BY <1>13, DeactivateFacts DEF Edits
<1>14. CASE DecideDeactivate \/ UNCHANGED vars
  BY <1>14 DEF DecideDeactivate, vars, Edits, RowOtherwiseKept, Typed
<1>15. QED
  BY <1>1, <1>2, <1>3, <1>4, <1>5, <1>6, <1>7, <1>8, <1>9, <1>10, <1>11, <1>12,
     <1>13, <1>14 DEF Next, JobStep

\* An owner that is run is the only one, and of the row's window.
LEMMA OnlyOwner ==
  ASSUME MessagesInv, NEW s \in Slots, Owns(s), jobs[s].pc \in Busy
  PROVE  /\ jobs[s].window = row.window /\ jobs[s].pc # "free"
         /\ \A t \in Slots : Owns(t) /\ jobs[t].pc \in Busy => t = s
<1>1. jobs[s].pc # "free" /\ "free" \notin Busy
  BY DEF Busy, Running
<1>2. QED
  BY <1>1 DEF MessagesInv, MessageInv, PairInv, Owns

\* Who wins a claim is not yet run; it is the retry of the row's window or the
\* message of a later one.
LEMMA ClaimsFacts ==
  ASSUME IInv, NEW s \in Slots, Claims(s)
  PROVE  /\ ~jobs[s].ran /\ row.state # "WORKING"
         /\ jobs[s].window \in Nat \ {NoWindow}
         /\ \/ /\ jobs[s].window = row.window /\ row.state = "RETRYING"
               /\ row.anchor = row.window
            \/ jobs[s].window > row.window
         /\ \A t \in Slots :
              jobs'[t].pc \in Busy => t = s \/ (jobs[t].pc \in Busy /\ ~jobs'[t].owns)
<1>1. /\ jobs[s].window \in Nat \ {NoWindow} /\ row.window \in Nat /\ row.anchor \in Nat
  BY DEF IInv, Typed, Rows, Jobs, Claims, MessagesInv, MessageInv
<1>2. \/ /\ jobs[s].retry /\ jobs[s].awaited /\ row.state = "RETRYING"
         /\ row.anchor = jobs[s].window
      \/ ~jobs[s].retry /\ (row.window = NoWindow \/ jobs[s].window > row.window)
  BY DEF IInv, ReadInv, Claims
<1>3. row.state = "RETRYING" => row.anchor = row.window
  BY DEF IInv, CounterInv
<1>4. ~jobs[s].ran
  BY <1>1, <1>2 DEF IInv, Claims, MessagesInv, MessageInv, NoWindow
<1>5. \A t \in Slots : jobs[t].pc \in Busy => jobs[t].ran /\ jobs[t].pc # "free"
  BY DEF IInv, MessagesInv, MessageInv, Busy, Running
<1>6. ASSUME NEW t \in Slots \ {s}, jobs'[t].pc \in Busy
      PROVE  jobs[t].pc \in Busy /\ ~jobs'[t].owns
  <2>1. jobs[t].pc \in Busy
    BY <1>6 DEF Claims, Claimed
  <2>2. jobs[t].id # jobs[s].id
    BY <1>4, <1>5, <2>1 DEF IInv, MessagesInv, PairInv, Claims
  <2>3. QED
    BY <2>1, <2>2 DEF Claims, Claimed
<1>7. row.state # "WORKING"
  BY DEF IInv, ReadInv, Claims
<1>8. QED
  BY <1>1, <1>2, <1>3, <1>4, <1>6, <1>7 DEF NoWindow

\* Renumbered, windows compare as before.
LEMMA TickOrder ==
  ASSUME Typed, NEW s \in Slots, Tick(s)
  PROVE  /\ row'.anchor = NoWindow <=> row.anchor = NoWindow
         /\ row'.window = NoWindow <=> row.window = NoWindow
         /\ row.anchor = row.window => row'.anchor = row'.window
         /\ row.anchor <= row.window => row'.anchor <= row'.window
         /\ \A t \in Slots \ {s} :
              /\ jobs'[t].window = row'.window <=> jobs[t].window = row.window
              /\ jobs[t].window > row.window => jobs'[t].window > row'.window
              /\ jobs'[t].window = row'.anchor <=> jobs[t].window = row.anchor
<1> DEFINE Used == UsedWindows \cup {NoWindow}
<1>1. /\ row'.window = Rank(row.window) /\ row'.anchor = Rank(row.anchor)
      /\ \A t \in Slots \ {s} : jobs'[t].window = Rank(jobs[t].window)
  BY TickFacts DEF Renumbered
<1>2. row.window \in Used /\ row.anchor \in Used /\ \A t \in Slots : jobs[t].window \in Used
  BY DEF UsedWindows
<1>3. \A v \in Used : v \in Nat /\ (v = NoWindow \/ v \in UsedWindows)
  BY UsedFinite DEF NoWindow
<1>4. \A v \in Used : /\ Rank(v) \in Nat
                      /\ Rank(v) = NoWindow <=> v = NoWindow
                      /\ \A w \in UsedWindows : v < w => Rank(v) < Rank(w)
  BY RankFacts
<1>5. \A v, w \in Used : v < w => Rank(v) < Rank(w)
  BY <1>3, <1>4 DEF NoWindow
<1> HIDE DEF Used
<1>6. \A v, w \in Used : (v = w <=> Rank(v) = Rank(w)) /\ (v <= w => Rank(v) <= Rank(w))
  BY <1>3, <1>4, <1>5
<1>7. row.anchor <= row.window => row'.anchor <= row'.window
  BY <1>1, <1>2, <1>6
<1>8. \A t \in Slots \ {s} :
        /\ jobs'[t].window = row'.window <=> jobs[t].window = row.window
        /\ jobs[t].window > row.window => jobs'[t].window > row'.window
        /\ jobs'[t].window = row'.anchor <=> jobs[t].window = row.anchor
  BY <1>1, <1>2, <1>5, <1>6
<1>9. QED
  BY <1>1, <1>2, <1>4, <1>7, <1>8

\* What was read of the row and not outdated stays so.
LEMMA ReadStep == IInv /\ [Next]_vars => \A t \in Slots : ReadInv(t)'
<1> SUFFICES ASSUME IInv, [Next]_vars PROVE \A t \in Slots : ReadInv(t)'
  OBVIOUS
<1> USE DEF IInv
<1>1. ASSUME current' = {} PROVE \A t \in Slots : ReadInv(t)'
  BY <1>1 DEF ReadInv
<1>2. ASSUME NEW s \in Slots, Others(s), RowKept, jobs'[s].pc \notin {"recover", "cas"}
      PROVE  \A t \in Slots : ReadInv(t)'
  BY <1>2 DEF ReadInv, RowKept, Others
<1>3. ASSUME NEW s \in Slots, Leaves(s) PROVE \A t \in Slots : ReadInv(t)'
  BY <1>2, <1>3 DEF Leaves, Ends
<1> USE DEF Written, StateWritten, Closes, Moves, MovesTo, Keeps
<1>4. ASSUME NEW s \in Slots, Start(s) PROVE \A t \in Slots : ReadInv(t)'
  <2>1. CASE MovesTo(s, "recover") /\ row.state = "WORKING" /\ row.old
             /\ current' = current \cup {s} /\ row' = row
    BY <2>1 DEF ReadInv, Others
  <2>2. QED
    BY <1>2, <1>3, <1>4, <2>1, StartFacts
<1>5. ASSUME NEW s \in Slots, CancelDisabled(s) PROVE \A t \in Slots : ReadInv(t)'
  BY <1>1, <1>3, <1>5, CancelFacts DEF Leaves
<1>6. ASSUME NEW s \in Slots, Recover(s) PROVE \A t \in Slots : ReadInv(t)'
  BY <1>1, <1>3, <1>6, RecoverFacts
<1>7. ASSUME NEW s \in Slots, ReadClaim(s) PROVE \A t \in Slots : ReadInv(t)'
  <2>1. CASE /\ row.state # "WORKING" /\ row' = row /\ current' = current \cup {s}
             /\ jobs[s].retry => AwaitedRetry(jobs[s])
             /\ ~jobs[s].retry => NewWindow(jobs[s])
             /\ Moves(s, "cas", row.retry, jobs[s].started, jobs[s].left, jobs[s].late)
    BY <2>1 DEF ReadInv, Others, AwaitedRetry, NewWindow
  <2>2. QED
    BY <1>3, <1>7, <2>1, ReadClaimFacts
<1>8. ASSUME NEW s \in Slots, Claim(s) PROVE \A t \in Slots : ReadInv(t)'
  BY <1>1, <1>3, <1>8, ClaimFacts
<1>9. ASSUME NEW s \in Slots, Enter(s) PROVE \A t \in Slots : ReadInv(t)'
  BY <1>1, <1>3, <1>9, EnterFacts
<1>10. ASSUME NEW s \in Slots, Work(s) PROVE \A t \in Slots : ReadInv(t)'
  BY <1>2, <1>10, WorkFacts
<1>11. ASSUME NEW s \in Slots, Assert(s) PROVE \A t \in Slots : ReadInv(t)'
  BY <1>2, <1>3, <1>11, AssertFacts
<1>12. ASSUME NEW s \in Slots, Deliver(s) PROVE \A t \in Slots : ReadInv(t)'
  BY <1>2, <1>12, DeliverFacts DEF LateInv, Deliver
<1>13. ASSUME NEW s \in Slots, Finish(s) PROVE \A t \in Slots : ReadInv(t)'
  BY <1>1, <1>3, <1>13, FinishFacts
<1>14. ASSUME NEW s \in Slots, Fail(s) PROVE \A t \in Slots : ReadInv(t)'
  BY <1>1, <1>3, <1>14, FailFacts
<1>15. ASSUME NEW s \in Slots, Publish(s) PROVE \A t \in Slots : ReadInv(t)'
  BY <1>2, <1>15, PublishFacts DEF Enqueued
<1>16. ASSUME NEW s \in Slots, Boundary(s) PROVE \A t \in Slots : ReadInv(t)'
  BY <1>1, <1>3, <1>16, BoundaryFacts
<1>17. ASSUME NEW s \in Slots, Crash(s) PROVE \A t \in Slots : ReadInv(t)'
  BY <1>2, <1>17, CrashFacts DEF Ends, Delivered
<1>18. ASSUME NEW s \in Slots, NEW u \in Slots, Redeliver(s, u)
       PROVE  \A t \in Slots : ReadInv(t)'
  BY <1>2, <1>18, RedeliverFacts DEF Delivered
<1>19. ASSUME NEW s \in Slots, WriteFails(s) PROVE \A t \in Slots : ReadInv(t)'
  BY <1>2, <1>19, WriteFailsFacts DEF Ends
<1>20. ASSUME NEW s \in Slots, PublishFails(s) PROVE \A t \in Slots : ReadInv(t)'
  BY <1>2, <1>20, PublishFailsFacts DEF Ends
<1>21. ASSUME NEW s \in Slots, Tick(s) PROVE \A t \in Slots : ReadInv(t)'
  <2>1. ReadInv(s)'
    BY <1>21, TickFacts DEF ReadInv, Enqueued
  <2>2. ASSUME NEW t \in Slots \ {s} PROVE ReadInv(t)'
    <3>1. /\ jobs'[t].pc = jobs[t].pc /\ jobs'[t].retry = jobs[t].retry
          /\ jobs'[t].awaited = jobs[t].awaited /\ row'.state = row.state
          /\ row'.old = row.old /\ current' = current
      BY <1>21, TickFacts DEF Renumbered
    <3>2. QED
      BY <1>21, <3>1, TickOrder DEF ReadInv
  <2>3. QED
    BY <2>1, <2>2
<1>22. CASE Age
  BY <1>22, AgeFacts DEF ReadInv, RowOtherwiseKept
<1>23. CASE Toggle
  BY <1>23, ToggleFacts DEF ReadInv, RowOtherwiseKept
<1>24. CASE DecideDeactivate \/ UNCHANGED vars
  BY <1>24 DEF DecideDeactivate, vars, ReadInv
<1>25. CASE Deactivate
  <2>1. CASE row.state = "NOOP"
    BY <1>25, <2>1, DeactivateFacts DEF ReadInv, RowOtherwiseKept
  <2>2. QED
    BY <1>1, <1>25, <2>1, DeactivateFacts
<1>26. QED
  BY <1>4, <1>5, <1>6, <1>7, <1>8, <1>9, <1>10, <1>11, <1>12, <1>13, <1>14, <1>15,
     <1>16, <1>17, <1>18, <1>19, <1>20, <1>21, <1>22, <1>23, <1>24, <1>25
     DEF Next, JobStep

\* The counter counts the runs of the row's window, and no other's.
LEMMA CounterStep == IInv /\ [Next]_vars => CounterInv'
<1> SUFFICES ASSUME IInv, [Next]_vars PROVE CounterInv'
  OBVIOUS
<1> USE DEF IInv, Owns
<1>n. /\ row.window \in Nat /\ row.anchor \in Nat /\ row.attempt \in Nat
      /\ row.attempt <= MaxAttempts /\ MaxAttempts \in Nat /\ history.runs \in Nat
      /\ \A t \in Slots : jobs[t].window \in Nat
  BY ReportAssumption DEF ReportAssumption, Typed, Rows, Jobs
<1>b. Running \subseteq Busy
  BY DEF Busy
<1>1. ASSUME row'.window = row.window, row'.anchor = row.anchor,
             row'.attempt = row.attempt, row'.state = "RETRYING" => row.state = "RETRYING",
             history'.runs = history.runs,
             \A t \in Slots : jobs'[t].owns /\ jobs'[t].pc \in Running =>
               /\ jobs[t].owns /\ jobs[t].pc \in Running
               /\ jobs'[t].window = jobs[t].window
      PROVE  CounterInv'
  BY <1>1 DEF CounterInv, Attempts
<1>2. ASSUME Written("ERROR", row.window, NoWindow, 0)
               \/ \E state \in Idle : Written(state, row.window, NoWindow, 0),
             history'.runs = history.runs,
             \A t \in Slots : ~(jobs'[t].owns /\ jobs'[t].pc \in Running)
      PROVE  CounterInv'
  BY <1>n, <1>2 DEF CounterInv, Written, NoWindow, Idle
<1>3. CASE Edits
  BY <1>1, <1>3 DEF Edits, RowOtherwiseKept, Typed
<1>4. ASSUME NEW s \in Slots, Quiet(s) PROVE CounterInv'
  <2>1. history'.runs = history.runs
    BY <1>4 DEF Quiet, Typed
  <2>2. QED
    BY <1>1, <1>4, <2>1 DEF Quiet, Others, Keeps
<1>5. ASSUME NEW s \in Slots, Cancels(s) PROVE CounterInv'
  <2>1. \A t \in Slots : ~(jobs'[t].owns /\ jobs'[t].pc \in Running)
    BY <1>5 DEF Cancels, DeliveryInv, Ends, Others
  <2>2. QED
    BY <1>2, <1>5, <2>1 DEF Cancels
<1>6. ASSUME NEW s \in Slots, Recovers(s) PROVE CounterInv'
  BY <1>1, <1>6 DEF Recovers, Disowned, StateWritten, Written
<1>7. ASSUME NEW s \in Slots, Closes(s), history' = history PROVE CounterInv'
  <2>1. \A t \in Slots : ~(jobs'[t].owns /\ jobs'[t].pc \in Running)
    BY <1>7, <1>b, OnlyOwner DEF Closes, Ends, Others
  <2>2. CASE \E state \in Idle : StateWritten(state)
    BY <1>1, <1>7, <2>1, <2>2 DEF StateWritten, Written, Idle
  <2>3. CASE \E state \in Idle : Written(state, row.window, NoWindow, 0)
    BY <1>2, <1>7, <2>1, <2>3
  <2>4. QED
    BY <1>7, <2>2, <2>3 DEF Closes
<1>8. ASSUME NEW s \in Slots, Claims(s) PROVE CounterInv'
  <2>1. /\ row'.state = "WORKING" /\ row'.window = jobs[s].window
        /\ row'.anchor = row.anchor /\ row'.attempt = row.attempt
        /\ jobs'[s].window = jobs[s].window
    BY <1>8 DEF Claims, Written, Claimed
  <2>2. \A t \in Slots : jobs'[t].owns /\ jobs'[t].pc \in Running => t = s
    BY <1>8, <1>b, ClaimsFacts
  <2>3. CASE jobs[s].window = row.window /\ row.state = "RETRYING"
             /\ row.anchor = row.window
    <3>1. history'.runs = history.runs + 1
      BY <1>8, <2>3 DEF Claims, Typed
    <3>2. row.attempt = history.runs
      BY <2>3 DEF CounterInv
    <3>3. Attempts(row', jobs'[s]) = row.attempt
      BY <2>1, <2>3 DEF Attempts
    <3>4. QED
      BY <1>n, <2>1, <2>2, <2>3, <3>1, <3>2, <3>3 DEF CounterInv, Owns
  <2>4. CASE jobs[s].window > row.window
    <3>1. history'.runs = 1
      BY <1>8, <1>n, <2>4 DEF Claims
    <3>2. row.anchor <= row.window /\ (row.anchor = NoWindow => row.attempt = 0)
      BY DEF CounterInv
    <3>3. row.anchor <= jobs[s].window /\ row.anchor # jobs[s].window
      BY <1>n, <2>4, <3>2
    <3>4. Attempts(row', jobs'[s]) = 0
      BY <2>1, <3>2, <3>3 DEF Attempts
    <3>5. QED
      BY <1>n, <2>1, <2>2, <3>1, <3>2, <3>3, <3>4 DEF CounterInv, Owns
  <2>5. QED
    BY <1>8, <2>3, <2>4, ClaimsFacts
<1>9. ASSUME NEW s \in Slots, Enters(s) PROVE CounterInv'
  BY <1>1, <1>9
     DEF Enters, StateWritten, Written, Moves, Keeps, Others, Running
<1>10. ASSUME NEW s \in Slots, Deliver(s) PROVE CounterInv'
  <2>1. /\ row' = row /\ Keeps(s) /\ history'.runs = history.runs
        /\ jobs[s].pc \in Running
    BY <1>10, DeliverFacts
       DEF LateInv, Deliver, RowKept, Moves, Typed, Running
  <2>2. QED
    BY <1>1, <2>1 DEF Keeps, Others
<1>11. ASSUME NEW s \in Slots, Retries(s) PROVE CounterInv'
  <2>1. /\ row'.state = "RETRYING" /\ row'.window = row.window
        /\ row'.anchor = jobs[s].window /\ row'.attempt = Attempts(row, jobs[s]) + 1
        /\ history' = history
    BY <1>11 DEF Retries, Written
  <2>2. jobs[s].pc \in Running /\ Owns(s)
    BY <1>11 DEF Retries, Running
  <2>3. /\ jobs[s].window = row.window /\ jobs[s].window # NoWindow
        /\ Attempts(row, jobs[s]) = history.runs - 1
    BY <1>b, <2>2, OnlyOwner DEF CounterInv, MessagesInv, MessageInv
  <2>4. \A t \in Slots : ~(jobs'[t].owns /\ jobs'[t].pc \in Running)
    BY <1>11, <1>b, <2>2, OnlyOwner
       DEF Retries, MovesTo, Moves, Keeps, Others, Running
  <2>5. history.runs <= MaxAttempts + 1
    BY DEF CounterInv
  <2>6. QED
    BY <1>n, <2>1, <2>3, <2>4, <2>5 DEF CounterInv
<1>12. ASSUME NEW s \in Slots, Tick(s) PROVE CounterInv'
  <2>1. /\ row'.state = row.state /\ row'.attempt = row.attempt /\ history' = history
        /\ ~jobs'[s].owns
        /\ \A t \in Slots \ {s} : jobs'[t].owns = jobs[t].owns /\ jobs'[t].pc = jobs[t].pc
    BY <1>12, TickFacts DEF Renumbered, Enqueued
  <2>2. \A t \in Slots \ {s} : Attempts(row', jobs'[t]) = Attempts(row, jobs[t])
    BY <1>12, <2>1, TickOrder DEF Attempts
  <2>3. QED
    BY <1>12, <2>1, <2>2, TickOrder DEF CounterInv
<1>13. QED
  BY <1>3, <1>4, <1>5, <1>6, <1>7, <1>8, <1>9, <1>10, <1>11, <1>12, StepKinds

\* A window whose delivery has begun is left neither for a retry nor for
\* another run.
LEMMA DeliveryStep == IInv /\ [Next]_vars => DeliveryInv'
<1> SUFFICES ASSUME IInv, [Next]_vars PROVE DeliveryInv'
  OBVIOUS
<1> USE DEF IInv, Owns
<1>b. Running \subseteq Busy /\ Sending \subseteq Running
  BY DEF Busy, Running, Sending
<1>1. ASSUME row'.window = row.window,
             row'.state = "RETRYING" => row.state = "RETRYING",
             history'.out = history.out,
             \A t \in Slots : jobs'[t].pc \in Running =>
               /\ jobs[t].pc \in Running /\ jobs'[t].owns = jobs[t].owns
               /\ jobs'[t].window = jobs[t].window
               /\ jobs[t].started => jobs'[t].started,
             \A t \in Slots : jobs'[t].pc \in Sending => jobs[t].pc \in Sending,
             (\E t \in Slots : jobs'[t].owns) => \E t \in Slots : jobs[t].owns
      PROVE  DeliveryInv'
  BY <1>1, <1>b DEF DeliveryInv
<1>2. CASE Edits
  BY <1>1, <1>2 DEF Edits, RowOtherwiseKept, Typed
<1>3. ASSUME NEW s \in Slots, Quiet(s) PROVE DeliveryInv'
  <2>1. history'.out = history.out
    BY <1>3 DEF Quiet, Typed
  <2>2. QED
    BY <1>1, <1>3, <2>1 DEF Quiet, Others, Keeps
<1>4. ASSUME NEW s \in Slots, Ends(s), row'.window = row.window, history' = history,
             row'.state # "RETRYING"
      PROVE  DeliveryInv'
  BY <1>1, <1>4, <1>b DEF Ends, Others, Running
<1>5. ASSUME NEW s \in Slots, Cancels(s) \/ (Closes(s) /\ history' = history)
      PROVE  DeliveryInv'
  BY <1>4, <1>5 DEF Cancels, Closes, StateWritten, Written, Idle
<1>6. ASSUME NEW s \in Slots, Recovers(s) PROVE DeliveryInv'
  BY <1>6 DEF Recovers, Disowned, StateWritten, Written, DeliveryInv
<1>7. ASSUME NEW s \in Slots, Claims(s) PROVE DeliveryInv'
  <2>1. /\ row'.state = "WORKING" /\ row'.window = jobs[s].window /\ jobs'[s].owns
        /\ \A t \in Slots : jobs'[t].window = jobs[t].window
        /\ \A t \in Slots \ {s} : jobs'[t].pc = jobs[t].pc
    BY <1>7 DEF Claims, Written, Claimed
  <2>2. ~history'.out
    BY <1>7, ClaimsFacts DEF Claims, DeliveryInv, Typed
  <2>3. \A t \in Slots \ {s} : jobs[t].pc \in Sending => jobs[t].window # jobs[s].window
    <3>1. SUFFICES ASSUME NEW t \in Slots \ {s}, jobs[t].pc \in Sending
                   PROVE  jobs[t].window # jobs[s].window
      OBVIOUS
    <3>2. jobs[t].window <= row.window
      BY <1>b, <3>1 DEF MessagesInv, MessageInv, Running, Busy
    <3>3. CASE jobs[s].window > row.window
      BY <3>2, <3>3 DEF Typed, Rows, Jobs
    <3>4. CASE jobs[s].window = row.window /\ row.state = "RETRYING"
      BY <3>1, <3>4 DEF DeliveryInv
    <3>5. QED
      BY <1>7, <3>3, <3>4, ClaimsFacts
  <2>4. QED
    BY <2>1, <2>2, <2>3 DEF DeliveryInv
<1>8. ASSUME NEW s \in Slots, Enters(s) PROVE DeliveryInv'
  BY <1>1, <1>8
     DEF Enters, StateWritten, Written, Moves, Keeps, Others, Running, Sending
<1>9. ASSUME NEW s \in Slots, Deliver(s) PROVE DeliveryInv'
  <2>1. /\ row' = row /\ Keeps(s) /\ jobs'[s].started
        /\ jobs'[s].pc \in Sending => jobs[s].pc \in Sending
        /\ jobs[s].pc = "deliver"
        /\ history'.out <=> history.out \/ jobs[s].window = row.window
    BY <1>9, DeliverFacts DEF LateInv, Deliver, RowKept, Moves, Typed, Sending
  <2>2. jobs[s].pc \in Sending /\ jobs[s].pc \in Running
    BY <2>1 DEF Sending, Running
  <2>3. \A t \in Slots : /\ jobs'[t].owns = jobs[t].owns
                         /\ jobs'[t].window = jobs[t].window
                         /\ jobs'[t].pc \in Running => jobs[t].pc \in Running
                         /\ jobs'[t].pc \in Sending => jobs[t].pc \in Sending
                         /\ t # s => jobs'[t].started = jobs[t].started
    BY <2>1, <2>2 DEF Keeps, Others
  <2>4. row.state = "RETRYING" => ~history'.out
    BY <2>1, <2>2 DEF DeliveryInv
  <2>5. ASSUME NEW t \in Slots, history'.out, jobs'[t].owns, jobs'[t].pc \in Running
        PROVE  jobs'[t].started
    <3>1. jobs[t].owns /\ jobs[t].pc \in Running
      BY <2>3, <2>5
    <3>2. CASE history.out
      BY <2>1, <2>3, <3>1, <3>2 DEF DeliveryInv
    <3>3. CASE jobs[s].window = row.window
      <4>1. jobs[s].owns
        BY <2>2, <3>1, <3>3 DEF DeliveryInv
      <4>2. t = s
        BY <1>b, <2>2, <3>1, <4>1, OnlyOwner
      <4>3. QED
        BY <2>1, <4>2
    <3>4. QED
      BY <2>1, <2>5, <3>2, <3>3
  <2>6. QED
    BY <2>1, <2>3, <2>4, <2>5 DEF DeliveryInv
<1>10. ASSUME NEW s \in Slots, Retries(s) PROVE DeliveryInv'
  <2>1. /\ row'.window = row.window /\ history' = history /\ Others(s) /\ Owns(s)
        /\ jobs'[s].pc = "publish" /\ jobs[s].pc \in Running /\ ~jobs[s].started
    BY <1>10 DEF Retries, Written, MovesTo, Moves, Keeps, Running
  <2>2. ~history.out
    BY <2>1 DEF DeliveryInv
  <2>3. \A t \in Slots : jobs'[t].pc \in Running => t # s /\ jobs'[t] = jobs[t]
    BY <2>1 DEF Others, Running
  <2>4. \A t \in Slots : jobs'[t].pc \in Running => ~jobs'[t].owns
    BY <1>b, <2>1, <2>3, OnlyOwner
  <2>5. \A t \in Slots : jobs'[t].pc \in Sending => jobs'[t].window # row.window
    BY <1>b, <2>1, <2>3, <2>4 DEF DeliveryInv
  <2>6. QED
    BY <1>b, <2>1, <2>2, <2>4, <2>5 DEF DeliveryInv
<1>11. ASSUME NEW s \in Slots, Tick(s) PROVE DeliveryInv'
  <2>1. /\ row'.state = row.state /\ history' = history
        /\ ~jobs'[s].owns /\ jobs'[s].pc \notin Running /\ jobs'[s].pc \notin Sending
        /\ \A t \in Slots \ {s} : /\ jobs'[t].owns = jobs[t].owns
                                  /\ jobs'[t].pc = jobs[t].pc
                                  /\ jobs'[t].started = jobs[t].started
    BY <1>11, TickFacts DEF Renumbered, Enqueued, Running, Sending
  <2>2. \A t \in Slots \ {s} : jobs'[t].window = row'.window <=> jobs[t].window = row.window
    BY <1>11, TickOrder
  <2>3. QED
    BY <2>1, <2>2 DEF DeliveryInv
<1>12. QED
  BY <1>2, <1>3, <1>5, <1>6, <1>7, <1>8, <1>9, <1>10, <1>11, StepKinds

\* Nobody is cleared for a recipient after a late delivery.
LEMMA LateStep == IInv /\ [Next]_vars => \A t \in Slots : LateInv(t)'
<1> SUFFICES ASSUME IInv, [Next]_vars PROVE \A t \in Slots : LateInv(t)'
  OBVIOUS
<1> USE DEF IInv, Owns
<1>1. ASSUME NEW s \in Slots, Others(s), LateInv(s)' PROVE \A t \in Slots : LateInv(t)'
  BY <1>1 DEF Others, LateInv
<1>2. CASE Edits
  BY <1>2 DEF Edits, LateInv
<1>3. ASSUME NEW s \in Slots, Quiet(s) PROVE \A t \in Slots : LateInv(t)'
  BY <1>1, <1>3 DEF Quiet
<1>4. ASSUME NEW s \in Slots, Ends(s) PROVE \A t \in Slots : LateInv(t)'
  BY <1>1, <1>4 DEF Ends, LateInv
<1>5. ASSUME NEW s \in Slots, Recovers(s) PROVE \A t \in Slots : LateInv(t)'
  BY <1>5 DEF Recovers, Disowned, LateInv
<1>6. ASSUME NEW s \in Slots, Claims(s) PROVE \A t \in Slots : LateInv(t)'
  <2>1. \A t \in Slots : /\ jobs'[t].late = jobs[t].late /\ jobs'[t].left = jobs[t].left
                         /\ t # s => jobs'[t].pc = jobs[t].pc
    BY <1>6 DEF Claims, Claimed
  <2>2. jobs[s].late = 0 /\ jobs'[s].pc = "claimed"
    <3>1. jobs[s].pc = "cas" /\ jobs'[s].pc = "claimed" /\ jobs[s].late \in Nat
      BY <1>6 DEF Claims, Claimed, Typed, Jobs
    <3>2. ~(jobs[s].late > 0)
      BY <3>1 DEF LateInv, Busy, Running
    <3>3. QED
      BY <3>1, <3>2
  <2>3. \A t \in Slots \ {s} : jobs[t].pc \in Busy => ~jobs'[t].owns
    BY <1>6, <2>1, ClaimsFacts
  <2>4. QED
    BY <2>1, <2>2, <2>3 DEF LateInv
<1>7. ASSUME NEW s \in Slots, Enters(s) PROVE \A t \in Slots : LateInv(t)'
  <2>1. /\ Others(s) /\ jobs'[s].pc = "work" /\ jobs'[s].left >= 1
        /\ jobs'[s].late = jobs[s].late /\ Owns(s)
    BY <1>7, ReportAssumption DEF ReportAssumption, Enters, Moves, Keeps
  <2>2. QED
    BY <1>1, <2>1 DEF LateInv
<1>8. ASSUME NEW s \in Slots, Deliver(s) PROVE \A t \in Slots : LateInv(t)'
  <2>1. jobs[s].pc = "deliver" /\ jobs[s].late = 0 /\ jobs[s].left >= 1
    BY <1>8 DEF Deliver, LateInv, Typed, Jobs
  <2>2. PICK pc \in {"failed", "overrun", "send", "delivered"} :
          /\ pc = "send" => jobs[s].left > 1
          /\ Moves(s, pc, jobs[s].flag, TRUE, jobs[s].left - 1,
                   IF Owns(s) THEN jobs[s].late ELSE jobs[s].late + 1)
    BY <1>8, <2>1, DeliverFacts
  <2>3. jobs[s].left \in Int
    BY DEF Typed, Jobs
  <2>4. LateInv(s)'
    BY <2>1, <2>2, <2>3 DEF Moves, Keeps, LateInv, Busy, Running
  <2>5. QED
    BY <1>1, <2>2, <2>4 DEF Moves, Keeps
<1>9. ASSUME NEW s \in Slots, Retries(s) PROVE \A t \in Slots : LateInv(t)'
  <2>1. /\ Others(s) /\ jobs'[s].pc = "publish" /\ jobs'[s].late = jobs[s].late
        /\ Owns(s)
    BY <1>9 DEF Retries, MovesTo, Moves, Keeps
  <2>2. QED
    BY <1>1, <2>1 DEF LateInv
<1>10. ASSUME NEW s \in Slots, Tick(s) PROVE \A t \in Slots : LateInv(t)'
  <2>1. jobs'[s].pc = "queued" /\ jobs'[s].late = 0
    BY <1>10, TickFacts DEF Enqueued
  <2>2. \A t \in Slots \ {s} :
          /\ jobs'[t].pc = jobs[t].pc /\ jobs'[t].left = jobs[t].left
          /\ jobs'[t].late = jobs[t].late /\ jobs'[t].owns = jobs[t].owns
    BY <1>10, TickFacts DEF Renumbered
  <2>3. QED
    BY <2>1, <2>2 DEF LateInv
<1>11. QED
  BY <1>2, <1>3, <1>4, <1>5, <1>6, <1>7, <1>8, <1>9, <1>10, StepKinds
     DEF Cancels, Closes

\* A run knows the flag it would be retried by, unless it was switched.
LEMMA FlagStep == IInv /\ [Next]_vars => FlagInv'
<1> SUFFICES ASSUME IInv, [Next]_vars PROVE FlagInv'
  OBVIOUS
<1> USE DEF IInv, Owns
<1>b. Running \subseteq Busy
  BY DEF Busy
<1>1. ASSUME ~history'.disturbed => ~history.disturbed /\ row'.retry = row.retry,
             row'.state = "RETRYING" => row.state = "RETRYING",
             \A t \in Slots : jobs'[t].owns /\ jobs'[t].pc \in Running =>
               \/ jobs'[t].flag = row.retry
               \/ /\ jobs[t].owns /\ jobs[t].pc \in Running
                  /\ jobs'[t].flag = jobs[t].flag
      PROVE  FlagInv'
  BY <1>1 DEF FlagInv
<1>2. CASE Edits
  BY <1>1, <1>2 DEF Edits, Typed
<1>3. ASSUME NEW s \in Slots, Quiet(s) PROVE FlagInv'
  <2>1. ~history'.disturbed => ~history.disturbed
    BY <1>3 DEF Quiet, Typed
  <2>2. QED
    BY <1>1, <1>3, <2>1 DEF Quiet, Others, Keeps
<1>4. ASSUME NEW s \in Slots, Cancels(s) \/ (Closes(s) /\ history' = history)
      PROVE  FlagInv'
  BY <1>1, <1>4
     DEF Cancels, Closes, Ends, Others, StateWritten, Written, Idle, Running
<1>5. ASSUME NEW s \in Slots, Recovers(s) PROVE FlagInv'
  BY <1>1, <1>5 DEF Recovers, Disowned, StateWritten, Written
<1>6. ASSUME NEW s \in Slots, Claims(s) PROVE FlagInv'
  <2>1. /\ row'.state = "WORKING" /\ row'.retry = row.retry /\ jobs'[s].flag = row'.retry
    BY <1>6 DEF Claims, Written, Claimed
  <2>2. \A t \in Slots : jobs'[t].owns /\ jobs'[t].pc \in Running => t = s
    BY <1>6, <1>b, ClaimsFacts
  <2>3. QED
    BY <2>1, <2>2 DEF FlagInv
<1>7. ASSUME NEW s \in Slots, Enters(s) PROVE FlagInv'
  BY <1>1, <1>7 DEF Enters, StateWritten, Written, Moves, Keeps, Others
<1>8. ASSUME NEW s \in Slots, Deliver(s) PROVE FlagInv'
  <2>1. /\ row' = row /\ Keeps(s) /\ jobs'[s].flag = jobs[s].flag
        /\ jobs[s].pc = "deliver"
        /\ history'.disturbed = history.disturbed
    BY <1>8, DeliverFacts DEF LateInv, Deliver, RowKept, Moves, Typed
  <2>2. QED
    BY <1>1, <2>1 DEF Keeps, Others, Running
<1>9. ASSUME NEW s \in Slots, Retries(s) PROVE FlagInv'
  <2>1. /\ row'.retry = row.retry /\ history' = history /\ Others(s) /\ Owns(s)
        /\ jobs'[s].pc = "publish" /\ jobs[s].pc = "failed" /\ jobs[s].flag
    BY <1>9 DEF Retries, Written, MovesTo, Moves, Keeps
  <2>2. ~history.disturbed => row.retry
    BY <2>1 DEF FlagInv, Running
  <2>3. QED
    BY <2>1, <2>2 DEF FlagInv, Others, Running
<1>10. ASSUME NEW s \in Slots, Tick(s) PROVE FlagInv'
  BY <1>1, <1>10, TickFacts DEF Renumbered, Enqueued
<1>11. QED
  BY <1>2, <1>3, <1>4, <1>5, <1>6, <1>7, <1>8, <1>9, <1>10, StepKinds

\* The retry that the row waits for comes with the message in slot s.
Coming(s) ==
  \/ jobs[s].pc = "publish" /\ Owns(s)
  \/ /\ jobs[s].awaited /\ jobs[s].window = row.anchor
     /\ jobs[s].pc \in {"queued", "claim"} \/ (jobs[s].pc = "cas" /\ Unchanged(s))

\* Nobody turns away the retry that the row waits for.
LEMMA ComingStep == IInv /\ [Next]_vars => RetryIsComing'
<1> SUFFICES ASSUME IInv, [Next]_vars, row'.state = "RETRYING", ~history'.disturbed
             PROVE  \E t \in Slots : Coming(t)'
  BY DEF RetryIsComing, Coming
<1> USE DEF IInv
<1>c. row.state = "RETRYING" /\ ~history.disturbed => \E t \in Slots : Coming(t)
  BY DEF RetryIsComing, Coming
<1>1. ASSUME NEW s \in Slots, Others(s), row' = row, current \subseteq current',
             history'.disturbed = history.disturbed, Coming(s) => Coming(s)'
      PROVE  \E t \in Slots : Coming(t)'
  <2>1. PICK t \in Slots : Coming(t)
    BY <1>1, <1>c
  <2>2. CASE t = s
    BY <1>1, <2>1, <2>2
  <2>3. CASE t # s
    BY <1>1, <2>1, <2>3 DEF Coming, Others, Owns, Unchanged
  <2>4. QED
    BY <2>2, <2>3
<1>2. ASSUME NEW s \in Slots, Leaves(s), history' = history, ~Coming(s)
      PROVE  \E t \in Slots : Coming(t)'
  BY <1>1, <1>2 DEF Leaves, Ends, RowKept
<1>3. \A s \in Slots : jobs[s].pc \in Running \cup {"free", "cancel", "recover"}
        => ~Coming(s)
  BY DEF Coming, Running
<1>4. \A s \in Slots : Coming(s) /\ row.state = "RETRYING" /\ ~history.disturbed =>
        \/ jobs[s].pc = "publish"
        \/ /\ jobs[s].retry /\ AwaitedRetry(jobs[s]) /\ row.retry
           /\ row.anchor = jobs[s].window
  BY DEF Coming, MessagesInv, FreeInv, MessageInv, FlagInv, AwaitedRetry
<1>5. ASSUME Written("ERROR", row.window, NoWindow, 0)
               \/ StateWritten("ERROR") \/ StateWritten("WORKING")
      PROVE  FALSE
  BY <1>5 DEF StateWritten, Written
<1>6. ASSUME NEW s \in Slots, Closes(s) PROVE FALSE
  BY <1>6 DEF Closes, StateWritten, Written, Idle
<1>7. ASSUME NEW s \in Slots, Start(s) PROVE \E t \in Slots : Coming(t)'
  <2>1. /\ jobs[s].pc = "queued" /\ row' = row /\ history' = history
        /\ row.state = "RETRYING" /\ ~history.disturbed
    BY <1>7, StartFacts
  <2>2. Coming(s) => jobs[s].retry /\ row.retry /\ row.anchor = jobs[s].window
    BY <1>4, <2>1
  <2>3. CASE Coming(s)
    <3>1. MovesTo(s, "claim") /\ RowKept
      BY <1>7, <2>1, <2>2, <2>3, StartFacts
    <3>2. Coming(s)'
      BY <2>1, <2>3, <3>1 DEF Coming, MovesTo, Moves, Keeps
    <3>3. QED
      BY <3>2
  <2>4. CASE ~Coming(s)
    BY <1>1, <1>2, <1>7, <2>1, <2>4, StartFacts
       DEF MovesTo, Moves, Keeps, RowKept
  <2>5. QED
    BY <2>3, <2>4
<1>8. ASSUME NEW s \in Slots, CancelDisabled(s) PROVE \E t \in Slots : Coming(t)'
  BY <1>2, <1>3, <1>5, <1>8, CancelFacts DEF Leaves
<1>9. ASSUME NEW s \in Slots, Recover(s) PROVE \E t \in Slots : Coming(t)'
  BY <1>2, <1>3, <1>5, <1>9, RecoverFacts
<1>10. ASSUME NEW s \in Slots, ReadClaim(s) PROVE \E t \in Slots : Coming(t)'
  <2>1. /\ jobs[s].pc = "claim" /\ row' = row /\ history' = history
        /\ row.state = "RETRYING" /\ ~history.disturbed
    BY <1>10, ReadClaimFacts
  <2>2. Coming(s) => jobs[s].retry /\ AwaitedRetry(jobs[s])
    BY <1>4, <2>1
  <2>3. CASE Leaves(s)
    <3>1. jobs'[s].pc = "free"
      BY <2>3 DEF Leaves, Ends
    <3>2. jobs[s].retry => row.state = "WORKING" \/ ~AwaitedRetry(jobs[s])
      BY <1>4, <1>10, <3>1, ReadClaimFacts DEF Moves
    <3>3. ~Coming(s)
      BY <2>1, <2>2, <3>2
    <3>4. QED
      BY <1>2, <2>1, <2>3, <3>3 DEF Leaves
  <2>4. CASE /\ Moves(s, "cas", row.retry, jobs[s].started, jobs[s].left, jobs[s].late)
             /\ current' = current \cup {s}
    <3>1. Coming(s) => Coming(s)'
      BY <2>1, <2>4 DEF Coming, Moves, Keeps, Unchanged
    <3>2. QED
      BY <1>1, <2>1, <2>4, <3>1 DEF Moves, Keeps
  <2>5. QED
    BY <1>10, <2>3, <2>4, ReadClaimFacts
<1>11. ASSUME NEW s \in Slots, Claim(s) PROVE \E t \in Slots : Coming(t)'
  <2>1. CASE Leaves(s) /\ history' = history /\ ~Unchanged(s)
    BY <1>2, <1>11, <2>1, ClaimFacts DEF Coming
  <2>2. QED
    BY <1>11, <2>1, ClaimFacts DEF Written
<1>12. ASSUME NEW s \in Slots, Enter(s) PROVE \E t \in Slots : Coming(t)'
  <2>1. jobs[s].pc \in Running /\ history' = history
    BY <1>12, EnterFacts DEF Running
  <2>2. QED
    BY <1>2, <1>3, <1>5, <1>6, <1>12, <2>1, EnterFacts
<1>13. ASSUME NEW s \in Slots, Work(s) \/ Assert(s) \/ WriteFails(s) \/ Deliver(s)
       PROVE  \E t \in Slots : Coming(t)'
  <2>1. jobs[s].pc \in Running /\ current' = current
    BY <1>13 DEF Work, Assert, WriteFails, Deliver, Running, Drop
  <2>2. Others(s) /\ row' = row /\ history'.disturbed = history.disturbed
    BY <1>13, WorkFacts, AssertFacts, WriteFailsFacts, DeliverFacts
       DEF LateInv, Deliver, RowKept, Leaves, Ends, MovesTo, Moves, Keeps, Typed
  <2>3. QED
    BY <1>1, <1>3, <2>1, <2>2
<1>14. ASSUME NEW s \in Slots, Finish(s) \/ Boundary(s)
       PROVE  \E t \in Slots : Coming(t)'
  <2>1. jobs[s].pc \in Running /\ history' = history
    BY <1>14, FinishFacts, BoundaryFacts DEF Running
  <2>2. QED
    BY <1>2, <1>3, <1>6, <1>14, <2>1, FinishFacts, BoundaryFacts
<1>15. ASSUME NEW s \in Slots, Fail(s) PROVE \E t \in Slots : Coming(t)'
  <2>1. jobs[s].pc \in Running /\ history' = history
    BY <1>15, FailFacts DEF Running
  <2>2. CASE Owns(s) /\ MovesTo(s, "publish")
    BY <2>2 DEF Coming, MovesTo, Moves, Keeps, Owns
  <2>3. QED
    BY <1>2, <1>3, <1>6, <1>15, <2>1, <2>2, FailFacts
<1>16. ASSUME NEW s \in Slots, Publish(s) PROVE \E t \in Slots : Coming(t)'
  <2>1. /\ jobs[s].pc = "publish" /\ RowKept /\ history' = history /\ Others(s)
        /\ Enqueued(s, jobs[s].window, TRUE, Owns(s)) /\ row.state = "RETRYING"
    BY <1>16, PublishFacts DEF RowKept
  <2>2. ASSUME Owns(s) PROVE Coming(s)'
    <3>1. jobs[s].window = row.window
      BY <2>1, <2>2, OnlyOwner DEF Busy
    <3>2. row.anchor = row.window
      BY <2>1 DEF CounterInv
    <3>3. QED
      BY <2>1, <2>2, <3>1, <3>2 DEF Coming, Enqueued, RowKept
  <2>3. Coming(s) => Owns(s)
    BY <2>1 DEF Coming
  <2>4. QED
    BY <1>1, <2>1, <2>2, <2>3 DEF RowKept
<1>17. ASSUME NEW s \in Slots, Crash(s) \/ PublishFails(s) PROVE FALSE
  BY <1>17 DEF Crash, PublishFails, Disturb, Typed
<1>18. ASSUME NEW s \in Slots, NEW t \in Slots, Redeliver(s, t)
       PROVE  \E u \in Slots : Coming(u)'
  BY <1>1, <1>3, <1>18, RedeliverFacts DEF Delivered, RowKept
<1>19. ASSUME NEW s \in Slots, Tick(s) PROVE \E t \in Slots : Coming(t)'
  <2>1. /\ jobs[s].pc = "free" /\ row'.state = row.state /\ row'.retry = row.retry
        /\ history' = history /\ current' = current
        /\ \A t \in Slots \ {s} :
             /\ jobs'[t].pc = jobs[t].pc /\ jobs'[t].owns = jobs[t].owns
             /\ jobs'[t].awaited = jobs[t].awaited /\ jobs'[t].flag = jobs[t].flag
    BY <1>19, TickFacts DEF Renumbered
  <2>2. PICK t \in Slots : Coming(t)
    BY <1>c, <2>1
  <2>3. t # s
    BY <1>3, <2>1, <2>2
  <2>4. jobs[t].window = row.anchor => jobs'[t].window = row'.anchor
    BY <1>19, <2>3, TickOrder
  <2>5. Coming(t)'
    BY <2>1, <2>2, <2>3, <2>4 DEF Coming, Owns, Unchanged
  <2>6. QED
    BY <2>5
<1>20. CASE Age
  <2>1. /\ row'.anchor = row.anchor /\ row'.retry = row.retry /\ row'.state = row.state
        /\ UNCHANGED <<jobs, current, history>>
    BY <1>20, AgeFacts DEF RowOtherwiseKept
  <2>2. QED
    BY <1>c, <2>1 DEF Coming, Owns, Unchanged
<1>21. CASE Toggle
  BY <1>21 DEF Toggle, Disturb, Typed
<1>22. CASE DecideDeactivate \/ UNCHANGED vars
  BY <1>c, <1>22 DEF DecideDeactivate, vars, Coming, Owns, Unchanged
<1>23. CASE Deactivate
  BY <1>23, DeactivateFacts
<1>24. QED
  BY <1>7, <1>8, <1>9, <1>10, <1>11, <1>12, <1>13, <1>14, <1>15, <1>16, <1>17,
     <1>18, <1>19, <1>20, <1>21, <1>22, <1>23 DEF Next, JobStep

\* At first, there are no messages and nothing has been run.
LEMMA InitIInv == Init => IInv
<1> SUFFICES ASSUME Init PROVE IInv
  OBVIOUS
<1> USE DEF Init
<1>1. Typed
  BY FreeType, ReportAssumption DEF Typed, Rows, States, Idle, NoWindow, ReportAssumption
<1>2. \A s \in Slots : jobs[s] = Free
  OBVIOUS
<1>3. \A s \in Slots : FreeInv(s) /\ MessageInv(s) /\ ReadInv(s) /\ LateInv(s)
  BY <1>2, FreeFields DEF FreeInv, MessageInv, ReadInv, LateInv
<1>4. \A s, t \in Slots : PairInv(s, t)
  BY <1>2, FreeFields DEF PairInv
<1>5. CounterInv
  BY <1>2, FreeFields, ReportAssumption DEF CounterInv, Owns, NoWindow, ReportAssumption
<1>6. DeliveryInv /\ FlagInv /\ RetryIsComing
  BY <1>2, FreeFields DEF DeliveryInv, FlagInv, RetryIsComing, Owns, Sending
<1>7. QED
  BY <1>1, <1>3, <1>4, <1>5, <1>6 DEF IInv, MessagesInv

----------------------------------------------------------------------------
(* The theorems.                                                           *)

\* The invariant of every execution.
LEMMA Invariance == Spec => []IInv
<1>1. IInv /\ [Next]_vars => IInv'
  BY TypeStep, MessagesStep, ReadStep, CounterStep, DeliveryStep, LateStep, FlagStep,
     ComingStep DEF IInv
<1>2. QED
  BY InitIInv, <1>1, PTL DEF Spec

\* Row and jobs keep their types, one execution owns the row and one retry is
\* awaited, copies aside.
THEOREM TypeCorrect == Spec => []TypeOK
<1>1. IInv => TypeOK
  <2> SUFFICES ASSUME IInv PROVE TypeOK
    OBVIOUS
  <2>1. ASSUME NEW s \in Slots, NEW t \in Slots,
               \/ jobs[s].owns /\ jobs[t].owns
               \/ jobs[s].awaited /\ jobs[t].awaited
        PROVE  jobs[s].id = jobs[t].id
    BY <2>1 DEF IInv, MessagesInv, FreeInv, PairInv
  <2>2. QED
    BY <2>1 DEF IInv, Typed, Rows, Jobs, TypeOK
<1>2. QED
  BY Invariance, <1>1, PTL

\* A window of which any recipient may have the content is not run again,
\* however often its message is delivered and its workers die.
THEOREM DeliveredIsNotRerun == Spec => []DeliveredWindowIsNotRerun
<1>1. IInv => DeliveredWindowIsNotRerun
  BY DEF IInv, DeliveryInv, DeliveredWindowIsNotRerun, Running
<1>2. QED
  BY Invariance, <1>1, PTL

\* The retry counter is that of the row's window.
THEOREM CounterCounts == Spec => []CounterCountsRuns
<1>1. IInv => CounterCountsRuns
  BY DEF IInv, CounterInv, CounterCountsRuns, Running
<1>2. QED
  BY Invariance, <1>1, PTL

\* A worker that has lost the row serves at most one recipient more.
THEOREM FencedSendsOnce == Spec => []FencedWorkerSendsOnce
<1>1. IInv => FencedWorkerSendsOnce
  BY DEF IInv, LateInv, Typed, Jobs, FencedWorkerSendsOnce
<1>2. QED
  BY Invariance, <1>1, PTL

\* A row that waits for a retry has one coming, unless somebody dies, loses
\* the retry or edits the schedule.
THEOREM RetryComes == Spec => []RetryIsComing
BY Invariance, PTL DEF IInv

\* A claim is the first of its message.
LEMMA ClaimStep ==
  IInv /\ [Next]_vars =>
    \A s \in Slots : jobs[s].pc = "cas" /\ jobs'[s].pc = "claimed" => ~jobs[s].ran
<1> SUFFICES ASSUME IInv, [Next]_vars, NEW s \in Slots,
                    jobs[s].pc = "cas", jobs'[s].pc = "claimed"
             PROVE  ~jobs[s].ran
  OBVIOUS
<1> USE DEF IInv
<1>n. jobs[s].pc \notin Running /\ jobs'[s].pc \in Running
  BY DEF Running
<1>1. ASSUME NEW t \in Slots, Quiet(t) PROVE FALSE
  BY <1>n, <1>1 DEF Quiet, Others
<1>2. ASSUME NEW t \in Slots, Cancels(t) \/ Closes(t) PROVE FALSE
  BY <1>2 DEF Cancels, Closes, Ends, Others
<1>3. ASSUME NEW t \in Slots, Recovers(t) PROVE FALSE
  BY <1>3 DEF Recovers, Disowned
<1>4. ASSUME NEW t \in Slots, Claims(t) PROVE t = s
  BY <1>4 DEF Claims, Claimed
<1>5. ASSUME NEW t \in Slots, Enters(t) \/ Retries(t) PROVE FALSE
  BY <1>5 DEF Enters, Retries, MovesTo, Moves, Keeps, Others
<1>6. ASSUME NEW t \in Slots, Deliver(t) PROVE FALSE
  BY <1>6, DeliverFacts DEF LateInv, Deliver, Moves, Keeps, Others
<1>7. ASSUME NEW t \in Slots, Tick(t) PROVE FALSE
  BY <1>7, TickFacts DEF Renumbered, Enqueued
<1>8. QED
  BY <1>1, <1>2, <1>3, <1>4, <1>5, <1>6, <1>7, StepKinds, ClaimsFacts DEF Edits

\* No delivery of a message runs what an earlier one has run.
THEOREM OneRun == Spec => OneRunPerMessage
BY Invariance, ClaimStep, PTL DEF Spec, OneRunPerMessage

\* A run is ended by its owner, by a recovery of a row that has been left
\* alone for the working timeout, or by an editor.
LEMMA EndStep ==
  IInv /\ [Next]_vars =>
    (row.state = "WORKING" /\ row'.state # "WORKING" =>
       \/ \E s \in Slots : Owns(s) /\ jobs'[s] # jobs[s]
       \/ row.old /\ \A s \in Slots : ~jobs'[s].owns
       \/ editor' # editor)
<1> SUFFICES ASSUME IInv, [Next]_vars, row.state = "WORKING", row'.state # "WORKING",
                    \A s \in Slots : Owns(s) => jobs'[s] = jobs[s], editor' = editor
             PROVE  row.old /\ \A s \in Slots : ~jobs'[s].owns
  OBVIOUS
<1> USE DEF IInv
<1>1. ASSUME NEW s \in Slots, Recover(s) PROVE row.old /\ \A t \in Slots : ~jobs'[t].owns
  BY <1>1, RecoverFacts DEF Leaves, RowKept, ReadInv, Disowned
<1>2. ASSUME NEW s \in Slots, Owns(s), jobs'[s].pc # jobs[s].pc PROVE FALSE
  BY <1>2
<1>3. ASSUME NEW s \in Slots, Closes(s) PROVE FALSE
  BY <1>2, <1>3 DEF Closes, Ends, Running
<1>4. ASSUME NEW s \in Slots, Enter(s) \/ Finish(s) \/ Fail(s) \/ Boundary(s) PROVE FALSE
  BY <1>2, <1>3, <1>4, EnterFacts, FinishFacts, FailFacts, BoundaryFacts
     DEF Leaves, RowKept, StateWritten, Written, MovesTo, Moves
<1>5. ASSUME NEW s \in Slots, Claim(s) \/ CancelDisabled(s) PROVE FALSE
  BY <1>5, ClaimFacts, CancelFacts DEF Leaves, RowKept, Written
<1>6. ASSUME row' = row PROVE FALSE
  BY <1>6
<1>7. ASSUME NEW s \in Slots, Tick(s) PROVE FALSE
  BY <1>7, TickFacts
<1>8. CASE Age
  BY <1>8, AgeFacts
<1>9. CASE Toggle
  BY <1>9, ToggleFacts
<1>10. CASE Deactivate
  BY <1>10, DeactivateFacts
<1>11. QED
  BY <1>1, <1>4, <1>5, <1>6, <1>7, <1>8, <1>9, <1>10
     DEF Next, JobStep, Start, ReadClaim, Work, Assert, Deliver, Publish, Crash,
         WriteFails, PublishFails, Redeliver, DecideDeactivate, vars

\* Nobody ends the run of a worker that is alive and owns the row.
THEOREM NobodyElseEnds == Spec => NobodyEndsForAnother
BY Invariance, EndStep, PTL DEF Spec, NobodyEndsForAnother

=============================================================================
