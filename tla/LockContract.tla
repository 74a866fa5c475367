---------------------------- MODULE LockContract ----------------------------
(***************************************************************************)
(* What the users of task_lock rely on ("all operations on the same        *)
(* logical task use the same lock, ensuring mutual exclusion"): at most    *)
(* one process is inside the critical section.  A process whose lock       *)
(* expired under it is no longer counted as inside.                        *)
(***************************************************************************)
CONSTANT Procs

VARIABLE inside

Init == inside = {}

Enter(p) == inside = {} /\ inside' = {p}

Leave(p) == p \in inside /\ inside' = inside \ {p}

Next == \E p \in Procs : Enter(p) \/ Leave(p)

Spec == Init /\ [][Next]_inside

=============================================================================
