-------------------------- MODULE MCTaskSubmission --------------------------
(***************************************************************************)
(* Two tabs of one user and one tab of another share a chart-data query.   *)
(***************************************************************************)
EXTENDS TaskSubmission

CONSTANTS a1, a2, b1, a, b

TabOwner == [c \in {a1, a2, b1} |-> IF c = b1 THEN b ELSE a]

=============================================================================
