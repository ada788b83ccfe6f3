--------------------------- MODULE MCPhoneExecutor ---------------------------
(* Instances of PhoneExecutor for TLC: two runs, of two tasks or of one. *)
EXTENDS PhoneExecutor, TLC

CONSTANTS r1, r2, t1, t2, s1, s2

OwnTask  == (r1 :> t1) @@ (r2 :> t2)
SameTask == (r1 :> t1) @@ (r2 :> t1)

\* The runs can change places if their tasks do, and so can the threads of scripts: it
\* makes no difference which of those that are free is taken.
Symmetry == {p \in Permutations(Runs \cup Tasks \cup Scripts) :
    /\ {p[r] : r \in Runs} = Runs /\ {p[s] : s \in Scripts} = Scripts
    /\ \A r \in Runs : p[TaskOf[r]] = TaskOf[p[r]]}
=============================================================================
