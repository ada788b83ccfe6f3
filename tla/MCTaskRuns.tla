----------------------------- MODULE MCTaskRuns ------------------------------
(* Small instances of TaskRuns for TLC. *)
EXTENDS TaskRuns, TLC

\* At most so many live deliveries and copies, and unconfirmed reports, at a time.
FewUnderWay == Cardinality(inbox) + Cardinality(Live) <= 3 /\ Cardinality(reports) <= 1

\* The same with one less, for the instance in which most requests mix.
FewerUnderWay == Cardinality(inbox) + Cardinality(Live) <= 2 /\ Cardinality(reports) <= 1
=============================================================================
