-------------------------- MODULE MCCommandDelivery --------------------------
(* Instances of CommandDelivery for TLC. All commands belong to one task and
   each to a run of its own; only the equality of runs matters, so a run goes
   by the name of its command, which keeps the commands symmetric.          *)
EXTENDS CommandDelivery, TLC

CONSTANT t1

OneTaskOf == [c \in Commands |-> t1]
OwnRunOf  == [c \in Commands |-> c]

CommandSymmetry == Permutations(Commands)
ReaderSymmetry  == Permutations(Readers)

\* Bounds for the run with two commands. At most one copy on its way down, one
\* ack or event_ack on the wire and one ack in the outbox:
FewInFlight ==
    /\ Cardinality({c \in Commands : downlink[c] > 0}) <= 1
    /\ \A c \in Commands : downlink[c] <= 1
    /\ Cardinality(uplink) + Cardinality(confirms) <= 1
    /\ Cardinality(outbox) <= 1
=============================================================================
