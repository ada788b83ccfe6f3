------------------------------- MODULE LogQueue -------------------------------
(***************************************************************************)
(* The phone's log on its way to the server: gLogQueue with cloudLog and   *)
(* flushCloudLogs of client/easyclick/src/js/main.js. A flush copies the   *)
(* front of the queue, sends the copy and removes as many entries; it runs *)
(* on a timer, and in the thread of each connection that is made.          *)
(***************************************************************************)
EXTENDS Integers, Sequences, FiniteSets

CONSTANTS
    QueueLimit, BatchLimit,     \* MAX_CLOUD_LOG_QUEUE, MAX_CLOUD_LOG_BATCH
    MaxEntries                  \* bound: entries logged in a behaviour

QueueAssumption == {QueueLimit, BatchLimit} \subseteq Nat \ {0} /\ MaxEntries \in Nat

Flushers == {"timer", "connect"}

VARIABLES
    gLogQueue,      \* entries are numbered in the order they are logged
    batch,          \* what each flush has copied; <<>> outside of one
    passed,         \* how far each flush is: its batch is to be sent, or was
    logged,         \* history: number of the last entry
    sent,           \* history: entries sent
    evicted,        \* history: entries shifted out of a full queue
    raced           \* history: two flushes overlapped, or an eviction came in one

logVars == <<gLogQueue, batch, passed, logged, sent, evicted, raced>>

TypeOK ==
    /\ gLogQueue \in Seq(1..MaxEntries) /\ Len(gLogQueue) <= QueueLimit
    /\ \A f \in Flushers : batch[f] \in Seq(1..MaxEntries) /\ Len(batch[f]) <= BatchLimit
    /\ passed \in [Flushers -> BOOLEAN]
    /\ logged \in 0..MaxEntries /\ sent \subseteq 1..logged /\ evicted \subseteq 1..logged
    /\ raced \in BOOLEAN

Init ==
    /\ gLogQueue = <<>> /\ logged = 0
    /\ batch = [f \in Flushers |-> <<>>] /\ passed = [f \in Flushers |-> FALSE]
    /\ sent = {} /\ evicted = {} /\ raced = FALSE

Entries(q) == {q[i] : i \in DOMAIN q}
Flushing(f) == batch[f] # <<>>
FirstOf(q, n) == SubSeq(q, 1, IF n < Len(q) THEN n ELSE Len(q))

\* splice(0, n)
Without(q, n) == SubSeq(q, n + 1, Len(q))

CloudLog ==
    /\ logged < MaxEntries /\ logged' = logged + 1
    /\ LET over == IF Len(gLogQueue) >= QueueLimit THEN 1 ELSE 0 IN
        /\ gLogQueue' = Append(Without(gLogQueue, over), logged')
        /\ evicted' = evicted \cup Entries(FirstOf(gLogQueue, over))
        /\ raced' = (raced \/ (over = 1 /\ \E f \in Flushers : Flushing(f)))
    /\ UNCHANGED <<batch, passed, sent>>

\* flushCloudLogs up to sendWS ...
BeginFlush(f) ==
    /\ ~Flushing(f) /\ gLogQueue # <<>>
    /\ batch' = [batch EXCEPT ![f] = FirstOf(gLogQueue, BatchLimit)]
    /\ raced' = (raced \/ \E g \in Flushers : Flushing(g))
    /\ UNCHANGED <<gLogQueue, passed, logged, sent, evicted>>

\* ... sendWS, which fails without a connection ...
SendBatch(f) ==
    /\ Flushing(f) /\ ~passed[f]
    /\ \/ passed' = [passed EXCEPT ![f] = TRUE] /\ sent' = sent \cup Entries(batch[f])
          /\ UNCHANGED batch
       \/ batch' = [batch EXCEPT ![f] = <<>>] /\ UNCHANGED <<passed, sent>>
    /\ UNCHANGED <<gLogQueue, logged, evicted, raced>>

\* Mutant: a full batch is removed, however many entries were sent.
RemovedAlways(f) == BatchLimit

Removed(f) == Len(batch[f])

\* ... and the removal.
EndFlush(f) ==
    /\ Flushing(f) /\ passed[f]
    /\ gLogQueue' = Without(gLogQueue, Removed(f))
    /\ batch' = [batch EXCEPT ![f] = <<>>] /\ passed' = [passed EXCEPT ![f] = FALSE]
    /\ UNCHANGED <<logged, sent, evicted, raced>>

Next == CloudLog \/ \E f \in Flushers : BeginFlush(f) \/ SendBatch(f) \/ EndFlush(f)

Spec == Init /\ [][Next]_logVars

-----------------------------------------------------------------------------
\* main.js:601 flushCloudLogs, main.js:584 cloudLog: an entry leaves the queue only
\* when it was sent or the queue was full, although entries are logged while a batch
\* is sent; unless two flushes overlapped or an entry was shifted out during one.
LogsAreSent == ~raced =>
    1..logged = Entries(gLogQueue) \cup sent \cup evicted

\* The same without the exceptions: refuted by TLC.
LogsAreSentAlways == 1..logged = Entries(gLogQueue) \cup sent \cup evicted
=============================================================================
