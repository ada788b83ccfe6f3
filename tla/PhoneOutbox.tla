----------------------------- MODULE PhoneOutbox -----------------------------
(***************************************************************************)
(* The phone's event outbox: client/easyclick/src/js/main.js, the          *)
(* functions loadCloudEventOutbox .. acknowledgeCloudEvent. Task states    *)
(* and acks are kept in memory and in storage until the server confirms    *)
(* them with an event_ack.                                                 *)
(*                                                                         *)
(* EasyClick runs timers, socket readers and scripts in threads of their   *)
(* own (libs/thread.js:7) and these functions take no lock: calls of two   *)
(* Threads interleave between any two of the steps below. A step ends      *)
(* where the code reads the array after it has written it, replaces it, or *)
(* calls the storage or the network.                                       *)
(***************************************************************************)
EXTENDS Integers, FiniteSets

CONSTANTS
    Names,          \* the runs and commands that events are about
    Threads,
    MaxItems,       \* MAX_CLOUD_EVENT_OUTBOX
    MaxBytes,       \* MAX_CLOUD_EVENT_OUTBOX_BYTES, in units of an ack
    Batch,          \* events one flush sends: 20
    MaxQueued,      \* bound: events queued in a behaviour
    MaxOverlaps,    \* bound: calls that overlap another one in a behaviour
    MaxFaults,      \* bound: faults in a behaviour
    FaultKinds      \* a subset of AllFaults

AllFaults == {"crash", "read", "store", "ttl", "loss"}

ASSUME NamesAssumption == IsFiniteSet(Names)
ASSUME LimitsAssumption ==
    /\ MaxItems \in Nat /\ MaxBytes \in Nat /\ Batch \in Nat \ {0}
    /\ MaxQueued \in Nat /\ MaxOverlaps \in Nat /\ MaxFaults \in Nat /\ FaultKinds \subseteq AllFaults

VARIABLES
    loaded,         \* gCloudEventOutbox !== null
    outbox,         \* gCloudEventOutbox
    stored,         \* CLOUD_EVENT_OUTBOX_KEY in the phone's storage
    recent,         \* items whose last_sent_at is younger than CLOUD_EVENT_RETRY_MS
    expired,        \* items whose expires_at has passed
    online,         \* isCloudConnected()
    uplink,         \* items sent and neither confirmed nor lost
    thread,         \* what each thread executes
    queued, faults, \* history: events queued and faults so far
    overlaps,       \* history: calls that have overlapped another one
    kept, settled,  \* history: items written to storage by their own call; and
                    \* those confirmed, expired, merged or evicted by priority
    atRisk          \* history: items whose own call another one has overlapped; and
                    \* those in storage when its read failed, or when a call
                    \* overlapped the one that loads them

vars == <<loaded, outbox, stored, recent, expired, online, uplink, thread,
          queued, faults, overlaps, kept, settled, atRisk>>
memory == <<loaded, outbox, recent>>
wire   == <<online, uplink>>
counts == <<queued, faults, overlaps>>
history == <<kept, settled, atRisk>>

Kinds == {"terminal", "ack", "progress"}
Item  == [kind : Kinds, of : Names, at : 1..MaxQueued]     \* at: its place in the order
NoItem == [kind |-> "none"]

\* cloudEventPolicy
Priority(i) == CASE i.kind = "terminal" -> 4 [] i.kind = "ack" -> 3 [] i.kind = "progress" -> 2
Size(i) == IF i.kind = "terminal" THEN 2 ELSE 1

\* The event_id of an ack is its command, that of a task state has a timestamp.
SameEvent(i, j) == i = j \/ (i.kind = "ack" /\ j.kind = "ack" /\ i.of = j.of)

Idle == [pc |-> "idle", call |-> "none", item |-> NoItem, copy |-> {}]
Call == {"queue", "confirm", "flush", "heartbeat", "none"}
Pc   == {"idle", "load", "parse", "ready", "push", "compact", "assign", "evict",
         "encode", "put", "flush", "swap"}

TypeOK ==
    /\ loaded \in BOOLEAN /\ online \in BOOLEAN
    /\ outbox \subseteq Item /\ stored \subseteq Item
    /\ recent \subseteq Item /\ expired \subseteq Item /\ uplink \subseteq Item
    /\ thread \in [Threads -> [pc : Pc, call : Call, item : Item \cup {NoItem}, copy : SUBSET Item]]
    /\ queued \in 0..MaxQueued /\ overlaps \in 0..MaxOverlaps /\ faults \in 0..MaxFaults
    /\ kept \subseteq Item /\ settled \subseteq Item /\ atRisk \subseteq Item

Init ==
    /\ loaded = FALSE /\ outbox = {} /\ stored = {} /\ recent = {} /\ expired = {}
    /\ online = FALSE /\ uplink = {}
    /\ thread = [t \in Threads |-> Idle]
    /\ queued = 0 /\ faults = 0 /\ overlaps = 0 /\ kept = {} /\ settled = {} /\ atRisk = {}

Fault(kind) == kind \in FaultKinds /\ faults < MaxFaults /\ faults' = faults + 1
At(t, pc) == thread[t].pc = pc
Goto(t, pc) == thread' = [thread EXCEPT ![t].pc = pc]
Return(t) == thread' = [thread EXCEPT ![t] = Idle]
Flushing(t, pc) == thread' = [thread EXCEPT ![t] = [pc |-> pc, call |-> "flush", item |-> NoItem, copy |-> {}]]
Older(i, j) == i.at < j.at

-----------------------------------------------------------------------------
(* The calls.                                                               *)

\* The items of the calls of queueCloudEvent under way in the threads S.
InHand(S) == {i \in Item : \E u \in S : thread[u].call = "queue" /\ thread[u].item = i}

Loading == ~loaded \/ \E u \in Threads : thread[u].pc \in {"load", "parse"}

Active == {u \in Threads : ~At(u, "idle")}

Alone == Active = {} /\ UNCHANGED <<overlaps, atRisk>>

\* What a call that is not alone puts at risk.
Overlaps(call, item) ==
    /\ Active # {} /\ overlaps < MaxOverlaps /\ overlaps' = overlaps + 1
    /\ atRisk' = atRisk \cup InHand(Active) \cup (IF call = "queue" THEN {item} ELSE {})
                                         \cup (IF Loading THEN kept ELSE {})

Enter(t, call, item) ==
    /\ At(t, "idle")
    /\ Alone \/ Overlaps(call, item)
    /\ thread' = [thread EXCEPT ![t] = [pc |-> IF loaded THEN "ready" ELSE "load",
                                        call |-> call, item |-> item, copy |-> {}]]

\* sendTaskStatus and sendCloudAck
QueueCall(t, kind, name) ==
    /\ queued < MaxQueued /\ queued' = queued + 1
    /\ Enter(t, "queue", [kind |-> kind, of |-> name, at |-> queued + 1])
    /\ UNCHANGED <<memory, stored, expired, wire, faults, kept, settled>>

\* An event_ack arrives. An item sent more than once is confirmed more than once.
ConfirmCall(t, i) ==
    /\ online /\ i \in uplink
    /\ Enter(t, "confirm", i)
    /\ uplink' \in {uplink, uplink \ {i}}
    /\ settled' = settled \cup {j \in outbox \cup stored \cup {i} : SameEvent(i, j)}
    /\ UNCHANGED <<memory, stored, expired, online, queued, faults, kept>>

\* sendHeartbeatNow, from the heartbeat timer
HeartbeatCall(t) ==
    /\ online /\ outbox # {}
    /\ Enter(t, "heartbeat", NoItem)
    /\ UNCHANGED <<memory, stored, expired, wire, queued, faults, kept, settled>>

\* flushCloudEventOutbox(true), after a connection is made
ReconnectCall(t) ==
    /\ ~online /\ online' = TRUE
    /\ Enter(t, "flush", NoItem)
    /\ UNCHANGED <<memory, stored, expired, uplink, queued, faults, kept, settled>>

\* The first call after a start runs loadCloudEventOutbox: the array is empty while
\* the stored one is read.
Load(t) ==
    /\ At(t, "load")
    /\ loaded' = TRUE /\ outbox' = {}
    /\ Goto(t, "parse")
    /\ UNCHANGED <<recent, stored, expired, wire, counts, history>>

\* A read that fails, or a text that does not parse, leaves an empty array, which
\* the next save writes over what is stored.
Parse(t) ==
    /\ At(t, "parse")
    /\ \/ /\ outbox' = IF stored = {} THEN outbox ELSE stored
          /\ UNCHANGED <<faults, atRisk>>
       \/ /\ Fault("read")
          /\ outbox' = {}
          /\ atRisk' = atRisk \cup kept
    /\ Goto(t, "ready")
    /\ UNCHANGED <<loaded, recent, stored, expired, wire, queued, overlaps, kept, settled>>

-----------------------------------------------------------------------------
(* queueCloudEvent                                                          *)

\* An event that is already there is only flushed; a new progress report
\* replaces the ones of the same run.
QueueMerge(t) ==
    LET i == thread[t].item
        merged == IF i.kind = "progress"
                  THEN {j \in outbox : j.kind = "progress" /\ j.of = i.of} ELSE {} IN
    /\ At(t, "ready") /\ thread[t].call = "queue"
    /\ IF \E j \in outbox : SameEvent(i, j)
       THEN Flushing(t, "flush") /\ UNCHANGED <<outbox, settled>>
       ELSE /\ Goto(t, "push")
            /\ outbox' = outbox \ merged
            /\ settled' = settled \cup merged
    /\ UNCHANGED <<loaded, recent, stored, expired, wire, counts, kept, atRisk>>

QueuePush(t) ==
    /\ At(t, "push")
    /\ outbox' = outbox \cup {thread[t].item}
    /\ Goto(t, "compact")
    /\ UNCHANGED <<loaded, recent, stored, expired, wire, counts, history>>

\* compactCloudEventOutbox: a new array without the expired items ...
Compact(t) ==
    /\ At(t, "compact")
    /\ thread' = [thread EXCEPT ![t].copy = outbox \ expired, ![t].pc = "assign"]
    /\ UNCHANGED <<memory, stored, expired, wire, counts, history>>

\* ... replaces the old one ...
Assign(t) ==
    /\ At(t, "assign")
    /\ outbox' = thread[t].copy
    /\ thread' = [thread EXCEPT ![t].pc = "evict", ![t].copy = {}]
    /\ UNCHANGED <<loaded, recent, stored, expired, wire, counts, history>>

Bytes(S) == Cardinality(S) + Cardinality({i \in S : Size(i) = 2})
Full == Cardinality(outbox) > MaxItems \/ Bytes(outbox) > MaxBytes

\* Mutants: any item may go; or one item fewer fits than is checked for.
AnyVictims == {i \in outbox : \A j \in outbox : i = j \/ Older(i, j)}
NoVictimsAtLimit == {i \in outbox : Cardinality(outbox) > MaxItems + 1 /\ Priority(i) < 4}

\* the first item of the lowest priority; a terminal state never
Victims ==
    {i \in outbox : /\ Priority(i) < 4
                    /\ \A j \in outbox : Priority(i) <= Priority(j)
                    /\ \A j \in outbox : Priority(i) = Priority(j) => i = j \/ Older(i, j)}

\* ... and shrinks to the limits.
Evict(t) ==
    /\ At(t, "evict")
    /\ IF Full /\ Victims # {}
       THEN \E i \in Victims :
                /\ outbox' = outbox \ {i}
                /\ settled' = IF Priority(i) < 4 THEN settled \cup {i} ELSE settled
                /\ UNCHANGED thread
       ELSE Goto(t, "encode") /\ UNCHANGED <<outbox, settled>>
    /\ UNCHANGED <<loaded, recent, stored, expired, wire, counts, kept, atRisk>>

\* saveCloudEventOutbox: the array as it is now ...
Encode(t) ==
    /\ At(t, "encode")
    /\ thread' = [thread EXCEPT ![t].copy = outbox, ![t].pc = "put"]
    /\ UNCHANGED <<memory, stored, expired, wire, counts, history>>

AfterPut(t) ==
    IF thread[t].call = "queue" THEN Flushing(t, "flush") ELSE Return(t)

\* ... is written to storage; an exception there is swallowed.
Put(t) ==
    /\ At(t, "put")
    /\ \/ /\ stored' = thread[t].copy
          /\ kept' = IF thread[t].call = "queue" THEN kept \cup {thread[t].item} ELSE kept
          /\ UNCHANGED faults
       \/ Fault("store") /\ UNCHANGED <<stored, kept>>
    /\ AfterPut(t)
    /\ UNCHANGED <<memory, expired, wire, queued, overlaps, settled, atRisk>>

-----------------------------------------------------------------------------
(* flushCloudEventOutbox                                                    *)

\* Mutant: the comparison with CLOUD_EVENT_RETRY_MS is the wrong way round.
DueWhenSent(t) == outbox \cap recent

\* A forced flush sends whatever comes first, the heartbeat's only what has not
\* been sent for a while.
Due(t) == IF thread[t].call = "heartbeat" THEN outbox \ recent ELSE outbox

\* the first n of a set of items
First(S, n) == {i \in S : Cardinality({j \in S : Older(j, i)}) < n}

Flush(t) ==
    /\ \/ At(t, "flush")
       \/ At(t, "ready") /\ thread[t].call \in {"flush", "heartbeat"}
    /\ IF ~online \/ Due(t) = {}
       THEN Return(t) /\ UNCHANGED <<recent, wire, faults>>
       ELSE \E n \in 0..Batch :
            LET sent == First(Due(t), n) IN
            /\ \/ sent = First(Due(t), Batch) /\ UNCHANGED <<online, faults>>
               \/ Fault("loss") /\ online' = FALSE         \* a failed send ends the flush
            /\ uplink' = uplink \cup sent
            /\ recent' = recent \cup sent
            /\ IF sent = {} THEN Return(t) ELSE Flushing(t, "encode")
    /\ UNCHANGED <<loaded, outbox, stored, expired, queued, overlaps, history>>

-----------------------------------------------------------------------------
(* acknowledgeCloudEvent                                                    *)

ConfirmFilter(t) ==
    /\ At(t, "ready") /\ thread[t].call = "confirm"
    /\ thread' = [thread EXCEPT ![t].pc = "swap",
                                ![t].copy = {i \in outbox : ~SameEvent(i, thread[t].item)}]
    /\ UNCHANGED <<memory, stored, expired, wire, counts, history>>

\* Only the lengths of the two arrays are compared.
ConfirmSwap(t) ==
    /\ At(t, "swap")
    /\ IF Cardinality(thread[t].copy) # Cardinality(outbox)
       THEN /\ outbox' = thread[t].copy
            /\ thread' = [thread EXCEPT ![t].pc = "encode", ![t].copy = {}]
       ELSE Return(t) /\ UNCHANGED outbox
    /\ UNCHANGED <<loaded, recent, stored, expired, wire, counts, history>>

-----------------------------------------------------------------------------
(* Time, the network, and the end of the script.                            *)

RetryDue(i) ==
    /\ i \in recent /\ recent' = recent \ {i}
    /\ UNCHANGED <<loaded, outbox, stored, expired, wire, thread, counts, history>>

Expire(i) ==
    /\ i \in (outbox \cup stored) \ expired
    /\ Fault("ttl")
    /\ expired' = expired \cup {i}
    /\ settled' = settled \cup {i}
    /\ UNCHANGED <<memory, stored, wire, thread, queued, overlaps, kept, atRisk>>

Lose(i) ==
    /\ i \in uplink /\ Fault("loss")
    /\ uplink' = uplink \ {i}
    /\ UNCHANGED <<memory, stored, expired, online, thread, queued, overlaps, history>>

Crash ==
    /\ Fault("crash")
    /\ loaded' = FALSE /\ outbox' = {} /\ online' = FALSE
    /\ thread' = [t \in Threads |-> Idle]
    /\ UNCHANGED <<recent, stored, expired, uplink, queued, overlaps, history>>

ThreadNext(t) ==
    \/ Load(t) \/ Parse(t)
    \/ QueueMerge(t) \/ QueuePush(t) \/ Compact(t) \/ Assign(t) \/ Evict(t)
    \/ Encode(t) \/ Put(t) \/ Flush(t) \/ ConfirmFilter(t) \/ ConfirmSwap(t)

Next ==
    \/ \E t \in Threads :
        \/ \E kind \in Kinds, name \in Names : QueueCall(t, kind, name)
        \/ \E i \in uplink : ConfirmCall(t, i)
        \/ HeartbeatCall(t) \/ ReconnectCall(t) \/ ThreadNext(t)
    \/ \E i \in recent : RetryDue(i)
    \/ \E i \in outbox \cup stored : Expire(i)
    \/ \E i \in uplink : Lose(i)
    \/ Crash

Spec == Init /\ [][Next]_vars

(* The threads run, time passes, the phone reconnects, its heartbeats come, *)
(* and events that are sent again and again are confirmed in the end.       *)
Fairness ==
    /\ \A t \in Threads : WF_vars(ThreadNext(t))
    /\ SF_vars(\E t \in Threads : HeartbeatCall(t))
    /\ SF_vars(\E t \in Threads : ReconnectCall(t))
    /\ SF_vars(\E t \in Threads, i \in uplink \cap outbox : ConfirmCall(t, i))
    /\ WF_vars(\E i \in recent : RetryDue(i))

FairSpec == Spec /\ Fairness

-----------------------------------------------------------------------------
(* Properties.                                                              *)

\* README.md:27: a task state or ack is deleted only when the server has confirmed
\* it, and README.md:11: terminal states are not pushed out by progress and acks.
\* What a call has written to storage stays there and, once loaded, in memory,
\* until it is settled, whatever calls of other threads interleave; unless its own
\* call was not alone, or storage could not be read, or was read by two at a time.
KeptUntilSettled == LET due == kept \ (settled \cup atRisk) IN
    /\ due \subseteq stored
    /\ loaded /\ (\A t \in Threads : thread[t].pc # "parse") => due \subseteq outbox

\* The same without the exceptions: refuted by TLC.
KeptUntilSettledAlways ==
    /\ kept \ settled \subseteq stored
    /\ loaded /\ (\A t \in Threads : thread[t].pc # "parse") => kept \ settled \subseteq outbox

\* docs/v93最终优化说明.md:7: once a call has compacted the outbox it is within its
\* limits, or holds nothing but terminal states, unless another call overlapped it.
OutboxIsBounded ==
    \A t \in Threads : At(t, "encode") /\ thread[t].call = "queue" /\ thread[t].item \notin atRisk =>
        ~Full \/ \A i \in outbox : i.kind = "terminal"

\* README.md:27: every event in storage is confirmed, expires, or is given up, however
\* many are ahead of it, after any loss, disconnection and restart; with the
\* exceptions of KeptUntilSettled.
KeptEventsSettle == []<>(kept \subseteq settled \cup atRisk)
=============================================================================
