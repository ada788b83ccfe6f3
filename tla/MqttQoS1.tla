------------------------------- MODULE MqttQoS1 -------------------------------
(***************************************************************************)
(* The commands the embedded broker has sent to a device and not seen      *)
(* acknowledged: enqueueQoS1, retryQoS1Loop, writeLoop and the PUBACK      *)
(* branch of server/handlers/mqtt.go, for one connection.                  *)
(***************************************************************************)
EXTENDS Integers, Sequences, FiniteSets

CONSTANTS
    PacketIds,      \* bound: 1..65535, used in turn
    InflightLimit,  \* mqttMaxInflightQoS1
    SendLimit,     \* mqttSendQueueSize
    MaxAttempts,    \* mqttQoS1MaxAttempts
    MaxCommands     \* bound: commands published

QoSAssumption ==
    /\ PacketIds \in Nat /\ InflightLimit \in 1..PacketIds
    /\ {SendLimit, MaxCommands} \subseteq Nat /\ MaxAttempts \in Nat \ {0}

VARIABLES
    pending,        \* pendingQoS1: packet ids with attempts and whether the retry is due
    nextId,         \* nextPacketID
    bridge,         \* the packet id enqueueQoS1 has entered and not enqueued yet, or 0
    retries,        \* packets retryQoS1Loop has still to enqueue
    send,           \* the queue of writeLoop
    open,           \* the connection
    device,         \* packet ids the device has to acknowledge
    published       \* history: commands so far

qosVars == <<pending, nextId, bridge, retries, send, open, device, published>>

Ids == 1..PacketIds
NotPending == [attempts |-> 0, due |-> FALSE]

TypeOK ==
    /\ pending \in [Ids -> [attempts: 0..MaxAttempts, due: BOOLEAN]]
    /\ nextId \in 0..PacketIds /\ bridge \in 0..PacketIds
    /\ retries \in SUBSET Ids
    /\ send \in Seq(Ids) /\ Len(send) <= SendLimit
    /\ open \in BOOLEAN /\ device \subseteq Ids /\ published \in 0..MaxCommands

Init ==
    /\ pending = [i \in Ids |-> NotPending] /\ nextId = 0 /\ bridge = 0 /\ retries = {}
    /\ send = <<>> /\ open = TRUE /\ device = {} /\ published = 0

Inflight(i) == pending[i].attempts > 0
InflightCount == Cardinality({i \in Ids : Inflight(i)})

\* The first free id after i in turn, 0 left out.
IdAfter(i) ==
    CHOOSE j \in Ids : ~Inflight(j) /\
        \A k \in Ids : ~Inflight(k) => (j - i - 1) % PacketIds <= (k - i - 1) % PacketIds

\* enqueue: a full queue closes the connection.
Full == Len(send) = SendLimit
Enqueues(i) ==
    /\ send' = IF Full \/ ~open THEN send ELSE Append(send, i)
    /\ open' = (open /\ ~Full)

\* bridgeHubMessages: a full window closes the connection too ...
Publish ==
    /\ open /\ bridge = 0 /\ published < MaxCommands /\ published' = published + 1
    /\ IF InflightCount >= InflightLimit
       THEN open' = FALSE /\ UNCHANGED <<pending, nextId, bridge>>
       ELSE /\ nextId' = IdAfter(nextId) /\ bridge' = nextId'
            /\ pending' = [pending EXCEPT ![nextId'] = [attempts |-> 1, due |-> FALSE]]
            /\ UNCHANGED open
    /\ UNCHANGED <<retries, send, device>>

\* ... and what could not be enqueued is forgotten.
Bridge ==
    /\ bridge # 0 /\ bridge' = 0 /\ Enqueues(bridge)
    /\ pending' = IF Full \/ ~open THEN [pending EXCEPT ![bridge] = NotPending] ELSE pending
    /\ UNCHANGED <<nextId, retries, device, published>>

\* mqttQoS1Retry passes.
FallsDue(i) ==
    /\ open /\ Inflight(i) /\ ~pending[i].due
    /\ pending' = [pending EXCEPT ![i].due = TRUE]
    /\ UNCHANGED <<nextId, bridge, retries, send, open, device, published>>

DueNow == {i \in Ids : Inflight(i) /\ pending[i].due}
Spent == {i \in DueNow : pending[i].attempts >= MaxAttempts}

\* Mutant: a packet that is sent again keeps its count.
RetriedUncounted(p) == [attempts |-> p.attempts, due |-> FALSE]

Retried(p) == [attempts |-> p.attempts + 1, due |-> FALSE]

\* retryQoS1Loop: a device that does not acknowledge is cut off, and nothing is sent again.
RetryTick ==
    /\ open /\ retries = {} /\ DueNow # {}
    /\ IF Spent = {}
       THEN /\ retries' = DueNow /\ UNCHANGED open
            /\ pending' = [i \in Ids |-> IF i \in DueNow THEN Retried(pending[i]) ELSE pending[i]]
       ELSE open' = FALSE /\ UNCHANGED <<pending, retries>>
    /\ UNCHANGED <<nextId, bridge, send, device, published>>

RetrySend(i) ==
    /\ i \in retries /\ Enqueues(i)
    /\ retries' = IF Full \/ ~open THEN {} ELSE retries \ {i}
    /\ UNCHANGED <<pending, nextId, bridge, device, published>>

\* writeLoop: the peer's socket takes the packet, or the write times out. Behind an
\* open socket the device may be gone.
Write ==
    /\ open /\ send # <<>> /\ send' = Tail(send)
    /\ \/ device' = device \cup {Head(send)} /\ UNCHANGED open
       \/ UNCHANGED <<device, open>>
       \/ open' = FALSE /\ UNCHANGED device
    /\ UNCHANGED <<pending, nextId, bridge, retries, published>>

PubAck(i) ==
    /\ open /\ i \in device /\ device' = device \ {i}
    /\ pending' = [pending EXCEPT ![i] = NotPending]
    /\ UNCHANGED <<nextId, bridge, retries, send, open, published>>

Next ==
    \/ Publish \/ Bridge \/ RetryTick \/ Write
    \/ \E i \in Ids : FallsDue(i) \/ RetrySend(i) \/ PubAck(i)

Spec == Init /\ [][Next]_qosVars

\* The goroutines of the connection run and time passes; the device need not answer.
Fairness ==
    /\ WF_qosVars(Bridge) /\ WF_qosVars(RetryTick) /\ WF_qosVars(Write)
    /\ \A i \in Ids : WF_qosVars(FallsDue(i)) /\ WF_qosVars(RetrySend(i))

-----------------------------------------------------------------------------
\* mqtt.go:441 (a peer that no longer acknowledges is stale): every command the broker
\* has sent is acknowledged or its connection is closed, whatever the device does.
SentIsSettled == \A i \in Ids : Inflight(i) ~> ~open \/ ~Inflight(i)
=============================================================================
