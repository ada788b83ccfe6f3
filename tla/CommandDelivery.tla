--------------------------- MODULE CommandDelivery ---------------------------
(***************************************************************************)
(* Reliable delivery of commands to one phone, end to end:                 *)
(*                                                                         *)
(*   server/handlers/delivery.go    the command_deliveries table, the      *)
(*                                  goroutine that serves one send, and    *)
(*                                  the background retry worker            *)
(*   server/handlers/websocket.go   the hub (connect, disconnect, enqueue) *)
(*                                  and the "ack" branch of the read loop  *)
(*   client/.../js/main.js          the phone: claim, acknowledge, execute,*)
(*                                  and its persisted event outbox         *)
(*                                                                         *)
(* Each step is one database statement, one channel operation or one       *)
(* storage read or write, and the phone tests and extends its list of      *)
(* commands in two steps, because several of its threads read messages;    *)
(* everything between two steps may be interleaved with other goroutines   *)
(* and threads, lost connections, crashes, failing reads and writes.       *)
(* RELIABLE_DELIVERY_ENABLED is on and every command carries a cmd_id (a   *)
(* send without one bypasses the table altogether).                        *)
(***************************************************************************)
EXTENDS Integers, FiniteSets

CONSTANTS
    Commands,       \* the cmd_ids ever sent to the phone
    TaskOf,         \* [Commands -> task], NoTask for a command sent with taskID = 0
    RunOf,          \* [Commands -> run_id], NoRun for a message without one
    NoTask, NoRun,
    MaxAttempts,    \* reliableMaxAttempts()
    BatchSize,      \* reliableRetryBatchSize()
    MaxHistory,     \* MAX_CLOUD_COMMAND_HISTORY
    FaultKinds,     \* which faults may happen: a subset of AllFaultKinds
    MaxFaults,      \* bound: how many faults happen in a behaviour
    Readers,        \* the phone's threads that hand messages to handleMessage: the
                    \* WebSocket's, the MQTT reader, those of connections just replaced
    NoCommand       \* a reader is handling no message

\* "overlap": a message is claimed while another reader is claiming one.
AllFaultKinds ==
    {"server", "phone", "db", "load", "store", "overlap", "duplicate", "loss", "eviction", "ttl"}

ASSUME CommandsAssumption == IsFiniteSet(Commands) /\ NoCommand \notin Commands
ASSUME BoundsAssumption ==
    /\ MaxAttempts \in Nat \ {0} /\ BatchSize \in Nat \ {0} /\ MaxHistory \in Nat \ {0}
    /\ MaxFaults \in Nat /\ FaultKinds \subseteq AllFaultKinds

VARIABLES
    status, attempts, due, expired, rowId,  \* the command_deliveries rows
    sender,             \* SendCommandWithDelivery, one goroutine per command
    worker, batch, snapshot, periodic,      \* runReliableDelivery, one goroutine
    online, wake,       \* the hub holds a client / deliveryWake holds a token
    downlink,           \* copies of each command on their way to the phone
    uplink, confirms,   \* acks on their way up, event_acks on their way down
    loaded,             \* gHandledCloudCommandMap and -Order are not null
    history, stored,    \* the handled commands in memory and in storage
    handling, stage,    \* the message each reader is handling, and how far it is
    encoded,            \* the list each reader is about to write
    outbox,             \* ack events in the persisted outbox
    faults,             \* faults so far
    \* History variables: how often the phone took / ran each command, how many copies
    \* the server handed to the hub, ...
    claims, execs, sends,
    forgetful,          \* ... whether the phone may have lost track of a command: a claim
                        \* was not written, a list not read, or two claims overlapped,
    crossed             \* ... and which sends were between supersede and create together

rowVars    == <<status, attempts, due, expired, rowId>>
workerVars == <<worker, batch, snapshot, periodic>>
netVars    == <<online, wake, downlink, uplink, confirms>>
listVars   == <<loaded, history, stored, encoded>>
phoneVars  == <<listVars, handling, stage, outbox, claims, execs, forgetful>>
vars == <<rowVars, sender, workerVars, netVars, phoneVars, faults, sends, crossed>>

Statuses     == {"none", "queued", "sent", "acknowledged", "failed"}
LiveStatuses == {"queued", "sent"}
SenderStates == {"idle", "superseded", "created", "accepted", "refused", "returned"}
WorkerStates == {"waiting", "next", "accepted", "refused"}
ClaimStages  == {"load", "test", "insert", "put"}       \* in claimCloudCommand
Stages       == {"none", "claimed", "acked"} \cup ClaimStages

Live     == {c \in Commands : status[c] \in LiveStatuses}
Terminal == {c \in Commands : status[c] \in {"acknowledged", "failed"}}
Claiming == {r \in Readers : stage[r] \in ClaimStages}

\* A fault of a kind the configuration allows, counted against the bound.
Fault(kind) == kind \in FaultKinds /\ faults < MaxFaults /\ faults' = faults + 1

TypeOK ==
    /\ status \in [Commands -> Statuses]
    /\ attempts \in [Commands -> 0..MaxAttempts]
    /\ due \in [Commands -> BOOLEAN]
    /\ expired \in [Commands -> BOOLEAN]
    /\ rowId \in [Commands -> Nat]
    /\ sender \in [Commands -> SenderStates]
    /\ worker \in WorkerStates
    /\ batch \in SUBSET Commands
    /\ snapshot \in [Commands -> 0..(MaxAttempts - 1)]
    /\ periodic \in BOOLEAN
    /\ online \in BOOLEAN
    /\ wake \in BOOLEAN
    /\ downlink \in [Commands -> Nat]
    /\ uplink \in SUBSET Commands
    /\ confirms \in SUBSET Commands
    /\ loaded \in BOOLEAN
    /\ history \in SUBSET Commands
    /\ stored \in SUBSET Commands
    /\ encoded \in [Readers -> SUBSET Commands]
    /\ handling \in [Readers -> Commands \cup {NoCommand}]
    /\ stage \in [Readers -> Stages]
    /\ outbox \in SUBSET Commands
    /\ claims \in [Commands -> Nat]
    /\ execs \in [Commands -> Nat]
    /\ sends \in [Commands -> Nat]
    /\ faults \in 0..MaxFaults
    /\ forgetful \in BOOLEAN
    /\ crossed \in SUBSET SUBSET Commands

Init ==
    /\ status = [c \in Commands |-> "none"]
    /\ attempts = [c \in Commands |-> 0]
    /\ due = [c \in Commands |-> FALSE]
    /\ expired = [c \in Commands |-> FALSE]
    /\ rowId = [c \in Commands |-> 0]
    /\ sender = [c \in Commands |-> "idle"]
    /\ worker = "waiting" /\ batch = {} /\ periodic = FALSE
    /\ snapshot = [c \in Commands |-> 0]
    /\ online = FALSE /\ wake = FALSE
    /\ downlink = [c \in Commands |-> 0]
    /\ uplink = {} /\ confirms = {}
    /\ loaded = FALSE /\ history = {} /\ stored = {}
    /\ encoded = [r \in Readers |-> {}]
    /\ handling = [r \in Readers |-> NoCommand]
    /\ stage = [r \in Readers |-> "none"]
    /\ outbox = {}
    /\ claims = [c \in Commands |-> 0]
    /\ execs = [c \in Commands |-> 0]
    /\ sends = [c \in Commands |-> 0]
    /\ faults = 0 /\ forgetful = FALSE /\ crossed = {}

-----------------------------------------------------------------------------
(* The hub's send path: what both the sender and the worker do with a row. *)

\* SendRawToDevice puts a copy in the client's buffer ...
Transmit(c) ==
    /\ online
    /\ downlink' = [downlink EXCEPT ![c] = @ + 1]
    /\ sends' = [sends EXCEPT ![c] = @ + 1]

\* ... or refuses: no client (ErrDeviceOffline), or a buffer the other traffic
\* of this client has filled (ErrSendQueueFull).
Refuse == UNCHANGED <<downlink, sends>>

\* Mutants: the send already acknowledges; a sent copy is not counted; the guard
\* on the row's state is dropped.
RecordAttemptAcknowledges(c, seen, newStatus) ==
    IF c \in Live
    THEN /\ status' = [status EXCEPT ![c] = IF newStatus = "sent" THEN "acknowledged" ELSE newStatus]
         /\ attempts' = [attempts EXCEPT ![c] = seen + 1]
         /\ due' = [due EXCEPT ![c] = FALSE]
    ELSE UNCHANGED <<status, attempts, due>>

RecordAttemptUncounted(c, seen, newStatus) ==
    IF c \in Live
    THEN /\ status' = [status EXCEPT ![c] = newStatus]
         /\ attempts' = [attempts EXCEPT ![c] = IF newStatus = "sent" THEN seen ELSE seen + 1]
         /\ due' = [due EXCEPT ![c] = FALSE]
    ELSE UNCHANGED <<status, attempts, due>>

RecordAttemptUnguarded(c, seen, newStatus) ==
    /\ status' = [status EXCEPT ![c] = newStatus]
    /\ attempts' = [attempts EXCEPT ![c] = seen + 1]
    /\ due' = [due EXCEPT ![c] = FALSE]

\* The guarded UPDATE after the send. `seen` is the attempts count of the copy
\* of the row the goroutine holds, not the one in the table now.
RecordAttempt(c, seen, newStatus) ==
    IF c \in Live
    THEN /\ status' = [status EXCEPT ![c] = newStatus]
         /\ attempts' = [attempts EXCEPT ![c] = seen + 1]
         /\ due' = [due EXCEPT ![c] = FALSE]
    ELSE UNCHANGED <<status, attempts, due>>

-----------------------------------------------------------------------------
(* SendCommandWithDelivery, statement by statement.                         *)

\* Mutant: rows that were already sent are forgotten.
SupersededQueuedOnly(c) ==
    IF TaskOf[c] = NoTask \/ RunOf[c] = NoRun THEN {}
    ELSE {d \in Live : status[d] = "queued" /\ TaskOf[d] = TaskOf[c] /\ RunOf[d] # RunOf[c]}

\* Rows of other runs of the same task that are still live.
Superseded(c) ==
    IF TaskOf[c] = NoTask \/ RunOf[c] = NoRun THEN {}
    ELSE {d \in Live : TaskOf[d] = TaskOf[c] /\ RunOf[d] # RunOf[c]}

SendSupersede(c) ==
    /\ sender[c] = "idle"
    /\ status' = [d \in Commands |-> IF d \in Superseded(c) THEN "failed" ELSE status[d]]
    /\ sender' = [sender EXCEPT ![c] = "superseded"]
    /\ crossed' = crossed \cup {{c, d} : d \in {d \in Commands : sender[d] = "superseded"}}
    /\ UNCHANGED <<attempts, due, expired, rowId, workerVars, netVars, phoneVars, faults, sends>>

SendCreate(c) ==
    /\ sender[c] = "superseded"
    /\ status' = [status EXCEPT ![c] = "queued"]
    /\ due' = [due EXCEPT ![c] = TRUE]
    /\ rowId' = [rowId EXCEPT ![c] = 1 + Cardinality({d \in Commands : status[d] # "none"})]
    /\ sender' = [sender EXCEPT ![c] = "created"]
    /\ UNCHANGED <<attempts, expired, workerVars, netVars, phoneVars, faults, sends, crossed>>

\* The first attempt works on the row as it was created: attempts = 0.
SendAttempt(c) ==
    /\ sender[c] = "created"
    /\ \/ Transmit(c) /\ sender' = [sender EXCEPT ![c] = "accepted"]
       \/ Refuse /\ sender' = [sender EXCEPT ![c] = "refused"]
    /\ UNCHANGED <<rowVars, workerVars, online, wake, uplink, confirms, phoneVars, faults, crossed>>

SendRecord(c) ==
    /\ \/ sender[c] = "accepted" /\ RecordAttempt(c, 0, "sent")
       \/ sender[c] = "refused" /\ RecordAttempt(c, 0, "queued")
    /\ sender' = [sender EXCEPT ![c] = "returned"]
    /\ UNCHANGED <<expired, rowId, workerVars, netVars, phoneVars, faults, sends, crossed>>

\* A statement fails: the call returns the error, with whatever it had done.
SendDbError(c) ==
    /\ sender[c] \in {"idle", "superseded", "accepted", "refused"}
    /\ Fault("db")
    /\ sender' = [sender EXCEPT ![c] = "returned"]
    /\ UNCHANGED <<rowVars, workerVars, netVars, phoneVars, sends, crossed>>

-----------------------------------------------------------------------------
(* runReliableDelivery: one goroutine serving a ticker and the wake-ups.    *)

\* ORDER BY id LIMIT BatchSize over the rows a scan selects.
FirstRows(S) ==
    {c \in S : Cardinality({d \in S : rowId[d] < rowId[c]}) < BatchSize}

\* Find() copies the rows: what follows works on this snapshot of attempts.
BeginScan(S, ticked) ==
    /\ batch' = FirstRows(S)
    /\ snapshot' = [c \in Commands |-> IF c \in FirstRows(S) THEN attempts[c] ELSE 0]
    /\ periodic' = ticked
    /\ worker' = "next"

Retryable == {c \in Live : attempts[c] < MaxAttempts /\ ~expired[c]}

\* retryPendingDeliveries, the query
TickScan ==
    /\ worker = "waiting"
    /\ BeginScan({c \in Retryable : due[c]}, TRUE)
    /\ UNCHANGED <<rowVars, sender, netVars, phoneVars, faults, sends, crossed>>

\* retryDeviceDeliveries, the query: a reconnect does not wait for next_retry_at
WakeScan ==
    /\ worker = "waiting" /\ wake
    /\ wake' = FALSE
    /\ BeginScan(Retryable, FALSE)
    /\ UNCHANGED <<rowVars, sender, online, downlink, uplink, confirms, phoneVars, faults, sends, crossed>>

\* The row the loop over the batch has reached.
Current(c) == c \in batch /\ \A d \in batch : rowId[c] <= rowId[d]

WorkerAttempt ==
    /\ worker = "next"
    /\ \E c \in batch :
        /\ Current(c)
        /\ \/ Transmit(c) /\ worker' = "accepted"
           \/ Refuse /\ worker' = "refused"
    /\ UNCHANGED <<rowVars, sender, batch, snapshot, periodic, online, wake, uplink, confirms, phoneVars, faults, crossed>>

WorkerRecord ==
    /\ \E c \in batch :
        /\ Current(c)
        /\ \/ /\ \/ worker = "accepted" /\ RecordAttempt(c, snapshot[c], "sent")
                 \/ worker = "refused" /\ RecordAttempt(c, snapshot[c], "queued")
              /\ UNCHANGED faults
           \/ /\ worker \in {"accepted", "refused"}
              /\ Fault("db")                          \* logged; the row keeps its old values
              /\ UNCHANGED <<status, attempts, due>>
        /\ batch' = batch \ {c}
        /\ snapshot' = [snapshot EXCEPT ![c] = 0]
    /\ worker' = "next"
    /\ UNCHANGED <<expired, rowId, sender, periodic, netVars, phoneVars, sends, crossed>>

\* Mutant: off by one, a row at the limit is neither retried nor failed.
ExhaustedTooLate == {c \in Live : attempts[c] > MaxAttempts \/ expired[c]}

\* The end of a periodic scan fails the rows that used up their attempts or
\* their lifetime; a reconnect scan just ends.
Exhausted == {c \in Live : attempts[c] >= MaxAttempts \/ expired[c]}

WorkerFinish ==
    /\ worker = "next" /\ batch = {}
    /\ worker' = "waiting"
    /\ \/ /\ periodic
          /\ status' = [c \in Commands |-> IF c \in Exhausted THEN "failed" ELSE status[c]]
          /\ UNCHANGED faults
       \/ /\ periodic
          /\ Fault("db")
          /\ UNCHANGED status
       \/ /\ ~periodic
          /\ UNCHANGED <<status, faults>>
    /\ periodic' = FALSE
    /\ UNCHANGED <<attempts, due, expired, rowId, sender, batch, snapshot, netVars, phoneVars, sends, crossed>>

\* next_retry_at passes / the row becomes older than reliableDeliveryTTL()
RetryDue(c) ==
    /\ c \in Live /\ ~due[c]
    /\ due' = [due EXCEPT ![c] = TRUE]
    /\ UNCHANGED <<status, attempts, expired, rowId, sender, workerVars, netVars, phoneVars, faults, sends, crossed>>

TTLPasses(c) ==
    /\ c \in Live /\ ~expired[c]
    /\ Fault("ttl")
    /\ expired' = [expired EXCEPT ![c] = TRUE]
    /\ UNCHANGED <<status, attempts, due, rowId, sender, workerVars, netVars, phoneVars, sends, crossed>>

-----------------------------------------------------------------------------
(* The connection, and the server's side of an acknowledgement.             *)

\* Hub.Run takes the client; the wake-up is dropped when deliveryWake is full.
Connect ==
    /\ ~online
    /\ online' = TRUE
    /\ wake' \in {wake, TRUE}
    /\ UNCHANGED <<rowVars, sender, workerVars, downlink, uplink, confirms, phoneVars, faults, sends, crossed>>

\* The copies buffered or in the socket are gone; acks the old read loop
\* already holds may still be processed.
Disconnect ==
    /\ online
    /\ online' = FALSE
    /\ downlink' = [c \in Commands |-> 0]
    /\ confirms' = {}
    /\ uplink' \in SUBSET uplink
    /\ UNCHANGED <<rowVars, sender, workerVars, wake, phoneVars, faults, sends, crossed>>

\* A half-open connection swallows a copy while the hub still reports success.
LoseCopy(c) ==
    /\ downlink[c] > 0
    /\ Fault("loss")
    /\ downlink' = [downlink EXCEPT ![c] = @ - 1]
    /\ UNCHANGED <<rowVars, sender, workerVars, online, wake, uplink, confirms, phoneVars, sends, crossed>>

\* QoS 1 resends a message whose PUBACK was late.
DuplicateCopy(c) ==
    /\ downlink[c] > 0
    /\ Fault("duplicate")
    /\ downlink' = [downlink EXCEPT ![c] = @ + 1]
    /\ UNCHANGED <<rowVars, sender, workerVars, online, wake, uplink, confirms, phoneVars, sends, crossed>>

\* Mutant: an ack revives a row that was given up.
AckArrivesUnguarded(c) ==
    /\ c \in uplink
    /\ uplink' = uplink \ {c}
    /\ status' = [status EXCEPT ![c] = "acknowledged"]
    /\ \/ online /\ confirms' = confirms \cup {c}
       \/ UNCHANGED confirms
    /\ UNCHANGED <<attempts, due, expired, rowId, sender, workerVars, online, wake, downlink, phoneVars, faults, sends, crossed>>

\* AcknowledgeCommandDelivery, then sendDeviceEventAck: the event is confirmed
\* to the phone whether or not the UPDATE worked.
AckArrives(c) ==
    /\ c \in uplink
    /\ uplink' = uplink \ {c}
    /\ \/ /\ status' = IF c \in Live THEN [status EXCEPT ![c] = "acknowledged"] ELSE status
          /\ UNCHANGED faults
       \/ /\ Fault("db")
          /\ UNCHANGED status
    /\ \/ online /\ confirms' = confirms \cup {c}
       \/ UNCHANGED confirms
    /\ UNCHANGED <<attempts, due, expired, rowId, sender, workerVars, online, wake, downlink, phoneVars, sends, crossed>>

\* The process dies: goroutines and sockets are gone, the table stays.
ServerCrash ==
    /\ Fault("server")
    /\ sender' = [c \in Commands |-> IF sender[c] = "idle" THEN "idle" ELSE "returned"]
    /\ worker' = "waiting" /\ batch' = {} /\ periodic' = FALSE
    /\ snapshot' = [c \in Commands |-> 0]
    /\ online' = FALSE /\ wake' = FALSE
    /\ downlink' = [c \in Commands |-> 0]
    /\ uplink' = {} /\ confirms' = {}
    /\ UNCHANGED <<rowVars, phoneVars, sends, crossed>>

-----------------------------------------------------------------------------
(* The phone.                                                               *)

\* flushCloudEventOutbox hands the outbox to the socket; an event stays in it
\* until its event_ack.
FlushedUplink(events) == IF online THEN uplink \cup events ELSE uplink

\* queueCloudEvent(ack): one event per command, persisted, then flushed.
QueueAck(c) ==
    /\ outbox' = outbox \cup {c}
    /\ uplink' = FlushedUplink(outbox \cup {c})

Idle(r) == stage[r] = "none"

\* A message reaches a reader. The first claim of a process finds the lists null and
\* makes them empty before it reads the stored one.
PhoneReceive(r, c) ==
    /\ Idle(r) /\ downlink[c] > 0
    /\ downlink' = [downlink EXCEPT ![c] = @ - 1]
    /\ handling' = [handling EXCEPT ![r] = c]
    /\ stage' = [stage EXCEPT ![r] = IF loaded THEN "test" ELSE "load"]
    /\ loaded' = TRUE
    /\ \/ Claiming = {} /\ UNCHANGED <<faults, forgetful>>
       \/ Claiming # {} /\ Fault("overlap") /\ forgetful' = TRUE
    /\ UNCHANGED <<rowVars, sender, workerVars, online, wake, uplink, confirms, history, stored, encoded, outbox, claims, execs, sends, crossed>>

\* loadHandledCloudCommands: what was stored, or nothing when it cannot be read.
PhoneLoad(r) ==
    /\ stage[r] = "load"
    /\ \/ history' = history \cup stored /\ UNCHANGED <<faults, forgetful>>
       \/ Fault("load") /\ history' = {} /\ forgetful' = (forgetful \/ stored # {})
    /\ stage' = [stage EXCEPT ![r] = "test"]
    /\ UNCHANGED <<rowVars, sender, workerVars, netVars, loaded, stored, encoded, handling, outbox, claims, execs, sends, crossed>>

\* The command is not in the list: the claim goes on.
PhoneTest(r) ==
    /\ stage[r] = "test" /\ handling[r] \notin history
    /\ stage' = [stage EXCEPT ![r] = "insert"]
    /\ UNCHANGED <<rowVars, sender, workerVars, netVars, listVars, handling, outbox, claims, execs, forgetful, faults, sends, crossed>>

\* Mutant: a duplicate is acknowledged and executed like a new command.
PhoneDuplicateExecuted(r) ==
    /\ stage[r] = "test" /\ handling[r] \in history
    /\ stage' = [stage EXCEPT ![r] = "claimed"]
    /\ UNCHANGED <<rowVars, sender, workerVars, netVars, listVars, handling, outbox, claims, execs, forgetful, faults, sends, crossed>>

\* claimCloudCommand returns false: only the acknowledgement is repeated.
PhoneDuplicate(r) ==
    /\ stage[r] = "test" /\ handling[r] \in history
    /\ QueueAck(handling[r])
    /\ handling' = [handling EXCEPT ![r] = NoCommand]
    /\ stage' = [stage EXCEPT ![r] = "none"]
    /\ UNCHANGED <<rowVars, sender, workerVars, online, wake, downlink, confirms, listVars, claims, execs, forgetful, faults, sends, crossed>>

\* The list with c, cut to its bound. Which entry is the oldest is left open.
Extended(list, c) ==
    IF Cardinality(list) < MaxHistory THEN {list \cup {c}}
    ELSE {(list \cup {c}) \ {oldest} : oldest \in list}

\* The command is taken: in memory, and in the text that goes to storage.
PhoneInsert(r) ==
    /\ stage[r] = "insert"
    /\ history' \in Extended(history, handling[r])
    /\ encoded' = [encoded EXCEPT ![r] = history']
    /\ claims' = [claims EXCEPT ![handling[r]] = @ + 1]
    /\ stage' = [stage EXCEPT ![r] = "put"]
    /\ UNCHANGED <<rowVars, sender, workerVars, netVars, loaded, stored, handling, outbox, execs, forgetful, faults, sends, crossed>>

\* putString, whose failure is ignored.
PhonePut(r) ==
    /\ stage[r] = "put"
    /\ \/ stored' = encoded[r] /\ UNCHANGED <<faults, forgetful>>
       \/ Fault("store") /\ forgetful' = TRUE /\ UNCHANGED stored
    /\ encoded' = [encoded EXCEPT ![r] = {}]
    /\ stage' = [stage EXCEPT ![r] = "claimed"]
    /\ UNCHANGED <<rowVars, sender, workerVars, netVars, loaded, history, handling, outbox, claims, execs, sends, crossed>>

PhoneAck(r) ==
    /\ stage[r] = "claimed"
    /\ QueueAck(handling[r])
    /\ stage' = [stage EXCEPT ![r] = "acked"]
    /\ UNCHANGED <<rowVars, sender, workerVars, online, wake, downlink, confirms, listVars, handling, claims, execs, forgetful, faults, sends, crossed>>

\* executeTask / executeCommand
PhoneExecute(r) ==
    /\ stage[r] = "acked"
    /\ execs' = [execs EXCEPT ![handling[r]] = @ + 1]
    /\ handling' = [handling EXCEPT ![r] = NoCommand]
    /\ stage' = [stage EXCEPT ![r] = "none"]
    /\ UNCHANGED <<rowVars, sender, workerVars, netVars, listVars, outbox, claims, forgetful, faults, sends, crossed>>

\* Mutant: a flush takes what was sent out of the outbox's reach.
PhoneFlushOnce ==
    /\ online /\ outbox # {} /\ confirms # {}
    /\ uplink' = uplink \cup outbox
    /\ UNCHANGED <<rowVars, sender, workerVars, online, wake, downlink, confirms, phoneVars, faults, sends, crossed>>

\* The heartbeat timer and a new connection flush the outbox.
PhoneFlush ==
    /\ online /\ outbox # {}
    /\ uplink' = uplink \cup outbox
    /\ UNCHANGED <<rowVars, sender, workerVars, online, wake, downlink, confirms, phoneVars, faults, sends, crossed>>

\* event_ack: acknowledgeCloudEvent drops the event.
ConfirmArrives(c) ==
    /\ c \in confirms
    /\ confirms' = confirms \ {c}
    /\ outbox' = outbox \ {c}
    /\ UNCHANGED <<rowVars, sender, workerVars, online, wake, downlink, uplink, listVars, handling, stage, claims, execs, forgetful, faults, sends, crossed>>

\* compactCloudEventOutbox makes room for events of a higher priority, or the
\* ack outlives its 7 days.
PhoneEvictAck(c) ==
    /\ c \in outbox
    /\ Fault("eviction")
    /\ outbox' = outbox \ {c}
    /\ UNCHANGED <<rowVars, sender, workerVars, netVars, listVars, handling, stage, claims, execs, forgetful, sends, crossed>>

\* The script dies and is started again: what was in memory is gone, and the list is
\* read again by the next claim.
PhoneCrash ==
    /\ Fault("phone")
    /\ loaded' = FALSE /\ history' = {}
    /\ encoded' = [r \in Readers |-> {}]
    /\ handling' = [r \in Readers |-> NoCommand]
    /\ stage' = [r \in Readers |-> "none"]
    /\ online' = FALSE
    /\ downlink' = [c \in Commands |-> 0]
    /\ confirms' = {}
    /\ uplink' \in SUBSET uplink
    /\ UNCHANGED <<rowVars, sender, workerVars, wake, stored, outbox, claims, execs, forgetful, sends, crossed>>

-----------------------------------------------------------------------------
SenderNext(c) ==
    \/ SendSupersede(c) \/ SendCreate(c) \/ SendAttempt(c) \/ SendRecord(c) \/ SendDbError(c)

WorkerNext == TickScan \/ WakeScan \/ WorkerAttempt \/ WorkerRecord \/ WorkerFinish

TimeNext(c) == RetryDue(c) \/ TTLPasses(c)

NetNext == Connect \/ Disconnect \/ \E c \in Commands : LoseCopy(c) \/ DuplicateCopy(c)

ReaderNext(r) ==
    \/ \E c \in Commands : PhoneReceive(r, c)
    \/ PhoneLoad(r) \/ PhoneTest(r) \/ PhoneDuplicate(r)
    \/ PhoneInsert(r) \/ PhonePut(r) \/ PhoneAck(r) \/ PhoneExecute(r)

PhoneNext ==
    \/ \E r \in Readers : ReaderNext(r)
    \/ \E c \in Commands : ConfirmArrives(c) \/ PhoneEvictAck(c)
    \/ PhoneFlush \/ PhoneCrash

Next ==
    \/ \E c \in Commands : SenderNext(c) \/ TimeNext(c) \/ AckArrives(c)
    \/ WorkerNext
    \/ NetNext
    \/ ServerCrash
    \/ PhoneNext

Spec == Init /\ [][Next]_vars

(* Goroutines the runtime schedules, the ticker (Go's select is random, so a
   tick is not starved by wake-ups) and the passing of time. Nothing is assumed
   of the phone, the network or the user. *)
ServerFairness ==
    /\ \A c \in Commands :
        /\ WF_vars(SendCreate(c)) /\ WF_vars(SendAttempt(c)) /\ WF_vars(SendRecord(c))
        /\ WF_vars(RetryDue(c))
    /\ SF_vars(TickScan)
    /\ WF_vars(WorkerAttempt) /\ WF_vars(WorkerRecord) /\ WF_vars(WorkerFinish)

(* The phone's flush timer runs, it keeps reconnecting, and a message that is
   sent again and again on a live connection arrives in the end. *)
PhoneFairness ==
    /\ WF_vars(Connect) /\ SF_vars(PhoneFlush)
    /\ \A c \in Commands :
        SF_vars(online /\ AckArrives(c) /\ c \in confirms') /\ SF_vars(ConfirmArrives(c))

FairSpec == Spec /\ ServerFairness

-----------------------------------------------------------------------------
(* Properties.                                                              *)

\* An acknowledged row was claimed by the phone: neither a send that the hub
\* accepted nor a lost, late or repeated ack makes a row acknowledged by itself.
AcknowledgedWasClaimed == \A c \in Commands : status[c] = "acknowledged" => claims[c] > 0

\* However often a command is resent or duplicated, and whatever crashes, the
\* phone runs it at most once (main.js:493-515, README.md:24), as long as its list is
\* never too short, every claim was written (507) and every list read back after a
\* restart (479), and no two readers were in claimCloudCommand at once, which takes
\* no lock. Without one of these it does run a command twice.
ExecutedAtMostOnce == ~forgetful => \A c \in Commands : execs[c] <= 1

\* The number of copies handed to the hub is bounded although the sender and
\* the worker overwrite each other's attempts from stale copies of the row: the
\* late first write can take the count back to 1 only once, and only a crash or
\* a failed write adds a copy nobody counts.
SendsBounded == \A c \in Commands : sends[c] <= 2 * MaxAttempts + faults

\* No stale snapshot, late ack or sweep moves a row out of acknowledged or failed.
TerminalIsFinal ==
    [][\A c \in Commands : c \in Terminal => status'[c] = status[c]]_vars

\* A row never stays queued or sent for ever, even when the phone never comes back
\* (docs: the state ends in acknowledged or an explained failed).
LiveRowSettles == \A c \in Commands : (c \in Live) ~> (c \in Terminal)

\* An ack the phone has queued is confirmed in the end: a lost ack or event_ack is
\* sent again from the outbox, across reconnects and crashes, if the phone keeps
\* coming back.
QueuedAckIsConfirmed ==
    PhoneFairness => \A c \in Commands : (c \in outbox) ~> (c \notin outbox)

\* Comment delivery.go:127, README.md:23: of a task's runs, only the newest one
\* is kept for the device, whatever resends, late writes and acks come between.
\* Excepted are two sends that had both forgotten the other runs before either had
\* created its row: nothing keeps the callers apart, and both rows stay live.
SingleLiveRun ==
    \A c, d \in Live :
        /\ TaskOf[c] = TaskOf[d] /\ TaskOf[c] # NoTask
        /\ RunOf[c] # NoRun /\ RunOf[d] # NoRun
        => RunOf[c] = RunOf[d] \/ {c, d} \in crossed

\* The refinement mapping: a row is live or has its final status; the phone has not
\* seen a command, or took it, or ran it, once or more often.
ServerView == [c \in Commands |-> IF c \in Live THEN "live" ELSE status[c]]
PhoneStage(runs, takes) ==
    IF runs = 0 THEN IF takes = 0 THEN "new" ELSE "taken"
    ELSE IF runs = 1 THEN "run" ELSE "run again"
PhoneView == [c \in Commands |-> PhoneStage(execs[c], claims[c])]

Contract == INSTANCE DeliveryContract
    WITH state <- ServerView, phone <- PhoneView

\* What callers of SendCommandWithDelivery may rely on, under every fault.
ImplementsContract == Contract!Spec
=============================================================================
