------------------------------ MODULE TaskRuns -------------------------------
(***************************************************************************)
(* The life of one task on its devices:                                    *)
(*                                                                         *)
(*   server/handlers/task.go           the operator's requests and the     *)
(*                                     dispatch to the devices             *)
(*   server/handlers/scheduler.go      the cron job, the dispatch queue    *)
(*                                     and its single worker               *)
(*   server/handlers/task_watchdog.go  the reclaim of overdue runs         *)
(*   server/handlers/websocket.go      the task_status branch, PushTask    *)
(*   server/handlers/delivery.go       what a send does to task_devices    *)
(*   client/.../js/main.js             the phone: one run at a time        *)
(*                                                                         *)
(* Every step is one statement on the database, one queue operation or one *)
(* uninterrupted stretch of the phone's script; the request handlers, the  *)
(* cron job, the dispatch worker, the watchdog, the retry worker and the   *)
(* phones interleave freely between them. How a command survives losses    *)
(* is CommandDelivery's subject: here a sent command may arrive, be lost,  *)
(* be sent again while its row is live, and is taken at most once. How a   *)
(* phone's threads end a run and what its journal is left with is          *)
(* PhoneExecutor's: here a restart may report any run it has begun.        *)
(***************************************************************************)
EXTENDS Integers, FiniteSets

CONSTANTS
    Devices,
    Reliable,       \* reliableDeliveryEnabled()
    Requests,       \* the requests that are made: a subset of AllRequests
    MaxRequests,    \* bound: how many cron ticks and requests for new work
    MaxDisturbances \* bound: how many other requests, crashes and repeated reports

NewWork     == {"start", "repair", "push", "cron"}
AllRequests == NewWork \cup {"stop", "reset", "release"}

ASSUME DevicesAssumption == IsFiniteSet(Devices) /\ Devices # {}
ASSUME RequestsAssumption ==
    /\ Reliable \in BOOLEAN /\ Requests \subseteq AllRequests
    /\ MaxRequests \in Nat /\ MaxDisturbances \in Nat

VARIABLES
    task,           \* tasks.status: 0 stopped, 1 started, 2 completed
    row,            \* task_devices: status, run_id, deadline_at
    lastRun,        \* run_ids handed out so far (newCommandID("run"))
    pending, queued,    \* dispatchPending and dispatchQueue, for this task
    dispatch,       \* the dispatch worker
    operator,       \* the request an operator is making
    cron,           \* the cron job's callback
    watchdog,       \* expireTaskRuns
    noting,         \* the row update that still follows an accepted send
    delivery,       \* command_deliveries: live (queued or sent), or live and
                    \* already taken by the phone; none before and after
    inbox,          \* copies a phone has not taken (a lost one never is)
    handling,       \* the message a phone's handler has claimed
    agent,          \* what a phone executes: gCurrentTaskRunId and its phase
    reports,        \* task_status events not yet confirmed to the phone
    reported,       \* history: every status the phones have reported
    requests, disturbances, \* history: how many so far
    givenUp         \* history: the runs that a scan has found overdue, or a stop
                    \* has closed

serverVars == <<dispatch, operator, cron, watchdog>>
queueVars  == <<pending, queued, lastRun>>
wireVars   == <<noting, delivery, inbox>>
phoneVars  == <<handling, agent, reports, reported>>
counts     == <<requests, disturbances, givenUp>>
vars == <<task, row, queueVars, serverVars, wireVars, phoneVars, counts>>

NoRun == 0                      \* a row never dispatched; a message without run_id
Runs  == 0..MaxRequests
Kinds == {"task", "cancel"}
Message == [kind : Kinds, dev : Devices, run : Runs]
Nothing == [kind |-> "none", dev |-> CHOOSE d \in Devices : TRUE, run |-> NoRun]
Message0 == Message \cup {Nothing}
Callers == {"dispatch", "operator", "watchdog", "retry"}

TaskMsg(d, r)   == [kind |-> "task", dev |-> d, run |-> r]
CancelMsg(d, r) == [kind |-> "cancel", dev |-> d, run |-> r]

Waiting  == 0
Running  == 1
Done     == 2
Failed   == 3                   \* and 4, timed out or stopped: nothing tells them apart
Open == {Waiting, Running}      \* the row states a report or a timeout may change

Row    == [status : 0..3, run : Runs, deadline : BOOLEAN]   \* deadline_at IS NOT NULL
Report == [dev : Devices, run : Runs, status : 1..3]
FreshRow(r) == [status |-> Waiting, run |-> r, deadline |-> FALSE]
Marked(x, s, watched) == [x EXCEPT !.status = s, !.deadline = watched]

IdleDispatch == [pc |-> "idle", run |-> NoRun, todo |-> {}, sent |-> {}]
IdleOperator == [pc |-> "idle", todo |-> {}, sent |-> {}, at |-> Nothing]

DispatchPc == {"idle", "taken", "resetting", "sending", "finishing", "releasing"}
OperatorPc == {"idle", "start", "enqueue", "accepted", "stop", "stopping", "closing",
               "reset", "resetting", "repair", "sending", "marking", "pushed"}

TaskTypes == task \in 0..2 /\ row \in [Devices -> Row]
QueueTypes == pending \in BOOLEAN /\ queued \in BOOLEAN /\ lastRun \in Runs
ServerTypes ==
    /\ dispatch \in [pc : DispatchPc, run : Runs, todo : SUBSET Message, sent : SUBSET Message]
    /\ operator \in [pc : OperatorPc, todo : SUBSET Message, sent : SUBSET Message, at : Message0]
    /\ cron \in {"idle", "marking", "enqueue"}
    /\ watchdog \in [todo : SUBSET Message, sending : Message0]
WireTypes ==
    /\ noting \in [Callers -> Message0]
    /\ delivery \in [Message -> {"none", "live", "taken"}]
    /\ inbox \subseteq Message
PhoneTypes ==
    /\ handling \in [Devices -> Message0]
    /\ agent \in [Devices -> [phase : {"down", "idle", "running", "ended"}, run : Runs]]
    /\ reports \subseteq Report /\ reported \subseteq Report
CountTypes ==
    /\ requests \in 0..MaxRequests /\ disturbances \in 0..MaxDisturbances
    /\ givenUp \subseteq Message

TypeOK == TaskTypes /\ QueueTypes /\ ServerTypes /\ WireTypes /\ PhoneTypes /\ CountTypes

IdleAgent == [phase |-> "idle", run |-> NoRun]

Init ==
    /\ task = 0
    /\ row = [d \in Devices |-> FreshRow(NoRun)]
    /\ lastRun = NoRun
    /\ pending = FALSE /\ queued = FALSE
    /\ dispatch = IdleDispatch /\ operator = IdleOperator /\ cron = "idle"
    /\ watchdog = [todo |-> {}, sending |-> Nothing]
    /\ noting = [c \in Callers |-> Nothing]
    /\ delivery = [m \in Message |-> "none"] /\ inbox = {}
    /\ handling = [d \in Devices |-> Nothing]
    /\ agent = [d \in Devices |-> IdleAgent]
    /\ reports = {} /\ reported = {}
    /\ requests = 0 /\ disturbances = 0 /\ givenUp = {}

Disturbance == disturbances < MaxDisturbances /\ disturbances' = disturbances + 1

\* A request is made, or the cron job's time has come.
Request(kind) ==
    /\ kind \in Requests /\ UNCHANGED givenUp
    /\ IF kind \in NewWork
       THEN requests < MaxRequests /\ requests' = requests + 1 /\ UNCHANGED disturbances
       ELSE Disturbance /\ UNCHANGED requests

SetRows(S, change(_)) == row' = [d \in Devices |-> IF d \in S THEN change(row[d]) ELSE row[d]]
RunningDevices == {d \in Devices : row[d].status = Running}

-----------------------------------------------------------------------------
(* SendCommandWithDelivery: the row replaces those of the task's other runs *)
(* on the device, then the hub accepts or refuses a first copy. Every call  *)
(* makes a new cmd_id, so the phone may take the command again.             *)

Live == {m \in Message : delivery[m] # "none"}
Over(S) == [m \in Message |-> IF m \in S THEN "none" ELSE delivery[m]]

Superseded(m) ==
    IF m.run = NoRun THEN {} ELSE {x \in Live : x.dev = m.dev /\ x.run # m.run}

Recorded(m) ==
    delivery' = IF Reliable THEN [Over(Superseded(m)) EXCEPT ![m] = "live"] ELSE delivery

\* Mutant: a direct send, too, is followed by the update of the row.
AcceptedNotesAlways(caller, m) ==
    /\ Recorded(m)
    /\ inbox' = inbox \cup {m}
    /\ noting' = [noting EXCEPT ![caller] = m]

Accepted(caller, m) ==
    /\ Recorded(m)
    /\ inbox' = inbox \cup {m}
    /\ noting' = IF Reliable THEN [noting EXCEPT ![caller] = m] ELSE noting

\* ErrDeviceOffline or ErrSendQueueFull; a failed INSERT leaves no row.
Refused(m) ==
    /\ Recorded(m) \/ UNCHANGED delivery
    /\ UNCHANGED <<inbox, noting>>

\* attemptCommandDelivery ends by marking the device's row as running,
\* whatever the command was and whatever the row says by now.
NoteSent(caller) ==
    LET m == noting[caller] IN
    /\ m # Nothing
    /\ noting' = [noting EXCEPT ![caller] = Nothing]
    /\ row' = IF m.run \in {NoRun, row[m.dev].run}
              THEN [row EXCEPT ![m.dev].status = Running] ELSE row
    /\ UNCHANGED <<task, queueVars, serverVars, delivery, inbox, phoneVars, counts>>

\* The retry worker sends a live command once more; a phone that has taken it
\* only repeats its ack.
Resend(m) ==
    /\ Reliable /\ m \in Live /\ noting["retry"] = Nothing
    /\ inbox' = IF delivery[m] = "taken" THEN inbox ELSE inbox \cup {m}
    /\ noting' = [noting EXCEPT !["retry"] = m]
    /\ UNCHANGED <<task, row, queueVars, serverVars, delivery, phoneVars, counts>>

\* Acknowledged by the phone, out of attempts, or too old.
DeliveryEnds(m) ==
    /\ m \in Live
    /\ delivery' = Over({m})
    /\ UNCHANGED <<task, row, queueVars, serverVars, noting, inbox, phoneVars, counts>>

\* cancelPendingTaskDeliveries
CancelDeliveries == delivery' = Over({m \in Live : m.kind = "task"})

-----------------------------------------------------------------------------
(* EnqueueTask: a task already pending is not queued a second time.         *)

Enqueue ==
    /\ pending' = TRUE
    /\ queued' = (queued \/ ~pending)

QueueFull == ~pending

-----------------------------------------------------------------------------
(* The dispatch worker: runDispatchWorker, executeQueuedDispatch,           *)
(* dispatchTaskToDevices. The devices fit one batch of 100.                 *)

DispatchTake ==
    /\ dispatch.pc = "idle" /\ queued
    /\ queued' = FALSE
    /\ dispatch' = [dispatch EXCEPT !.pc = "taken"]
    /\ UNCHANGED <<task, row, pending, lastRun, operator, cron, watchdog, wireVars, phoneVars, counts>>

\* The worker reads the task: one that is no longer started is skipped.
DispatchRead ==
    /\ dispatch.pc = "taken"
    /\ IF task = 1
       THEN /\ lastRun' = lastRun + 1
            /\ dispatch' = [dispatch EXCEPT !.pc = "resetting", !.run = lastRun + 1]
       ELSE /\ dispatch' = [dispatch EXCEPT !.pc = "releasing"]
            /\ UNCHANGED lastRun
    /\ UNCHANGED <<task, row, pending, queued, operator, cron, watchdog, wireVars, phoneVars, counts>>

\* Mutant: the rows get the new run_id and keep their status.
DispatchResetKeepsStatus ==
    /\ dispatch.pc = "resetting"
    /\ row' = [d \in Devices |-> [row[d] EXCEPT !.run = dispatch.run]]
    /\ dispatch' = [dispatch EXCEPT !.pc = "sending", !.todo = {TaskMsg(d, dispatch.run) : d \in Devices}]
    /\ UNCHANGED <<task, queueVars, operator, cron, watchdog, wireVars, phoneVars, counts>>

DispatchReset ==
    /\ dispatch.pc = "resetting"
    /\ row' = [d \in Devices |-> FreshRow(dispatch.run)]
    /\ dispatch' = [dispatch EXCEPT !.pc = "sending", !.todo = {TaskMsg(d, dispatch.run) : d \in Devices}]
    /\ UNCHANGED <<task, queueVars, operator, cron, watchdog, wireVars, phoneVars, counts>>

DispatchSend ==
    /\ dispatch.pc = "sending" /\ noting["dispatch"] = Nothing
    /\ \E m \in dispatch.todo :
        \/ /\ Accepted("dispatch", m)
           /\ dispatch' = [dispatch EXCEPT !.todo = @ \ {m}, !.sent = @ \cup {m}]
        \/ /\ Refused(m)
           /\ dispatch' = [dispatch EXCEPT !.todo = @ \ {m}]
    /\ UNCHANGED <<task, row, queueVars, operator, cron, watchdog, phoneVars, counts>>

\* Mutant: no deadline.
DispatchUpdateNoDeadline ==
    /\ dispatch.pc = "sending" /\ dispatch.todo = {} /\ noting["dispatch"] = Nothing
    /\ SetRows({m.dev : m \in dispatch.sent}, LAMBDA r : [r EXCEPT !.status = Running])
    /\ dispatch' = [dispatch EXCEPT !.pc = "finishing"]
    /\ UNCHANGED <<task, queueVars, operator, cron, watchdog, wireVars, phoneVars, counts>>

\* The delivered rows are marked by id: neither run_id nor status is looked at.
DispatchUpdate ==
    /\ dispatch.pc = "sending" /\ dispatch.todo = {} /\ noting["dispatch"] = Nothing
    /\ SetRows({m.dev : m \in dispatch.sent}, LAMBDA r : Marked(r, Running, TRUE))
    /\ dispatch' = [dispatch EXCEPT !.pc = "finishing"]
    /\ UNCHANGED <<task, queueVars, operator, cron, watchdog, wireVars, phoneVars, counts>>

\* result.Sent == 0: nothing was handed to a connection, queued or not.
DispatchFinish ==
    /\ dispatch.pc = "finishing"
    /\ task' = IF dispatch.sent = {} THEN 0 ELSE task
    /\ dispatch' = [dispatch EXCEPT !.pc = "releasing"]
    /\ UNCHANGED <<row, queueVars, operator, cron, watchdog, wireVars, phoneVars, counts>>

\* the deferred dispatchPending.Delete
DispatchRelease ==
    /\ dispatch.pc = "releasing"
    /\ pending' = FALSE
    /\ dispatch' = IdleDispatch
    /\ UNCHANGED <<task, row, queued, lastRun, operator, cron, watchdog, wireVars, phoneVars, counts>>

DispatchNext ==
    \/ DispatchTake \/ DispatchRead \/ DispatchReset \/ DispatchSend
    \/ DispatchUpdate \/ DispatchFinish \/ DispatchRelease \/ NoteSent("dispatch")

-----------------------------------------------------------------------------
(* The cron job: executeTask.                                               *)

\* A task that is still started swallows the tick.
CronTick ==
    /\ cron = "idle" /\ task # 1
    /\ Request("cron")
    /\ cron' = "marking"
    /\ UNCHANGED <<task, row, queueVars, dispatch, operator, watchdog, wireVars, phoneVars>>

\* One transaction; the rows keep the run_id of the previous occurrence.
CronMark ==
    /\ cron = "marking"
    /\ task' = 1
    /\ SetRows(Devices, LAMBDA r : FreshRow(r.run))
    /\ cron' = "enqueue"
    /\ UNCHANGED <<queueVars, dispatch, operator, watchdog, wireVars, phoneVars, counts>>

CronEnqueue ==
    /\ cron = "enqueue"
    /\ \/ Enqueue /\ UNCHANGED task
       \/ QueueFull /\ task' = 0 /\ UNCHANGED <<pending, queued>>
    /\ cron' = "idle"
    /\ UNCHANGED <<row, lastRun, dispatch, operator, watchdog, wireVars, phoneVars, counts>>

-----------------------------------------------------------------------------
(* The operator's requests, one handler at a time.                          *)

OperatorMoves(pc) == operator' = [operator EXCEPT !.pc = pc]

\* StartTask: read, then update, then enqueue.
Start ==
    /\ operator.pc = "idle" /\ task # 1
    /\ Request("start")
    /\ OperatorMoves("start")
    /\ UNCHANGED <<task, row, queueVars, dispatch, cron, watchdog, wireVars, phoneVars>>

StartMark ==
    /\ operator.pc = "start"
    /\ task' = 1
    /\ OperatorMoves("enqueue")
    /\ UNCHANGED <<row, queueVars, dispatch, cron, watchdog, wireVars, phoneVars, counts>>

StartEnqueue ==
    /\ operator.pc = "enqueue"
    /\ \/ Enqueue /\ OperatorMoves("accepted") /\ UNCHANGED task
       \/ QueueFull /\ task' = 0 /\ operator' = IdleOperator /\ UNCHANGED <<pending, queued>>
    /\ UNCHANGED <<row, lastRun, dispatch, cron, watchdog, wireVars, phoneVars, counts>>

\* The operator reads "the task has entered the dispatch queue".
StartReply ==
    /\ operator.pc = "accepted"
    /\ operator' = IdleOperator
    /\ UNCHANGED <<task, row, queueVars, dispatch, cron, watchdog, wireVars, phoneVars, counts>>

\* StopTask: pending task deliveries, then a cancel command per running row,
\* then the task, then the rows.
Stop ==
    /\ operator.pc = "idle"
    /\ Request("stop")
    /\ CancelDeliveries
    /\ OperatorMoves("stop")
    /\ UNCHANGED <<task, row, queueVars, dispatch, cron, watchdog, noting, inbox, phoneVars>>

StopSelect ==
    /\ operator.pc = "stop"
    /\ operator' = [operator EXCEPT !.pc = "stopping", !.todo = {CancelMsg(d, row[d].run) : d \in RunningDevices}]
    /\ UNCHANGED <<task, row, queueVars, dispatch, cron, watchdog, wireVars, phoneVars, counts>>

StopSend ==
    /\ operator.pc = "stopping" /\ noting["operator"] = Nothing
    /\ \E m \in operator.todo :
        /\ Accepted("operator", m) \/ Refused(m)
        /\ operator' = [operator EXCEPT !.todo = @ \ {m}]
    /\ UNCHANGED <<task, row, queueVars, dispatch, cron, watchdog, phoneVars, counts>>

StopTask ==
    /\ operator.pc = "stopping" /\ operator.todo = {} /\ noting["operator"] = Nothing
    /\ task' = 0
    /\ OperatorMoves("closing")
    /\ UNCHANGED <<row, queueVars, dispatch, cron, watchdog, wireVars, phoneVars, counts>>

StopRows ==
    /\ operator.pc = "closing"
    /\ SetRows(RunningDevices, LAMBDA r : Marked(r, Failed, FALSE))
    /\ givenUp' = givenUp \cup {CancelMsg(d, row[d].run) : d \in RunningDevices}
    /\ operator' = IdleOperator
    /\ UNCHANGED <<task, queueVars, dispatch, cron, watchdog, wireVars, phoneVars, requests, disturbances>>

\* ResetTask; the rows keep their run_id.
Reset ==
    /\ operator.pc = "idle"
    /\ Request("reset")
    /\ CancelDeliveries
    /\ OperatorMoves("reset")
    /\ UNCHANGED <<task, row, queueVars, dispatch, cron, watchdog, noting, inbox, phoneVars>>

ResetTask ==
    /\ operator.pc = "reset"
    /\ task' = 0
    /\ OperatorMoves("resetting")
    /\ UNCHANGED <<row, queueVars, dispatch, cron, watchdog, wireVars, phoneVars, counts>>

ResetRows ==
    /\ operator.pc = "resetting"
    /\ SetRows(Devices, LAMBDA r : FreshRow(r.run))
    /\ operator' = IdleOperator
    /\ UNCHANGED <<task, queueVars, dispatch, cron, watchdog, wireVars, phoneVars, counts>>

\* RepairTask: a new run for the chosen devices, one after the other.
Repair ==
    /\ operator.pc = "idle"
    /\ Request("repair")
    /\ lastRun' = lastRun + 1
    /\ \E S \in SUBSET Devices \ {{}} :
        operator' = [operator EXCEPT !.pc = "repair", !.todo = {TaskMsg(d, lastRun + 1) : d \in S}]
    /\ UNCHANGED <<task, row, pending, queued, dispatch, cron, watchdog, wireVars, phoneVars>>

RepairReset ==
    /\ operator.pc = "repair"
    /\ \E m \in operator.todo :
        /\ row' = [row EXCEPT ![m.dev] = FreshRow(m.run)]
        /\ operator' = [operator EXCEPT !.pc = "sending", !.todo = @ \ {m}, !.at = m]
    /\ UNCHANGED <<task, queueVars, dispatch, cron, watchdog, wireVars, phoneVars, counts>>

RepairSend ==
    /\ operator.pc = "sending"
    /\ \/ /\ Accepted("operator", operator.at)
          /\ operator' = [operator EXCEPT !.pc = "marking", !.sent = @ \cup {operator.at}]
       \/ /\ Refused(operator.at)
          /\ operator' = [operator EXCEPT !.pc = "repair", !.at = Nothing]
    /\ UNCHANGED <<task, row, queueVars, dispatch, cron, watchdog, phoneVars, counts>>

\* by id, like the dispatch
RepairMark ==
    /\ operator.pc = "marking" /\ noting["operator"] = Nothing
    /\ SetRows({operator.at.dev}, LAMBDA r : Marked(r, Running, TRUE))
    /\ operator' = [operator EXCEPT !.pc = "repair", !.at = Nothing]
    /\ UNCHANGED <<task, queueVars, dispatch, cron, watchdog, wireVars, phoneVars, counts>>

RepairFinish ==
    /\ operator.pc = "repair" /\ operator.todo = {}
    /\ task' = IF operator.sent # {} THEN 1 ELSE task
    /\ operator' = IdleOperator
    /\ UNCHANGED <<row, queueVars, dispatch, cron, watchdog, wireVars, phoneVars, counts>>

\* PushTaskToDevice: a message without run_id, and a row without deadline.
Push ==
    /\ operator.pc = "idle"
    /\ Request("push")
    /\ \E d \in Devices :
        \/ /\ Accepted("operator", TaskMsg(d, NoRun))
           /\ operator' = [operator EXCEPT !.pc = "pushed", !.at = TaskMsg(d, NoRun)]
        \/ Refused(TaskMsg(d, NoRun)) /\ UNCHANGED operator
    /\ UNCHANGED <<task, row, queueVars, dispatch, cron, watchdog, phoneVars>>

PushMark ==
    /\ operator.pc = "pushed" /\ noting["operator"] = Nothing
    /\ SetRows({operator.at.dev}, LAMBDA r : [r EXCEPT !.status = Running])
    /\ operator' = IdleOperator
    /\ UNCHANGED <<task, queueVars, dispatch, cron, watchdog, wireVars, phoneVars, counts>>

\* BatchResetDevices: rows of chosen devices, whatever their task does.
ReleaseDevices ==
    /\ operator.pc = "idle"
    /\ Request("release")
    /\ \E S \in SUBSET Devices \ {{}} :
        SetRows({d \in S : row[d].status \in {Running, Failed}},
                LAMBDA r : [r EXCEPT !.status = Waiting])
    /\ UNCHANGED <<task, queueVars, serverVars, wireVars, phoneVars>>

OperatorNext ==
    \/ Start \/ StartMark \/ StartEnqueue \/ StartReply
    \/ Stop \/ StopSelect \/ StopSend \/ StopTask \/ StopRows
    \/ Reset \/ ResetTask \/ ResetRows
    \/ Repair \/ RepairReset \/ RepairSend \/ RepairMark \/ RepairFinish
    \/ Push \/ PushMark \/ ReleaseDevices \/ NoteSent("operator")

-----------------------------------------------------------------------------
(* The watchdog: expireTaskRuns. A scan takes at most 100 rows, the most    *)
(* overdue first; all devices of the model fit.                             *)

\* A deadline may pass at any time, and in the end it does.
Overdue == {d \in RunningDevices : row[d].deadline}

WatchdogScan ==
    /\ watchdog = [todo |-> {}, sending |-> Nothing] /\ noting["watchdog"] = Nothing
    /\ Overdue # {}
    /\ watchdog' = [watchdog EXCEPT !.todo = {CancelMsg(d, row[d].run) : d \in Overdue}]
    /\ givenUp' = givenUp \cup watchdog'.todo
    /\ UNCHANGED <<task, row, queueVars, dispatch, operator, cron, wireVars, phoneVars, requests, disturbances>>

\* The task completes with its last open row.
NoOpenRow == \A d \in Devices : row'[d].status \notin Open
CompletesFrom(states) == task' = IF NoOpenRow /\ task \in states THEN 2 ELSE task

\* Mutant: the run of the selected row is not compared.
WatchdogExpireAnyRun ==
    /\ watchdog.sending = Nothing /\ noting["watchdog"] = Nothing
    /\ \E m \in watchdog.todo :
        LET hit == row[m.dev].status = Running IN
        /\ row' = IF hit THEN [row EXCEPT ![m.dev] = Marked(@, Failed, FALSE)] ELSE row
        /\ IF hit THEN CompletesFrom({1}) ELSE UNCHANGED task
        /\ watchdog' = [todo |-> watchdog.todo \ {m}, sending |-> IF hit THEN m ELSE Nothing]
    /\ UNCHANGED <<queueVars, dispatch, operator, cron, wireVars, phoneVars, counts>>

\* The transaction: the selected row may have moved on since the scan.
WatchdogExpire ==
    /\ watchdog.sending = Nothing /\ noting["watchdog"] = Nothing
    /\ \E m \in watchdog.todo :
        LET hit == row[m.dev].status = Running /\ row[m.dev].run = m.run IN
        /\ row' = IF hit THEN [row EXCEPT ![m.dev] = Marked(@, Failed, FALSE)] ELSE row
        /\ IF hit THEN CompletesFrom({1}) ELSE UNCHANGED task
        /\ watchdog' = [todo |-> watchdog.todo \ {m}, sending |-> IF hit THEN m ELSE Nothing]
    /\ UNCHANGED <<queueVars, dispatch, operator, cron, wireVars, phoneVars, counts>>

WatchdogCancel ==
    /\ watchdog.sending # Nothing
    /\ Accepted("watchdog", watchdog.sending) \/ Refused(watchdog.sending)
    /\ watchdog' = [watchdog EXCEPT !.sending = Nothing]
    /\ UNCHANGED <<task, row, queueVars, dispatch, operator, cron, phoneVars, counts>>

WatchdogNext == WatchdogScan \/ WatchdogExpire \/ WatchdogCancel \/ NoteSent("watchdog")

-----------------------------------------------------------------------------
(* The task_status branch. Four database workers share the reports, so they *)
(* arrive in any order; one whose event_ack is lost arrives again.          *)

\* Mutant: the run_id is not compared.
MatchesAnyRun(r) == row[r.dev].status \in Open
Matches(r) ==
    /\ row[r.dev].status \in Open
    /\ r.run \in {NoRun, row[r.dev].run}

StatusArrives(r) ==
    /\ r \in reports
    /\ \/ reports' = reports \ {r} /\ UNCHANGED disturbances
       \/ Disturbance /\ UNCHANGED reports
    /\ IF Matches(r)
       THEN /\ row' = [row EXCEPT ![r.dev] = Marked(@, r.status, r.status = Running)]
            /\ IF r.status = Running
               THEN task' = IF task = 0 THEN 1 ELSE task
               ELSE CompletesFrom({0, 1})
       ELSE UNCHANGED <<task, row>>
    /\ UNCHANGED <<queueVars, serverVars, wireVars, handling, agent, reported, requests, givenUp>>

-----------------------------------------------------------------------------
(* The phone. Reports go to its persisted outbox.                           *)

SendStatus(r) ==
    /\ reports' = reports \cup {r}
    /\ reported' = reported \cup {r}

Rep(d, r, s) == [dev |-> d, run |-> r, status |-> s]

\* handleMessage claims the command and queues its ack.
PhoneTake(m) ==
    /\ m \in inbox
    /\ agent[m.dev].phase # "down" /\ handling[m.dev] = Nothing
    /\ inbox' = inbox \ {m}
    /\ delivery' = IF m \in Live THEN [delivery EXCEPT ![m] = "taken"] ELSE delivery
    /\ handling' = [handling EXCEPT ![m.dev] = m]
    /\ UNCHANGED <<task, row, queueVars, serverVars, noting, agent, reports, reported, counts>>

Handled(d) == handling' = [handling EXCEPT ![d] = Nothing]

\* executeTask on an idle phone
PhoneBegin(d) ==
    LET r == handling[d].run IN
    /\ handling[d].kind = "task" /\ agent[d].phase = "idle"
    /\ Handled(d)
    /\ agent' = [agent EXCEPT ![d] = [phase |-> "running", run |-> r]]
    /\ SendStatus(Rep(d, r, Running))
    /\ UNCHANGED <<task, row, queueVars, serverVars, wireVars, counts>>

\* Busy; or, on an idle phone, HID activation is blocked or the script is empty.
PhoneRefuse(d) ==
    /\ handling[d].kind = "task"
    /\ Handled(d)
    /\ SendStatus(Rep(d, handling[d].run, Failed))
    /\ UNCHANGED <<task, row, queueVars, serverVars, wireVars, agent, counts>>

\* finishCurrentTask claims and reports the one end of the run ...
Ends(d, statuses) ==
    /\ agent[d].phase = "running"
    /\ \E s \in statuses : SendStatus(Rep(d, agent[d].run, s))
    /\ agent' = [agent EXCEPT ![d].phase = "ended"]

\* ... from the business thread (the script returns or throws) or from the phone's
\* own watchdog ...
PhoneFinish(d) ==
    /\ Ends(d, {Done, Failed})
    /\ UNCHANGED <<task, row, queueVars, serverVars, wireVars, handling, counts>>

\* ... or by cancel_task: only the run it names; an empty run_id matches any.
PhoneCancel(d) ==
    LET m == handling[d] IN
    /\ m.kind = "cancel" /\ agent[d].phase # "down"
    /\ Handled(d)
    /\ IF agent[d].phase = "running" /\ m.run \in {NoRun, agent[d].run}
       THEN Ends(d, {Failed}) ELSE UNCHANGED <<agent, reports, reported>>
    /\ UNCHANGED <<task, row, queueVars, serverVars, wireVars, counts>>

\* cleanupCurrentTask, from whichever of these comes first: the phone is idle again.
PhoneCleanup(d) ==
    /\ agent[d].phase = "ended"
    /\ agent' = [agent EXCEPT ![d] = IdleAgent]
    /\ UNCHANGED <<task, row, queueVars, serverVars, wireVars, handling, reports, reported, counts>>

\* The script dies between any two of these steps ...
PhoneCrash(d) ==
    /\ agent[d].phase # "down" /\ Disturbance
    /\ agent' = [agent EXCEPT ![d] = [phase |-> "down", run |-> NoRun]]
    /\ Handled(d)
    /\ UNCHANGED <<task, row, queueVars, serverVars, wireVars, reports, reported, requests, givenUp>>

\* ... and recoverInterruptedTask reports the run that its journal is left with, if any.
PhoneRecover(d) ==
    /\ agent[d].phase = "down"
    /\ agent' = [agent EXCEPT ![d] = IdleAgent]
    /\ \/ UNCHANGED <<reports, reported>>
       \/ \E r \in Runs : Rep(d, r, Running) \in reported /\ SendStatus(Rep(d, r, Failed))
    /\ UNCHANGED <<task, row, queueVars, serverVars, wireVars, handling, counts>>

PhoneNext(d) ==
    \/ PhoneBegin(d) \/ PhoneRefuse(d) \/ PhoneFinish(d) \/ PhoneCleanup(d)
    \/ PhoneCancel(d) \/ PhoneCrash(d) \/ PhoneRecover(d)

-----------------------------------------------------------------------------
CronNext == CronTick \/ CronMark \/ CronEnqueue

WireNext ==
    \/ \E m \in Message : Resend(m) \/ DeliveryEnds(m) \/ PhoneTake(m)
    \/ NoteSent("retry")

Next ==
    \/ DispatchNext \/ CronNext \/ OperatorNext \/ WatchdogNext \/ WireNext
    \/ \E r \in reports : StatusArrives(r)
    \/ \E d \in Devices : PhoneNext(d)

Spec == Init /\ [][Next]_vars

(* The server's goroutines run and deadlines pass; a request, once made, is *)
(* carried to its end. Nothing is assumed of operators, phones or network.  *)
ServerFairness ==
    /\ WF_vars(DispatchNext) /\ WF_vars(WatchdogNext)
    /\ WF_vars(CronMark \/ CronEnqueue)
    /\ WF_vars(OperatorNext /\ operator.pc # "idle")
    /\ WF_vars(NoteSent("retry"))

FairSpec == Spec /\ ServerFairness

-----------------------------------------------------------------------------
(* Properties.                                                              *)

\* A row says "done" under a run only if the phone really completed that run:
\* the guards on run_id and status keep late reports of other runs, and every
\* order of reports, timeouts and new runs, from crediting a run with it. Only
\* the end of a pushed task, which has no run_id, counts for any run.
DoneIsEarned ==
    \A d \in Devices : row[d].status = Done =>
        \E r \in {row[d].run, NoRun} : Rep(d, r, Done) \in reported

\* task_watchdog.go:48: a row says "failed" under a run only if the phone reported
\* such an end, or that very run was found overdue, or a stop closed it: a timeout
\* selected before a report, a stop, a reset or a new dispatch of the row never hits
\* the run that came after it.
FailedIsEarned ==
    \A d \in Devices : row[d].status = Failed =>
        \/ CancelMsg(d, row[d].run) \in givenUp
        \/ \E r \in {row[d].run, NoRun} : Rep(d, r, Failed) \in reported

\* What the watchdog rests on: in direct mode no row runs without a deadline, however
\* dispatches, repairs, reports, stops and releases overwrite one another (a pushed
\* task has none).
RunningRowIsWatched ==
    ~Reliable /\ "push" \notin Requests =>
        \A d \in Devices : row[d].status = Running => row[d].deadline

\* README.md:12: the watchdog ends every run a device never reports on.
RunningRowEnds ==
    \A d \in Devices : row[d].status = Running ~> row[d].status # Running

\* docs/长期在线与实时任务说明.md:22: a cron tick never starts a task that runs.
TickFindsNothingRunning ==
    [][cron = "idle" /\ cron' = "marking" => RunningDevices = {}]_vars

\* README.md:23: a late report of an old run does not complete the new round,
\* here a round that still waits in the dispatch queue.
QueuedRoundIsNotCompleted == [][queued /\ queued' /\ task = 1 => task' # 2]_vars

\* task.go:515: a start the operator sees accepted is in the dispatch queue, or
\* with the worker that has yet to read it.
AcceptedStartIsQueued ==
    [][operator.pc = "enqueue" /\ operator'.pc = "accepted" => queued' \/ dispatch.pc = "taken"]_vars
=============================================================================
