----------------------------- MODULE CronRecovery -----------------------------
(***************************************************************************)
(* A cron task across stops and crashes of the server: Start, the callback *)
(* and its persistNextRun, executeTask, the dispatch queue and its worker  *)
(* (server/handlers/scheduler.go). One task, whose times are 1, 2, ...;    *)
(* next_run_at in the database is what a restart knows of missed times.    *)
(* Rows, runs and reports of the task are the subject of TaskRuns.         *)
(***************************************************************************)
EXTENDS Integers, FiniteSets

CONSTANTS
    Policy,         \* misfire_policy: "skip", "run_once" or "latest"
    Window,         \* cronCatchupWindow, in times of the task
    MaxTime,        \* bound: times of the task
    MaxRestarts,    \* bound: crashes and stops
    MaxRefusals     \* bound: statements and enqueues that fail

CronAssumption ==
    /\ Policy \in {"skip", "run_once", "latest"}
    /\ {Window, MaxTime, MaxRestarts, MaxRefusals} \subseteq Nat

VARIABLES
    now,
    status,         \* tasks.status
    nextRun,        \* next_run_at
    server,         \* "down", how far Start is, "up", or "stopping"
    cronNext,       \* when the cron library calls back next
    callback,       \* the callback under way, or Start's catch-up: stage and times it is for
    queued,         \* the task is in dispatchQueue
    worker,         \* the worker: "idle", or what it is about to do with the task
    reached,        \* devices have the task of the current round
    ran,            \* history: how often each time of the task was executed
    unsaved,        \* history: a time was executed and next_run_at not advanced
    restarts, refusals

cronVars == <<now, status, nextRun, server, cronNext, callback, queued, worker, reached, ran,
    unsaved, restarts, refusals>>

faultState == <<restarts, refusals>>
Times == 1..MaxTime
NoCallback == [stage |-> "none", times |-> {}]
CallbackStages == {"none", "execute", "enqueue", "persist"}
ServerStates == {"down", "load", "catch up", "ready", "up", "stopping"}

CronTypeOK ==
    /\ now \in 0..MaxTime /\ status \in 0..2 /\ nextRun \in 1..(MaxTime + 1)
    /\ server \in ServerStates /\ cronNext \in 1..(MaxTime + 1)
    /\ callback \in [stage: CallbackStages, times: SUBSET Times]
    /\ queued \in BOOLEAN /\ worker \in {"idle", "read", "dispatch"} /\ reached \in BOOLEAN
    /\ ran \in [Times -> 0..(MaxRestarts + MaxRefusals + 1)] /\ unsaved \in BOOLEAN
    /\ restarts \in 0..MaxRestarts /\ refusals \in 0..MaxRefusals

CronInit ==
    /\ now = 0 /\ status = 0 /\ nextRun = 1 /\ server = "up" /\ cronNext = 1
    /\ callback = NoCallback /\ queued = FALSE /\ worker = "idle" /\ reached = FALSE
    /\ ran = [t \in Times |-> 0] /\ unsaved = FALSE
    /\ restarts = 0 /\ refusals = 0

Refusal == refusals < MaxRefusals /\ refusals' = refusals + 1
CronRuns == server = "up"
Running == server # "down"

TimePasses ==
    /\ now < MaxTime /\ now' = now + 1
    /\ UNCHANGED <<status, nextRun, server, cronNext, callback, queued, worker, reached, ran,
                   unsaved, faultState>>

\* SkipIfStillRunning drops the tick of a callback that is still under way.
Fire ==
    /\ CronRuns /\ cronNext <= now /\ cronNext' = now + 1
    /\ callback' = IF callback.stage = "none" THEN [stage |-> "execute", times |-> {now}]
                   ELSE callback
    /\ UNCHANGED <<now, status, nextRun, server, queued, worker, reached, ran, unsaved, faultState>>

CallbackGoesTo(stage) == callback' = [stage |-> stage, times |-> callback.times]

\* executeTask: a task that is running coalesces the tick ...
Execute ==
    /\ Running /\ callback.stage = "execute"
    /\ \/ /\ status # 1 /\ status' = 1 /\ reached' = FALSE
          /\ ran' = [t \in Times |-> IF t \in callback.times THEN ran[t] + 1 ELSE ran[t]]
          /\ CallbackGoesTo("enqueue")
          /\ UNCHANGED refusals
       \/ /\ status = 1 \/ Refusal
          /\ status = 1 => UNCHANGED refusals
          /\ CallbackGoesTo("persist")
          /\ UNCHANGED <<status, reached, ran>>
    /\ UNCHANGED <<now, nextRun, server, cronNext, queued, worker, unsaved, restarts>>

Pending == queued \/ worker # "idle"

\* ... and EnqueueTask; refused by a full queue or a scheduler that stops.
Enqueue ==
    /\ Running /\ callback.stage = "enqueue"
    /\ CallbackGoesTo("persist")
    /\ \/ server # "stopping" /\ queued' = (queued \/ ~Pending) /\ UNCHANGED <<status, refusals>>
       \/ /\ status' = 0 /\ UNCHANGED queued
          /\ IF server = "stopping" THEN UNCHANGED refusals ELSE ~Pending /\ Refusal
    /\ UNCHANGED <<now, nextRun, server, cronNext, worker, reached, ran, unsaved, restarts>>

\* persistNextRun after executeTask in the callback of cron. Start's catch-up has
\* written next_run_at before and goes on with cron.Start.
Persist ==
    /\ Running /\ callback.stage = "persist" /\ callback' = NoCallback
    /\ IF server = "catch up" THEN server' = "ready" /\ UNCHANGED <<nextRun, unsaved, refusals>>
       ELSE /\ \/ nextRun' = now + 1 /\ UNCHANGED <<unsaved, refusals>>
               \/ Refusal /\ unsaved' = TRUE /\ UNCHANGED nextRun
            /\ UNCHANGED server
    /\ UNCHANGED <<now, status, cronNext, queued, worker, reached, ran, restarts>>

\* executeQueuedDispatch: the row ...
Take ==
    /\ Running /\ queued /\ worker = "idle" /\ queued' = FALSE /\ worker' = "read"
    /\ UNCHANGED <<now, status, nextRun, server, cronNext, callback, reached, ran, unsaved, faultState>>

ReadTask ==
    /\ Running /\ worker = "read" /\ worker' = IF status = 1 THEN "dispatch" ELSE "idle"
    /\ UNCHANGED <<now, status, nextRun, server, cronNext, callback, queued, reached, ran, unsaved, faultState>>

\* ... and the dispatch: no device may be online.
Dispatch ==
    /\ Running /\ worker = "dispatch" /\ worker' = "idle"
    /\ \/ reached' = TRUE /\ UNCHANGED status
       \/ status' = 0 /\ UNCHANGED reached
    /\ UNCHANGED <<now, nextRun, server, cronNext, callback, queued, ran, unsaved, faultState>>

\* The devices' reports complete the task.
Complete ==
    /\ Running /\ reached /\ status = 1 /\ status' = 2 /\ reached' = FALSE
    /\ UNCHANGED <<now, nextRun, server, cronNext, callback, queued, worker, ran, unsaved, faultState>>

-----------------------------------------------------------------------------
\* What was in memory is gone.
Down ==
    /\ server' = "down" /\ callback' = NoCallback /\ queued' = FALSE /\ worker' = "idle"
    /\ UNCHANGED <<now, status, nextRun, cronNext, reached, ran>>

Crash ==
    /\ Running /\ restarts < MaxRestarts /\ restarts' = restarts + 1
    /\ Down
    /\ unsaved' = (unsaved \/ (server # "catch up" /\ callback.stage \in {"enqueue", "persist"}))
    /\ UNCHANGED refusals

\* StopWithContext: callbacks end and the worker empties the queue.
StopScheduler ==
    /\ CronRuns /\ restarts < MaxRestarts /\ restarts' = restarts + 1
    /\ server' = "stopping"
    /\ UNCHANGED <<now, status, nextRun, cronNext, callback, queued, worker, reached, ran, unsaved, refusals>>

Stopped ==
    /\ server = "stopping" /\ callback.stage = "none" /\ ~Pending
    /\ Down /\ UNCHANGED <<unsaved, faultState>>

\* Start: the rows are read, with the next_run_at of before ...
Load ==
    /\ server = "down" /\ server' = "load"
    /\ UNCHANGED <<now, status, nextRun, cronNext, callback, queued, worker, reached, ran, unsaved, faultState>>

CatchesUp == nextRun <= now /\ Policy # "skip" /\ now - nextRun <= Window

\* Mutant: the restart leaves next_run_at to the next tick.
AdvanceLater == nextRun

\* addTaskConfig persists the next time before anything is executed.
Advance == now + 1

\* ... it is advanced, which may fail, and a missed time is caught up ...
Schedule ==
    /\ server = "load" /\ server' = IF CatchesUp THEN "catch up" ELSE "ready"
    /\ \/ nextRun' = Advance /\ UNCHANGED <<unsaved, refusals>>
       \/ Refusal /\ unsaved' = TRUE /\ UNCHANGED nextRun
    /\ callback' = IF CatchesUp THEN [stage |-> "execute", times |-> nextRun..now] ELSE callback
    /\ UNCHANGED <<now, status, cronNext, queued, worker, reached, ran, restarts>>

\* ... and cron.Start counts from now.
StartCron ==
    /\ server = "ready" /\ server' = "up" /\ cronNext' = now + 1
    /\ UNCHANGED <<now, status, nextRun, callback, queued, worker, reached, ran, unsaved, faultState>>

CronStep ==
    \/ TimePasses \/ Fire \/ Execute \/ Enqueue \/ Persist
    \/ Take \/ ReadTask \/ Dispatch \/ Complete
    \/ Crash \/ StopScheduler \/ Stopped \/ Load \/ Schedule \/ StartCron

CronSpec == CronInit /\ [][CronStep]_cronVars

-----------------------------------------------------------------------------
\* README.md:22 (missed times are caught up at most once): no time of the task is
\* executed twice, by its tick or in a catch-up after any number of crashes, unless
\* it was executed and the write of next_run_at that follows was lost.
ExecutedOnce == ~unsaved => \A t \in Times : ran[t] <= 1

\* The same without the exception: refuted by TLC.
ExecutedOnceAlways == \A t \in Times : ran[t] <= 1

\* scheduler.go:295: a tick finds the task running only if a device may have it or the
\* dispatch is under way. Refuted by TLC: a crash leaves the status and loses the queue.
RunningIsPursued == server = "up" /\ status = 1 /\ callback.stage = "none" => reached \/ Pending
=============================================================================
