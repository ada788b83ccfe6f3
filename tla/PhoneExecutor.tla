---------------------------- MODULE PhoneExecutor ----------------------------
(***************************************************************************)
(* What runs on the phone: client/easyclick/src/js/main.js (executeTask,   *)
(* its watchdog, the stop commands, the local script, the journal) and the *)
(* HID recovery of common.js. The command has been claimed and acked       *)
(* (CommandDelivery) and a report is safe once it is queued (PhoneOutbox). *)
(*                                                                         *)
(* The socket reader, the main thread, the timers and every script run in  *)
(* threads of their own and share the globals without a lock. A step ends  *)
(* where the code calls the storage, the network or the thread library, or *)
(* waits; a test of globals and the assignments that follow it are one     *)
(* step.                                                                   *)
(***************************************************************************)
EXTENDS Integers, FiniteSets

CONSTANTS
    Runs,           \* the rounds of tasks the server sends, by run_id
    Tasks,
    TaskOf,         \* the task_id of each run
    None,           \* no run
    Scripts,        \* bound: the script threads started in a behaviour
    Hid,            \* isHidMode()
    Direct,         \* the script may have been started with direct_start = "1"
    MaxDisturbances \* bound: commands, direct starts, HID failures, failing reads and
                    \* writes of the journal, calls of the stop callback and restarts

NoScript == "no script"
Workers  == {"main", "reader", "watchdog", "clicker", "stopper"}
Actors   == Workers \cup Scripts

ASSUME RunsAssumption == IsFiniteSet(Runs) /\ None \notin Runs /\ TaskOf \in [Runs -> Tasks]
ASSUME ScriptsAssumption == IsFiniteSet(Scripts) /\ Scripts \cap (Workers \cup {NoScript}) = {}
ASSUME FlagsAssumption ==
    /\ Hid \in BOOLEAN /\ Direct \in BOOLEAN /\ MaxDisturbances \in Nat

VARIABLES
    running,        \* gIsRunning
    business,       \* gBusinessThreadId
    cur,            \* gCurrentTaskId and gCurrentTaskRunId
    terminalSent,   \* gTaskTerminalSent
    watchdog,       \* the run that an armed gTaskWatchdogTimer is for
    localInited,    \* gLocalInited
    blocked,        \* gHidActivationBlocked
    journal,        \* the run in CLOUD_TASK_JOURNAL_KEY, in the phone's storage
    at,             \* what each thread executes
    cancelled,      \* script threads that were cancelled
    received,       \* history: runs whose task message has come
    began,          \* history: runs reported as started
    ends,           \* history: how many terminal reports name the run
    unnamed,        \* history: runs ended by a report without a run_id
    undercut,       \* history: runs whose gIsRunning another thread cleared, and those
                    \* whose thread was taken away as it was to report their end
    unjournaled,    \* history: runs whose journal storage has failed to write or read, or
                    \* the end of another run has erased: one of the same task, or one
                    \* that had read the journal before theirs was written
    disturbances,   \* history: those so far
    restarts        \* history: restarts among them

record  == <<journal, unjournaled>>
globals == <<running, business, cur, terminalSent, watchdog, localInited, blocked>>
counts  == <<disturbances, restarts>>
history == <<received, began, ends, unnamed, undercut, counts>>
outcome == <<received, began, ends, unnamed, undercut>>
vars == <<globals, record, at, cancelled, history>>

Jobs == {"none", "task", "stop", "cancel", "timeout", "local", "hid", "click", "shutdown"}
Pcs  == {"idle", "recover", "forget", "direct",
         "journal", "report", "exec", "assign",
         "init", "set", "exec local",
         "run", "claim", "send", "clear", "erase", "kill", "cleanup", "done",
         "clear running", "kill local",
         "give up", "unnamed", "defer"}

TypeOK ==
    /\ running \in BOOLEAN /\ terminalSent \in BOOLEAN
    /\ localInited \in BOOLEAN /\ blocked \in BOOLEAN
    /\ business \in Scripts \cup {NoScript}
    /\ cur \in Runs \cup {None} /\ watchdog \in Runs \cup {None} /\ journal \in Runs \cup {None}
    /\ at \in [Actors -> [pc : Pcs, job : Jobs, run : Runs \cup {None},
                          other : Runs \cup Scripts \cup {None}]]
    /\ cancelled \subseteq Scripts
    /\ received \subseteq Runs /\ began \subseteq Runs
    /\ unnamed \subseteq Runs /\ undercut \subseteq Runs /\ unjournaled \subseteq Runs
    /\ ends \in [Runs -> Nat]
    /\ disturbances \in 0..MaxDisturbances /\ restarts \in Nat

Idle == [pc |-> "idle", job |-> "none", run |-> None, other |-> None]

\* The script starts: main() first reports an interrupted task.
Booting == [a \in Actors |-> IF a = "main" THEN [Idle EXCEPT !.pc = "recover"] ELSE Idle]

Init ==
    /\ running = FALSE /\ business = NoScript /\ cur = None /\ terminalSent = FALSE
    /\ watchdog = None /\ localInited = FALSE /\ blocked = FALSE
    /\ journal = None /\ at = Booting /\ cancelled = {}
    /\ received = {} /\ began = {} /\ unnamed = {} /\ undercut = {} /\ unjournaled = {}
    /\ ends = [r \in Runs |-> 0]
    /\ disturbances = 0 /\ restarts = 0

At(a, pc) == at[a].pc = pc
Goto(a, pc) == at' = [at EXCEPT ![a].pc = pc]
Begin(a, job, pc, run) == at' = [at EXCEPT ![a] = [Idle EXCEPT !.pc = pc, !.job = job, !.run = run]]
Return(a) == at' = [at EXCEPT ![a] = Idle]
Booted == at["main"].pc \notin {"recover", "forget"}
Finish(a) == at' = [at EXCEPT ![a] = [Idle EXCEPT !.pc = "done"]]
Fresh == {s \in Scripts : at[s] = Idle}
Disturb == disturbances < MaxDisturbances /\ disturbances' = disturbances + 1
Report(r) == ends' = [ends EXCEPT ![r] = @ + 1]

-----------------------------------------------------------------------------
(* main: recoverInterruptedTask, then, if started directly, the local       *)
(* script.                                                                  *)

LeaveBoot(before) ==
    \/ Goto("main", "idle") /\ disturbances' = before
    \/ Direct /\ Goto("main", "direct") /\ before < MaxDisturbances /\ disturbances' = before + 1

\* The first storage call; one that fails leaves the journal for the next start.
Recover ==
    /\ At("main", "recover")
    /\ \/ /\ journal # None
          /\ Report(journal) /\ Goto("main", "forget")
          /\ UNCHANGED <<unjournaled, disturbances>>
       \/ /\ journal = None
          /\ LeaveBoot(disturbances)
          /\ UNCHANGED <<ends, unjournaled>>
       \/ /\ disturbances < MaxDisturbances
          /\ unjournaled' = unjournaled \cup ({journal} \ {None})
          /\ LeaveBoot(disturbances + 1)
          /\ UNCHANGED ends
    /\ UNCHANGED <<globals, journal, cancelled, received, began, unnamed, undercut, restarts>>

\* The second, which may fail after the report has been queued.
Forget ==
    /\ At("main", "forget")
    /\ \/ journal' = None /\ LeaveBoot(disturbances)
       \/ /\ disturbances < MaxDisturbances
          /\ LeaveBoot(disturbances + 1)
          /\ UNCHANGED journal
    /\ UNCHANGED <<globals, unjournaled, cancelled, outcome, restarts>>

-----------------------------------------------------------------------------
(* executeTask                                                              *)

\* Mutant: a task starts although another runs.
AcceptsWhenBusy == ~blocked

Accepts == ~blocked /\ ~running

\* A task message is handled: refused with a terminal state, or begun.
ExecuteTask(r) ==
    /\ At("reader", "idle") /\ Booted
    /\ r \notin received /\ received' = received \cup {r}
    /\ IF Accepts
       THEN /\ running' = TRUE /\ cur' = r /\ terminalSent' = FALSE
            /\ Begin("reader", "task", "journal", r)
            /\ UNCHANGED ends
       ELSE Report(r) /\ UNCHANGED <<running, cur, terminalSent, at>>
    /\ UNCHANGED <<business, watchdog, localInited, blocked, record, cancelled,
                   began, unnamed, undercut, counts>>

\* A write that fails leaves what there was, and the run begins all the same.
SaveJournal ==
    /\ At("reader", "journal")
    /\ \/ journal' = at["reader"].run /\ UNCHANGED <<unjournaled, disturbances>>
       \/ /\ Disturb
          /\ unjournaled' = unjournaled \cup {at["reader"].run}
          /\ UNCHANGED journal
    /\ Goto("reader", "report")
    /\ UNCHANGED <<globals, cancelled, outcome, restarts>>

\* Mutant: the old timer is disarmed and no new one is armed.
ReportBeginUnwatched ==
    /\ At("reader", "report")
    /\ began' = began \cup {at["reader"].run}
    /\ watchdog' = None
    /\ Goto("reader", "exec")
    /\ UNCHANGED <<running, business, cur, terminalSent, localInited, blocked, record,
                   cancelled, received, ends, unnamed, undercut, counts>>

\* sendTaskStatus(1) and startTaskWatchdog, which disarms the timer there is.
ReportBegin ==
    /\ At("reader", "report")
    /\ began' = began \cup {at["reader"].run}
    /\ watchdog' = at["reader"].run
    /\ Goto("reader", "exec")
    /\ UNCHANGED <<running, business, cur, terminalSent, localInited, blocked, record,
                   cancelled, received, ends, unnamed, undercut, counts>>

\* thread.execAsync, after up to ten seconds for the screen capture. The thread
\* starts before its id is assigned.
Exec(a) == LET s == CHOOSE x \in Fresh : TRUE IN
    /\ At(a, "exec") \/ At(a, "exec local")
    /\ Fresh # {}
    /\ at' = [at EXCEPT ![s] = [Idle EXCEPT !.pc = "run", !.run = at[a].run,
                                            !.job = IF At(a, "exec") THEN "task" ELSE "local"],
                        ![a].pc = "assign", ![a].other = s]
    /\ UNCHANGED <<globals, record, cancelled, history>>

AssignThread(a) ==
    /\ At(a, "assign")
    /\ business' = at[a].other
    /\ Return(a)
    /\ UNCHANGED <<running, cur, terminalSent, watchdog, localInited, blocked,
                   record, cancelled, history>>

\* The script returns or throws. (If it hangs this does not happen.)
ScriptEnds(s) ==
    /\ s \in Scripts /\ At(s, "run")
    /\ Goto(s, IF at[s].job = "task" THEN "claim" ELSE "cleanup")
    /\ UNCHANGED <<globals, record, cancelled, history>>

\* a is about to send the report that ends r.
ReportedBy(a, r) ==
    \/ At(a, "send") /\ at[a].run = r
    \/ At(a, "unnamed") /\ at[a].other = r

Ending(r) == \E a \in Actors : ReportedBy(a, r)

\* cancelThread interrupts the thread: it may stop where it is, or go on to its
\* catch and finally.
ScriptDies(s) ==
    /\ s \in cancelled /\ at[s].pc \notin {"idle", "done"}
    /\ Finish(s)
    /\ undercut' = undercut \cup {r \in Runs : ReportedBy(s, r)}
    /\ UNCHANGED <<globals, record, cancelled, received, began, ends, unnamed, counts>>

WatchdogFires ==
    /\ watchdog # None /\ At("watchdog", "idle")
    /\ Begin("watchdog", "timeout", "claim", watchdog)
    /\ watchdog' = None
    /\ UNCHANGED <<running, business, cur, terminalSent, localInited, blocked,
                   record, cancelled, history>>

-----------------------------------------------------------------------------
(* finishCurrentTask, cancelThread and cleanupCurrentTask, called by the    *)
(* script's own thread, by the watchdog and by stopCurrentTask.             *)

\* Mutant: gTaskTerminalSent is not tested.
ClaimsAgain(r) == cur = r /\ r # None

Claims(r) == cur = r /\ r # None /\ ~terminalSent

AfterFinish(a) == IF a \in Scripts THEN "cleanup" ELSE "kill"

Claim(a) ==
    /\ At(a, "claim")
    /\ IF Claims(at[a].run)
       THEN terminalSent' = TRUE /\ Goto(a, "send")
       ELSE /\ UNCHANGED terminalSent
            /\ IF at[a].job = "timeout" THEN Return(a) ELSE Goto(a, AfterFinish(a))
    /\ UNCHANGED <<running, business, cur, watchdog, localInited, blocked,
                   record, cancelled, history>>

SendEnd(a) ==
    /\ At(a, "send")
    /\ Report(at[a].run)
    /\ Goto(a, "clear")
    /\ UNCHANGED <<globals, record, cancelled, received, began, unnamed, undercut, counts>>

\* Mutant: the journal is erased whatever task it is of.
ClearsAny(r) == journal \in {None} \cup Runs

\* clearActiveTaskJournal compares the task, not the run.
Clears(r) == journal \in {None} \cup {q \in Runs : TaskOf[q] = TaskOf[r]}

\* clearActiveTaskJournal reads the journal ...
ReadJournal(a) ==
    /\ At(a, "clear")
    /\ \/ /\ Clears(at[a].run)
          /\ at' = [at EXCEPT ![a].pc = "erase", ![a].other = journal]
          /\ UNCHANGED disturbances
       \/ ~Clears(at[a].run) /\ Goto(a, AfterFinish(a)) /\ UNCHANGED disturbances
       \/ Disturb /\ Goto(a, AfterFinish(a))
    /\ UNCHANGED <<globals, record, cancelled, outcome, restarts>>

\* ... and erases it, which by then may be another one. Either call may fail.
EraseJournal(a) ==
    /\ At(a, "erase")
    /\ \/ /\ journal' = None
          /\ unjournaled' = unjournaled \cup {r \in Runs \ {at[a].run} : r = journal /\
                 (TaskOf[r] = TaskOf[at[a].run] \/ r # at[a].other)}
          /\ UNCHANGED disturbances
       \/ Disturb /\ UNCHANGED record
    /\ at' = [at EXCEPT ![a].pc = AfterFinish(a), ![a].other = None]
    /\ UNCHANGED <<globals, cancelled, outcome, restarts>>

Kill(a) ==
    /\ At(a, "kill")
    /\ cancelled' = cancelled \cup ({business} \ {NoScript})
    /\ Goto(a, "cleanup")
    /\ UNCHANGED <<globals, record, history>>

IsCurrent(r) == cur = r /\ r # None

\* Where a worker goes on after stopCurrentTask: "stop" stops the local script, if
\* it was prepared, and so does the stop callback in any case.
AfterStop(a) ==
    CASE at[a].job = "shutdown" -> Goto(a, "clear running")
      [] at[a].job = "stop" /\ localInited -> Goto(a, "clear running")
      [] a \in Scripts -> Finish(a)
      [] OTHER -> Return(a)

\* cleanupCurrentTask; and the finally of the local script's thread, which
\* clears the flags whatever runs by then.
Cleanup(a) ==
    /\ At(a, "cleanup")
    /\ IF at[a].job = "local"
       THEN /\ running' = FALSE /\ business' = NoScript
            /\ undercut' = undercut \cup ({cur} \ {None})
            /\ UNCHANGED <<cur, watchdog>>
       ELSE /\ IF IsCurrent(at[a].run)
               THEN running' = FALSE /\ business' = NoScript /\ cur' = None /\ watchdog' = None
               ELSE UNCHANGED <<running, business, cur, watchdog>>
            /\ UNCHANGED undercut
    /\ AfterStop(a)
    /\ UNCHANGED <<terminalSent, localInited, blocked, record, cancelled,
                   received, began, ends, unnamed, counts>>

\* command "stop": whatever runs; "cancel_task": the run it names
StopCommand ==
    /\ At("reader", "idle") /\ Booted /\ Disturb
    /\ Begin("reader", "stop", IF cur = None THEN "kill" ELSE "claim", cur)
    /\ UNCHANGED <<globals, record, cancelled, outcome, restarts>>

CancelTask(r) ==
    /\ At("reader", "idle") /\ Booted /\ cur = r /\ Disturb
    /\ Begin("reader", "cancel", "claim", r)
    /\ UNCHANGED <<globals, record, cancelled, outcome, restarts>>

-----------------------------------------------------------------------------
(* The local script: startLocalBusiness and stopLocalBusiness.              *)

RunLocal ==
    /\ At("reader", "idle") /\ Booted /\ Disturb
    /\ ~blocked /\ ~running
    /\ Begin("reader", "local", "init", None)
    /\ UNCHANGED <<globals, record, cancelled, outcome, restarts>>

\* main, two seconds after it began to connect
StartDirectly ==
    /\ At("main", "direct")
    /\ IF ~blocked /\ ~running THEN Begin("main", "local", "init", None) ELSE Return("main")
    /\ UNCHANGED <<globals, record, cancelled, history>>

\* initLocalBusiness takes seconds and may fail.
InitLocal(a) ==
    /\ At(a, "init")
    /\ \/ localInited' = TRUE /\ Goto(a, "set")
       \/ ~localInited /\ Return(a) /\ UNCHANGED localInited
    /\ UNCHANGED <<running, business, cur, terminalSent, watchdog, blocked,
                   record, cancelled, history>>

\* The flags tested before are not tested again.
SetRunning(a) ==
    /\ At(a, "set")
    /\ running' = TRUE
    /\ Goto(a, "exec local")
    /\ UNCHANGED <<business, cur, terminalSent, watchdog, localInited, blocked,
                   record, cancelled, history>>

StopLocal ==
    /\ At("reader", "idle") /\ Booted /\ Disturb
    /\ Begin("reader", "none", "clear running", None)
    /\ UNCHANGED <<globals, record, cancelled, outcome, restarts>>

\* stopLocalBusiness: a task of the cloud is neither ended nor forgotten by it.
ClearRunning(a) ==
    /\ At(a, "clear running")
    /\ running' = FALSE
    /\ undercut' = undercut \cup ({cur} \ {None})
    /\ Goto(a, "kill local")
    /\ UNCHANGED <<business, cur, terminalSent, watchdog, localInited, blocked,
                   record, cancelled, received, began, ends, unnamed, counts>>

KillLocal(a) ==
    /\ At(a, "kill local")
    /\ cancelled' = cancelled \cup ({business} \ {NoScript})
    /\ business' = NoScript /\ localInited' = FALSE
    /\ IF at[a].job = "shutdown" THEN Finish(a) ELSE Return(a)
    /\ UNCHANGED <<running, cur, terminalSent, watchdog, blocked, record, history>>

-----------------------------------------------------------------------------
(* runHidActionWithRecovery: an action that fails, and fails again after    *)
(* each of three activations, blocks HID until the script is restarted.     *)

\* The anti-sleep timer calls doClick(2, 2) while nothing runs. (A click that works
\* changes nothing here.)
AntiSleepClick ==
    /\ Hid /\ At("clicker", "idle") /\ Booted /\ Disturb
    /\ ~running /\ ~blocked
    /\ Begin("clicker", "click", "run", None)
    /\ UNCHANGED <<globals, record, cancelled, outcome, restarts>>

\* stopHidAutomationAndOpenSettings takes the current task away. The task_id is
\* cleared and the report sent next has no run_id; the journal is left.
HidGivesUp(a) ==
    /\ Hid /\ a \in Scripts \cup {"clicker"} /\ At(a, "run") /\ ~blocked
    /\ IF a = "clicker" THEN UNCHANGED disturbances ELSE Disturb
    /\ blocked' = TRUE
    /\ cur' = None
    /\ at' = [at EXCEPT ![a].pc = IF cur = None THEN "defer" ELSE "unnamed", ![a].other = cur]
    /\ UNCHANGED <<running, business, terminalSent, watchdog, localInited,
                   record, cancelled, outcome, restarts>>

SendUnnamed(a) ==
    /\ At(a, "unnamed")
    /\ unnamed' = unnamed \cup {at[a].other}
    /\ Goto(a, "defer")
    /\ UNCHANGED <<globals, record, cancelled, received, began, ends, undercut, counts>>

\* A thread of its own stops the business; the caller throws.
Defer(a) ==
    /\ At(a, "defer") /\ At("stopper", "idle")
    /\ at' = [at EXCEPT !["stopper"] = [Idle EXCEPT !.pc = "clear running", !.job = "hid"],
                        ![a] = IF a = "clicker" THEN Idle
                               ELSE [at[a] EXCEPT !.other = None,
                                                  !.pc = IF at[a].job = "task" THEN "claim" ELSE "cleanup"]]
    /\ UNCHANGED <<globals, record, cancelled, history>>

-----------------------------------------------------------------------------
(* The end of the script.                                                   *)

\* The stop callback runs cleanup() ...
Shutdown ==
    /\ At("stopper", "idle") /\ Booted /\ Disturb
    /\ Begin("stopper", "shutdown", IF cur = None THEN "kill" ELSE "claim", cur)
    /\ UNCHANGED <<globals, record, cancelled, outcome, restarts>>

\* ... and the process ends then, or is killed at any time; it starts again.
Restart ==
    /\ Disturb /\ restarts' = restarts + 1
    /\ running' = FALSE /\ business' = NoScript /\ cur' = None /\ terminalSent' = FALSE
    /\ watchdog' = None /\ localInited' = FALSE /\ blocked' = FALSE
    /\ at' = [a \in Actors |-> IF a \in Scripts /\ at[a] # Idle THEN [Idle EXCEPT !.pc = "done"]
                               ELSE Booting[a]]
    /\ cancelled' = {}
    /\ undercut' = undercut \cup {r \in Runs \ {journal} : Ending(r)}
    /\ UNCHANGED <<record, received, began, ends, unnamed>>

ReaderStep ==
    \/ SaveJournal \/ ReportBegin

Step(a) ==
    \/ Exec(a)
    \/ AssignThread(a)
    \/ Claim(a) \/ SendEnd(a) \/ ReadJournal(a) \/ EraseJournal(a) \/ Kill(a) \/ Cleanup(a)
    \/ InitLocal(a) \/ SetRunning(a) \/ ClearRunning(a) \/ KillLocal(a)
    \/ SendUnnamed(a) \/ Defer(a)

Next ==
    \/ Recover \/ Forget \/ StartDirectly
    \/ \E r \in Runs : ExecuteTask(r) \/ CancelTask(r)
    \/ StopCommand \/ RunLocal \/ StopLocal
    \/ ReaderStep
    \/ \E a \in Actors : Step(a)
    \/ \E s \in Scripts : ScriptEnds(s) \/ ScriptDies(s) \/ HidGivesUp(s)
    \/ WatchdogFires
    \/ AntiSleepClick \/ HidGivesUp("clicker")
    \/ Shutdown \/ Restart

Spec == Init /\ [][Next]_vars

(* Threads run, a timer that is armed fires; a script may hang for ever.    *)
Fairness ==
    /\ WF_vars(Recover) /\ WF_vars(Forget) /\ WF_vars(StartDirectly)
    /\ WF_vars(ReaderStep) /\ WF_vars(WatchdogFires)
    /\ \A a \in Actors : WF_vars(Step(a))

FairSpec == Spec /\ Fairness

-----------------------------------------------------------------------------
(* Properties.                                                              *)

\* finishCurrentTask (main.js:733): the script, the watchdog and the stop commands
\* race to end a run, and one report names it; a second one takes a restart
\* between the report and the clearing of the journal.
OneEndPerRun == \A r \in Runs : ends[r] <= 1 + restarts

\* main.js:527: the run that executes is in the journal until a report ends it, so
\* that the next start of the script reports it, whatever other runs end late; unless
\* storage failed, or the late end is of a run of the same task or had read the
\* journal before.
CurrentIsJournaled == cur \in began \ unjournaled /\ ~terminalSent => journal = cur

\* The same without the exception: refuted by TLC, for runs of one task and of two.
CurrentIsJournaledAlways == cur \in began /\ ~terminalSent => journal = cur

Ended(r) == ends[r] > 0 \/ r \in unnamed

\* README.md:27: a run that was reported as begun is current, in the journal, about
\* to be reported or reported, through any restarts; it is forgotten only when
\* another thread clears gIsRunning under it, and then another task starts, when the
\* thread that was about to report it is taken away, or when its journal is lost.
BegunIsAccounted == \A r \in began :
    journal = r \/ Ending(r) \/ Ended(r) \/ r \in undercut \cup unjournaled

\* README.md:27: a restarted script reports what was interrupted.
RestartLosesNoRun == \A r \in began :
    journal = r \/ Ending(r) \/ Ended(r)

\* README.md:12: the phone's watchdog ends a run whose script hangs, whatever stop
\* commands and local scripts come in between, or the next start of the script does.
BegunRunEnds == \A r \in Runs :
    (r \in began) ~> (Ended(r) \/ r \in undercut \/ (r \in unjournaled /\ restarts > 0))
=============================================================================
