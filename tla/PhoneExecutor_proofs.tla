------------------------- MODULE PhoneExecutor_proofs -------------------------
(***************************************************************************)
(* Proofs about PhoneExecutor, for any runs, tasks and script threads, any *)
(* assignment of runs to tasks and any number of disturbances: the types,  *)
(* one report for the end of a run, the current run is in the journal, and *)
(* no run that was begun is forgotten outside of the named windows.        *)
(***************************************************************************)
EXTENDS PhoneExecutor, TLAPS

-----------------------------------------------------------------------------
(* The inductive invariant.                                                 *)

\* What stages and jobs go together.
Shape ==
    /\ \A a \in Actors :
        /\ at[a].pc = "assign" => at[a].other \in Scripts
        /\ at[a].pc = "unnamed" => at[a].other \in Runs
        /\ at[a].pc \in {"journal", "report"} => a = "reader" /\ at[a].run \in Runs
        /\ at[a].pc \in {"send", "clear", "erase"} => at[a].run \in Runs
        /\ at[a].pc = "erase" =>
              at[a].other \in {None} \cup {q \in Runs : TaskOf[q] = TaskOf[at[a].run]}
        /\ at[a].pc \in {"unnamed", "defer"} => a \in Scripts \cup {"clicker"}
    /\ \A s \in Scripts :
        /\ at[s].pc \in {"run", "unnamed", "defer"} => at[s].job \in {"task", "local"}
        /\ at[s].pc # "journal" /\ at[s].pc # "recover" /\ at[s].pc # "forget"

\* Until main is through with the recovery nothing else runs.
BootIsAlone ==
    ~Booted => cur = None /\ watchdog = None /\ \A a \in Actors \ {"main"} : at[a].pc \in {"idle", "done"}

\* A run whose message has not come has left no trace.
UnreceivedIsUnknown == \A r \in Runs \ received :
    /\ cur # r /\ watchdog # r /\ journal # r /\ ends[r] = 0 /\ r \notin began
    /\ \A a \in Actors : at[a].run # r

\* The right to report the end of r: it is current and not claimed.
Open(r) == cur = r /\ ~terminalSent

Sends(a, r) == at[a].pc = "send" /\ at[a].run = r

\* The right is with the run or with one thread, and is used once.
OneRight == \A r \in Runs :
    /\ Open(r) => ends[r] = 0 /\ \A a \in Actors : ~Sends(a, r)
    /\ \A a \in Actors : Sends(a, r) => ends[r] = 0 /\ \A b \in Actors : Sends(b, r) => a = b

EndsCounted ==
    /\ \A r \in Runs : ends[r] <= 1 + restarts
    /\ At("main", "recover") => \A r \in Runs : ends[r] <= restarts
    /\ At("main", "forget") /\ journal \in Runs => ends[journal] > 0

\* A thread that is through with finishCurrentTask leaves nothing to claim.
Through(place) ==
    place.pc \in {"send", "clear", "erase", "kill"} \/ (place.pc = "cleanup" /\ place.job # "local")

ThroughIsClosed == \A a \in Actors :
    Through(at[a]) => ~Open(at[a].run) \/ at[a].run = None

\* Between executeTask's first lines and the report of the beginning.
Beginning(r) == at["reader"].pc \in {"journal", "report"} /\ at["reader"].run = r

BeginningIsNew == \A r \in Runs : Beginning(r) => cur \in {r, None} /\ r \notin began

JournalFollows ==
    cur # None /\ ~terminalSent /\ ~At("reader", "journal") => journal = cur \/ cur \in unjournaled

\* The report of r is due to the recovery, or lost in one of the named windows.
Excused(r) == r \in undercut \cup unjournaled \/ (~Booted /\ journal = r)

BegunIsOpen == \A r \in Runs :
    r \in began \/ Beginning(r) =>
        (Open(r) /\ running) \/ Ending(r) \/ Ended(r) \/ Excused(r)

ExecutorInv ==
    /\ Shape /\ BootIsAlone /\ UnreceivedIsUnknown /\ OneRight /\ EndsCounted
    /\ ThroughIsClosed /\ BeginningIsNew /\ JournalFollows /\ BegunIsOpen
-----------------------------------------------------------------------------
(* Where a thread is after it has moved.                                    *)

Places == [pc : Pcs, job : Jobs, run : Runs \cup {None}, other : Runs \cup Scripts \cup {None}]

Place(pc, job, run) == [Idle EXCEPT !.pc = pc, !.job = job, !.run = run]

\* Only a has moved; it is at p.
Moved(a, p) == \A b \in Actors : at'[b] = IF b = a THEN p ELSE at[b]

LEMMA IdleIsPlace ==
    /\ Idle \in Places
    /\ Idle.pc = "idle" /\ Idle.job = "none" /\ Idle.run = None /\ Idle.other = None
BY DEF Idle, Places, Pcs, Jobs

LEMMA MovedType ==
    ASSUME TypeOK, NEW a \in Actors, NEW p \in Places, at' = [at EXCEPT ![a] = p]
    PROVE  at' \in [Actors -> Places] /\ Moved(a, p)
BY DEF TypeOK, Moved, Places

LEMMA GotoMoves ==
    ASSUME TypeOK, NEW a \in Actors, NEW pc \in Pcs, Goto(a, pc)
    PROVE  /\ [at[a] EXCEPT !.pc = pc] \in Places
           /\ at' \in [Actors -> Places]
           /\ Moved(a, [at[a] EXCEPT !.pc = pc])
<1>1. at[a] \in Places
  BY DEF TypeOK, Places
<1>2. [at[a] EXCEPT !.pc = pc] \in Places
  BY <1>1 DEF Places
<1>3. at' = [at EXCEPT ![a] = [at[a] EXCEPT !.pc = pc]]
  BY DEF Goto, TypeOK
<1>4. QED
  BY <1>2, <1>3, MovedType

LEMMA PlaceFields ==
    ASSUME NEW job \in Jobs, NEW pc \in Pcs, NEW run \in Runs \cup {None}
    PROVE  /\ Place(pc, job, run) \in Places
           /\ Place(pc, job, run).pc = pc /\ Place(pc, job, run).job = job
           /\ Place(pc, job, run).run = run /\ Place(pc, job, run).other = None
BY DEF Place, Idle, Places

LEMMA BeginMoves ==
    ASSUME TypeOK, NEW a \in Actors, NEW job \in Jobs, NEW pc \in Pcs, NEW run \in Runs \cup {None},
           Begin(a, job, pc, run)
    PROVE  at' \in [Actors -> Places] /\ Moved(a, Place(pc, job, run))
<1>1. at' = [at EXCEPT ![a] = Place(pc, job, run)]
  BY DEF Begin, Place
<1>2. QED
  BY <1>1, PlaceFields, MovedType

LEMMA ReturnMoves ==
    ASSUME TypeOK, NEW a \in Actors, Return(a)
    PROVE  at' \in [Actors -> Places] /\ Moved(a, Idle)
BY IdleIsPlace, MovedType DEF Return

Gone == [Idle EXCEPT !.pc = "done"]

LEMMA GoneIsPlace == Gone \in Places /\ Gone.pc = "done" /\ Gone.run = None
BY DEF Gone, Idle, Places, Pcs, Jobs

LEMMA FinishMoves ==
    ASSUME TypeOK, NEW a \in Actors, Finish(a)
    PROVE  at' \in [Actors -> Places] /\ Moved(a, Gone)
<1>1. at' = [at EXCEPT ![a] = Gone]
  BY DEF Finish, Gone
<1>2. QED
  BY <1>1, GoneIsPlace, MovedType

-----------------------------------------------------------------------------
(* Type correctness.                                                        *)

LEMMA ActorsOf ==
    /\ "main" \in Actors /\ "reader" \in Actors /\ "watchdog" \in Actors
    /\ "clicker" \in Actors /\ "stopper" \in Actors /\ Scripts \subseteq Actors
    /\ Workers \cap Scripts = {}
BY ScriptsAssumption DEF Actors, Workers

LEMMA DisturbType == ASSUME TypeOK, Disturb PROVE disturbances' \in 0..MaxDisturbances
<1>1. disturbances \in 0..MaxDisturbances /\ MaxDisturbances \in Nat
  BY FlagsAssumption DEF TypeOK
<1>2. QED
  BY <1>1 DEF Disturb

\* main goes on after the recovery.
LEMMA LeaveBootMoves ==
    ASSUME TypeOK, NEW before \in 0..MaxDisturbances, LeaveBoot(before)
    PROVE  /\ \E pc \in {"idle", "direct"} : Goto("main", pc)
           /\ disturbances' \in 0..MaxDisturbances
<1>1. Goto("main", "idle") \/ Goto("main", "direct")
  BY Zenon DEF LeaveBoot
<1>2. disturbances' = before \/ (before < MaxDisturbances /\ disturbances' = before + 1)
  BY Zenon DEF LeaveBoot
<1>3. disturbances' \in 0..MaxDisturbances
  BY <1>2, FlagsAssumption
<1>4. QED
  BY <1>1, <1>3

LEMMA BootStep ==
    ASSUME TypeOK, Recover \/ Forget
    PROVE  /\ \/ Recover /\ journal # None /\ Report(journal) /\ Goto("main", "forget")
              \/ \E pc \in {"idle", "direct"} : Goto("main", pc)
           /\ disturbances' \in 0..MaxDisturbances
<1>1. disturbances \in 0..MaxDisturbances /\ MaxDisturbances \in Nat
  BY FlagsAssumption DEF TypeOK
<1>2. \/ Recover /\ journal # None /\ Report(journal) /\ Goto("main", "forget") /\ UNCHANGED disturbances
      \/ LeaveBoot(disturbances)
      \/ disturbances < MaxDisturbances /\ LeaveBoot(disturbances + 1)
  BY Zenon DEF Recover, Forget
<1>3. disturbances < MaxDisturbances => disturbances + 1 \in 0..MaxDisturbances
  BY <1>1
<1>4. QED
  BY <1>1, <1>2, <1>3, LeaveBootMoves

LEMMA ReportType ==
    ASSUME TypeOK, NEW r \in Runs, Report(r)
    PROVE  ends' \in [Runs -> Nat]
BY DEF TypeOK, Report

\* Where a thread is after stopCurrentTask.
LEMMA AfterStopMoves ==
    ASSUME TypeOK, NEW a \in Actors, AfterStop(a)
    PROVE  /\ at' \in [Actors -> Places]
           /\ \E p \in {[at[a] EXCEPT !.pc = "clear running"], Gone, Idle} : Moved(a, p)
<1>1. Goto(a, "clear running") \/ Finish(a) \/ Return(a)
  BY Zenon DEF AfterStop
<1>2. "clear running" \in Pcs
  BY DEF Pcs
<1>3. QED
  BY <1>1, <1>2, GotoMoves, FinishMoves, ReturnMoves

LEMMA AfterFinishPc == ASSUME NEW a PROVE AfterFinish(a) \in {"cleanup", "kill"}
BY DEF AfterFinish

\* Where a thread is that has read the journal, or erased it.
LEMMA ClearMoves ==
    ASSUME TypeOK, NEW a \in Actors, ReadJournal(a) \/ EraseJournal(a)
    PROVE  /\ at' \in [Actors -> Places] /\ disturbances' \in 0..MaxDisturbances
           /\ \/ at'[a].pc \in {"cleanup", "kill"}
              \/ /\ at'[a].pc = "erase"
                 /\ at'[a].other \in {None} \cup {t \in Runs : TaskOf[t] = TaskOf[at[a].run]}
           /\ at'[a].run = at[a].run
           /\ \A b \in Actors : b # a => at'[b] = at[b]
<1> DEFINE p == [at[a] EXCEPT !.pc = AfterFinish(a)]
           q == [at[a] EXCEPT !.pc = AfterFinish(a), !.other = None]
           x == [at[a] EXCEPT !.pc = "erase", !.other = journal]
<1>1. at[a] \in Places /\ at \in [Actors -> Places] /\ journal \in Runs \cup {None}
  BY DEF TypeOK, Places
<1>2. AfterFinish(a) \in Pcs /\ "erase" \in Pcs
  BY AfterFinishPc DEF Pcs
<1>3. /\ p \in Places /\ p.pc \in {"cleanup", "kill"} /\ p.run = at[a].run
      /\ q \in Places /\ q.pc \in {"cleanup", "kill"} /\ q.run = at[a].run
      /\ x \in Places /\ x.pc = "erase" /\ x.run = at[a].run /\ x.other = journal
  BY <1>1, <1>2, AfterFinishPc DEF Places
<1>4. at' = [at EXCEPT ![a] = p] \/ at' = [at EXCEPT ![a] = q]
      \/ (Clears(at[a].run) /\ at' = [at EXCEPT ![a] = x])
  <2>1. CASE ReadJournal(a)
    <3>1. \/ Goto(a, AfterFinish(a))
          \/ /\ Clears(at[a].run)
             /\ at' = [at EXCEPT ![a].pc = "erase", ![a].other = journal]
      BY <2>1, Zenon DEF ReadJournal
    <3>2. CASE Goto(a, AfterFinish(a))
      BY <1>1, <3>2 DEF Goto
    <3>3. CASE Clears(at[a].run) /\ at' = [at EXCEPT ![a].pc = "erase", ![a].other = journal]
      BY <1>1, <3>3
    <3>4. QED
      BY <3>1, <3>2, <3>3
  <2>2. CASE EraseJournal(a)
    <3>1. at' = [at EXCEPT ![a].pc = AfterFinish(a), ![a].other = None]
      BY <2>2, Zenon DEF EraseJournal
    <3>2. QED
      BY <1>1, <3>1
  <2>3. QED
    BY <2>1, <2>2
<1> HIDE DEF p, q, x
<1>5. /\ at' \in [Actors -> Places]
      /\ Moved(a, p) \/ Moved(a, q) \/ (Clears(at[a].run) /\ Moved(a, x))
  BY <1>3, <1>4, MovedType
<1>6. disturbances' \in 0..MaxDisturbances
  <2>1. UNCHANGED disturbances \/ Disturb
    BY Zenon DEF ReadJournal, EraseJournal
  <2>2. QED
    BY <2>1, DisturbType DEF TypeOK
<1>7. QED
  BY <1>3, <1>5, <1>6 DEF Moved, Clears

\* The new thread s, and the one that waits for its id.
LEMMA ExecMoves ==
    ASSUME TypeOK, NEW a \in Actors, Exec(a)
    PROVE  /\ at' \in [Actors -> Places]
           /\ \E s \in Scripts :
                /\ s # a /\ at[s] = Idle
                /\ at'[s].pc = "run" /\ at'[s].run = at[a].run
                /\ at'[s].job = IF At(a, "exec") THEN "task" ELSE "local"
                /\ at'[a].pc = "assign" /\ at'[a].run = at[a].run
                /\ at'[a].job = at[a].job /\ at'[a].other = s
                /\ \A b \in Actors \ {a, s} : at'[b] = at[b]
<1> DEFINE s == CHOOSE x \in Fresh : TRUE
<1>1. s \in Fresh
  BY Zenon DEF Exec
<1>2. at' = [at EXCEPT ![s] = [Idle EXCEPT !.pc = "run", !.run = at[a].run,
                                           !.job = IF At(a, "exec") THEN "task" ELSE "local"],
                       ![a].pc = "assign", ![a].other = s]
  BY Zenon DEF Exec
<1> HIDE DEF s
<1> DEFINE p == [Idle EXCEPT !.pc = "run", !.run = at[a].run,
                             !.job = IF At(a, "exec") THEN "task" ELSE "local"]
           q == [at[a] EXCEPT !.pc = "assign", !.other = s]
<1>3. s \in Scripts /\ at[s] = Idle
  BY <1>1 DEF Fresh
<1>4. At(a, "exec") \/ At(a, "exec local")
  BY DEF Exec
<1>5. s # a
  BY <1>3, <1>4, IdleIsPlace DEF At
<1>6. at[a] \in Places /\ at \in [Actors -> Places]
  BY DEF TypeOK, Places
<1>7. /\ p \in Places /\ p.pc = "run" /\ p.run = at[a].run
      /\ p.job = IF At(a, "exec") THEN "task" ELSE "local"
  BY <1>6 DEF Places, Idle, Pcs, Jobs
<1>8. /\ q \in Places /\ q.pc = "assign" /\ q.other = s
      /\ q.run = at[a].run /\ q.job = at[a].job
  BY <1>3, <1>6 DEF Places, Pcs
<1>9. at' = [at EXCEPT ![s] = p, ![a] = q]
  BY <1>2, <1>3, <1>5, <1>6
<1> HIDE DEF p, q
<1>10. /\ at' \in [Actors -> Places] /\ at'[s] = p /\ at'[a] = q
       /\ \A b \in Actors \ {a, s} : at'[b] = at[b]
  BY <1>3, <1>5, <1>6, <1>7, <1>8, <1>9, ActorsOf
<1>11. QED
  BY <1>3, <1>5, <1>7, <1>8, <1>10

LEMMA DeferMoves ==
    ASSUME TypeOK, NEW a \in Actors, Defer(a)
    PROVE  /\ at' \in [Actors -> Places] /\ a # "stopper" /\ At(a, "defer")
           /\ at'["stopper"].pc = "clear running" /\ at'["stopper"].job = "hid"
           /\ at'["stopper"].run = None
           /\ \/ a = "clicker" /\ at'[a] = Idle
              \/ /\ a # "clicker" /\ at'[a].job = at[a].job /\ at'[a].run = at[a].run
                 /\ at'[a].pc = (IF at[a].job = "task" THEN "claim" ELSE "cleanup")
           /\ \A b \in Actors \ {a, "stopper"} : at'[b] = at[b]
<1> DEFINE p == [Idle EXCEPT !.pc = "clear running", !.job = "hid"]
           q == IF a = "clicker" THEN Idle
                ELSE [at[a] EXCEPT !.other = None,
                                   !.pc = IF at[a].job = "task" THEN "claim" ELSE "cleanup"]
<1>1. at[a] \in Places /\ at \in [Actors -> Places] /\ At(a, "defer")
  BY DEF TypeOK, Places, Defer
<1>2. a # "stopper"
  BY IdleIsPlace DEF Defer, At
<1>3. p \in Places /\ p.pc = "clear running" /\ p.job = "hid" /\ p.run = None
  BY DEF Idle, Places, Pcs, Jobs
<1>4. /\ q \in Places
      /\ \/ a = "clicker" /\ q = Idle
         \/ /\ a # "clicker" /\ q.job = at[a].job /\ q.run = at[a].run
            /\ q.pc = (IF at[a].job = "task" THEN "claim" ELSE "cleanup")
  BY <1>1, IdleIsPlace DEF Places, Pcs
<1>5. at' = [at EXCEPT !["stopper"] = p, ![a] = q]
  BY Zenon DEF Defer
<1> HIDE DEF p, q
<1>6. /\ at' \in [Actors -> Places] /\ at'["stopper"] = p /\ at'[a] = q
      /\ \A b \in Actors \ {a, "stopper"} : at'[b] = at[b]
  BY <1>1, <1>2, <1>3, <1>4, <1>5, ActorsOf
<1>7. QED
  BY <1>1, <1>2, <1>3, <1>4, <1>6

LEMMA GivesUpMoves ==
    ASSUME TypeOK, NEW a \in Actors, HidGivesUp(a)
    PROVE  /\ at' \in [Actors -> Places]
           /\ at'[a].pc = (IF cur = None THEN "defer" ELSE "unnamed")
           /\ at'[a].other = cur /\ at'[a].job = at[a].job /\ at'[a].run = at[a].run
           /\ \A b \in Actors \ {a} : at'[b] = at[b]
<1> DEFINE p == [at[a] EXCEPT !.pc = IF cur = None THEN "defer" ELSE "unnamed", !.other = cur]
<1>1. at[a] \in Places /\ at \in [Actors -> Places] /\ cur \in Runs \cup {None}
  BY DEF TypeOK, Places
<1>2. /\ p \in Places /\ p.pc = (IF cur = None THEN "defer" ELSE "unnamed")
      /\ p.other = cur /\ p.job = at[a].job /\ p.run = at[a].run
  BY <1>1 DEF Places, Pcs
<1>3. at' = [at EXCEPT ![a] = p]
  BY <1>1 DEF HidGivesUp
<1> HIDE DEF p
<1>4. at' \in [Actors -> Places] /\ Moved(a, p)
  BY <1>2, <1>3, MovedType
<1>5. QED
  BY <1>2, <1>4 DEF Moved

LEMMA RestartMoves ==
    ASSUME TypeOK, Restart
    PROVE  /\ at' \in [Actors -> Places]
           /\ at'["main"].pc = "recover" /\ at'["main"].run = None
           /\ \A b \in Actors \ {"main"} : at'[b].pc \in {"idle", "done"} /\ at'[b].run = None
<1>1. [Idle EXCEPT !.pc = "recover"] \in Places
  BY DEF Idle, Places, Pcs, Jobs
<1>2. \A b \in Actors : Booting[b] = IF b = "main" THEN [Idle EXCEPT !.pc = "recover"] ELSE Idle
  BY DEF Booting
<1>3. at' = [a \in Actors |-> IF a \in Scripts /\ at[a] # Idle THEN Gone ELSE Booting[a]]
  BY DEF Restart, Gone
<1>4. at' \in [Actors -> Places]
  BY <1>1, <1>2, <1>3, IdleIsPlace, GoneIsPlace
<1>5. "main" \notin Scripts
  BY ActorsOf DEF Workers
<1>6. [Idle EXCEPT !.pc = "recover"].pc = "recover" /\ [Idle EXCEPT !.pc = "recover"].run = None
  BY DEF Idle
<1>7. QED
  BY <1>2, <1>3, <1>4, <1>5, <1>6, ActorsOf, IdleIsPlace, GoneIsPlace

LEMMA TypeInit == Init => TypeOK
<1> SUFFICES ASSUME Init PROVE TypeOK
  OBVIOUS
<1>1. [Idle EXCEPT !.pc = "recover"] \in Places
  BY DEF Idle, Places, Pcs, Jobs
<1>2. Booting \in [Actors -> Places]
  BY <1>1, IdleIsPlace DEF Booting
<1>3. ends \in [Runs -> Nat] /\ disturbances \in 0..MaxDisturbances /\ restarts \in Nat
  BY FlagsAssumption DEF Init
<1>4. /\ running \in BOOLEAN /\ terminalSent \in BOOLEAN
      /\ localInited \in BOOLEAN /\ blocked \in BOOLEAN
  BY Zenon DEF Init
<1>5. QED
  BY <1>2, <1>3, <1>4 DEF Init, TypeOK, Places

LEMMA TypeStep == TypeOK /\ Shape /\ [Next]_vars => TypeOK'
<1> SUFFICES ASSUME TypeOK, Shape, [Next]_vars PROVE TypeOK'
  OBVIOUS
<1> USE ActorsOf DEF record, globals, history, outcome, counts
<1>1. CASE Recover
  <2>1. ends' \in [Runs -> Nat]
    <3>1. (journal # None /\ Report(journal)) \/ UNCHANGED ends
      BY <1>1, Zenon DEF Recover
    <3>2. QED
      BY <3>1, ReportType DEF TypeOK
  <2>2. at' \in [Actors -> Places] /\ disturbances' \in 0..MaxDisturbances
    BY <1>1, BootStep, GotoMoves DEF Pcs
  <2>3. unjournaled' \subseteq Runs
    BY <1>1 DEF Recover, TypeOK
  <2>4. QED
    BY <1>1, <2>1, <2>2, <2>3 DEF Recover, TypeOK, Places
<1>2. CASE Forget
  <2>1. at' \in [Actors -> Places] /\ disturbances' \in 0..MaxDisturbances
    BY <1>2, BootStep, GotoMoves DEF Pcs
  <2>2. journal' \in Runs \cup {None}
    BY <1>2 DEF Forget, TypeOK
  <2>3. QED
    BY <1>2, <2>1, <2>2 DEF Forget, TypeOK, Places
<1>3. CASE StartDirectly
  <2>1. Begin("main", "local", "init", None) \/ Return("main")
    BY <1>3, Zenon DEF StartDirectly
  <2>2. at' \in [Actors -> Places]
    BY <2>1, BeginMoves, ReturnMoves DEF Pcs, Jobs
  <2>3. QED
    BY <1>3, <2>2 DEF StartDirectly, TypeOK, Places
<1>4. ASSUME NEW r \in Runs, ExecuteTask(r) PROVE TypeOK'
  <2>1. CASE Accepts
    <3>1. at' \in [Actors -> Places]
      BY <1>4, <2>1, BeginMoves DEF ExecuteTask, Pcs, Jobs
    <3>2. QED
      BY <1>4, <2>1, <3>1 DEF ExecuteTask, TypeOK, Places
  <2>2. CASE ~Accepts
    <3>1. ends' \in [Runs -> Nat]
      BY <1>4, <2>2, ReportType DEF ExecuteTask
    <3>2. QED
      BY <1>4, <2>2, <3>1 DEF ExecuteTask, TypeOK
  <2>3. QED
    BY <2>1, <2>2
<1>5. ASSUME NEW r \in Runs, CancelTask(r) PROVE TypeOK'
  <2>1. at' \in [Actors -> Places] /\ disturbances' \in 0..MaxDisturbances
    BY <1>5, BeginMoves, DisturbType DEF CancelTask, Pcs, Jobs
  <2>2. QED
    BY <1>5, <2>1 DEF CancelTask, TypeOK, Places
<1>6. CASE StopCommand \/ Shutdown
  <2>1. disturbances' \in 0..MaxDisturbances
    BY <1>6, DisturbType DEF StopCommand, Shutdown
  <2>2. (IF cur = None THEN "kill" ELSE "claim") \in Pcs /\ cur \in Runs \cup {None}
    BY DEF Pcs, TypeOK
  <2>3. at' \in [Actors -> Places]
    BY <1>6, <2>2, BeginMoves DEF StopCommand, Shutdown, Jobs
  <2>4. QED
    BY <1>6, <2>1, <2>3 DEF StopCommand, Shutdown, TypeOK, Places
<1>7. CASE RunLocal \/ StopLocal \/ AntiSleepClick
  <2>1. disturbances' \in 0..MaxDisturbances
    BY <1>7, DisturbType DEF RunLocal, StopLocal, AntiSleepClick
  <2>2. at' \in [Actors -> Places]
    <3>1. "init" \in Pcs /\ "clear running" \in Pcs /\ "run" \in Pcs
      BY DEF Pcs
    <3>2. "local" \in Jobs /\ "none" \in Jobs /\ "click" \in Jobs
      BY DEF Jobs
    <3>3. \/ Begin("reader", "local", "init", None)
          \/ Begin("reader", "none", "clear running", None)
          \/ Begin("clicker", "click", "run", None)
      BY <1>7 DEF RunLocal, StopLocal, AntiSleepClick
    <3>4. QED
      BY <3>1, <3>2, <3>3, BeginMoves
  <2>3. QED
    BY <1>7, <2>1, <2>2 DEF RunLocal, StopLocal, AntiSleepClick, TypeOK, Places
<1>8. CASE SaveJournal
  <2>1. at' \in [Actors -> Places] /\ at["reader"].run \in Runs
    BY <1>8, GotoMoves DEF SaveJournal, Shape, At, Pcs
  <2>2. /\ journal' \in Runs \cup {None} /\ unjournaled' \subseteq Runs
        /\ disturbances' \in 0..MaxDisturbances
    BY <1>8, DisturbType DEF SaveJournal, TypeOK, Shape, At
  <2>3. QED
    BY <1>8, <2>1, <2>2 DEF SaveJournal, TypeOK, Places
<1>9. CASE ReportBegin
  <2>1. at' \in [Actors -> Places] /\ at["reader"].run \in Runs
    BY <1>9, GotoMoves DEF ReportBegin, Shape, At, Pcs
  <2>2. QED
    BY <1>9, <2>1 DEF ReportBegin, TypeOK, Places
<1>10. ASSUME NEW a \in Actors, Exec(a) PROVE TypeOK'
  <2>1. at' \in [Actors -> Places]
    BY <1>10, ExecMoves
  <2>2. QED
    BY <1>10, <2>1 DEF Exec, TypeOK, Places
<1>11. ASSUME NEW a \in Actors, AssignThread(a) PROVE TypeOK'
  <2>1. at' \in [Actors -> Places] /\ business' \in Scripts
    BY <1>11, ReturnMoves DEF AssignThread, Shape, At
  <2>2. QED
    BY <1>11, <2>1 DEF AssignThread, TypeOK, Places
<1>12. ASSUME NEW a \in Actors, Claim(a) PROVE TypeOK'
  <2>1. terminalSent' \in BOOLEAN
    BY <1>12, Zenon DEF Claim, TypeOK
  <2>2. \/ \E pc \in {"send", AfterFinish(a)} : Goto(a, pc)
        \/ Return(a)
    BY <1>12, Zenon DEF Claim
  <2>3. at' \in [Actors -> Places]
    BY <2>2, AfterFinishPc, GotoMoves, ReturnMoves DEF Pcs
  <2>4. QED
    BY <1>12, <2>1, <2>3 DEF Claim, TypeOK, Places
<1>13. ASSUME NEW a \in Actors, SendEnd(a) PROVE TypeOK'
  <2>1. at' \in [Actors -> Places]
    BY <1>13, GotoMoves DEF SendEnd, Pcs
  <2>2. ends' \in [Runs -> Nat]
    BY <1>13, ReportType DEF SendEnd, Shape, At
  <2>3. QED
    BY <1>13, <2>1, <2>2 DEF SendEnd, TypeOK, Places
<1>14. ASSUME NEW a \in Actors, ReadJournal(a) \/ EraseJournal(a) PROVE TypeOK'
  <2>1. at' \in [Actors -> Places] /\ disturbances' \in 0..MaxDisturbances
    BY <1>14, ClearMoves
  <2>2. journal' \in Runs \cup {None} /\ unjournaled' \subseteq Runs
    BY <1>14 DEF ReadJournal, EraseJournal, TypeOK
  <2>3. QED
    BY <1>14, <2>1, <2>2 DEF ReadJournal, EraseJournal, TypeOK, Places
<1>15. ASSUME NEW a \in Actors, Kill(a) PROVE TypeOK'
  <2>1. at' \in [Actors -> Places]
    BY <1>15, GotoMoves DEF Kill, Pcs
  <2>2. QED
    BY <1>15, <2>1 DEF Kill, TypeOK, Places
<1>16. ASSUME NEW a \in Actors, Cleanup(a) PROVE TypeOK'
  <2>1. at' \in [Actors -> Places]
    BY <1>16, AfterStopMoves DEF Cleanup
  <2>2. /\ running' \in BOOLEAN /\ business' \in Scripts \cup {NoScript}
        /\ cur' \in Runs \cup {None} /\ watchdog' \in Runs \cup {None}
        /\ undercut' \subseteq Runs
    <3>1. running' = FALSE \/ UNCHANGED running
      BY <1>16, Zenon DEF Cleanup
    <3>2. running' \in BOOLEAN
      BY <3>1, Zenon DEF TypeOK
    <3>3. QED
      BY <1>16, <3>2 DEF Cleanup, TypeOK
  <2>3. QED
    BY <1>16, <2>1, <2>2 DEF Cleanup, TypeOK, Places
<1>17. ASSUME NEW a \in Actors, InitLocal(a) PROVE TypeOK'
  <2>1. localInited' \in BOOLEAN
    BY <1>17, Zenon DEF InitLocal, TypeOK
  <2>2. Goto(a, "set") \/ Return(a)
    BY <1>17, Zenon DEF InitLocal
  <2>3. at' \in [Actors -> Places]
    BY <2>2, GotoMoves, ReturnMoves DEF Pcs
  <2>4. QED
    BY <1>17, <2>1, <2>3 DEF InitLocal, TypeOK, Places
<1>18. ASSUME NEW a \in Actors, SetRunning(a) PROVE TypeOK'
  <2>1. at' \in [Actors -> Places]
    BY <1>18, GotoMoves DEF SetRunning, Pcs
  <2>2. QED
    BY <1>18, <2>1 DEF SetRunning, TypeOK, Places
<1>19. ASSUME NEW a \in Actors, ClearRunning(a) PROVE TypeOK'
  <2>1. at' \in [Actors -> Places]
    BY <1>19, GotoMoves DEF ClearRunning, Pcs
  <2>2. QED
    BY <1>19, <2>1 DEF ClearRunning, TypeOK, Places
<1>20. ASSUME NEW a \in Actors, KillLocal(a) PROVE TypeOK'
  <2>1. Finish(a) \/ Return(a)
    BY <1>20, Zenon DEF KillLocal
  <2>2. at' \in [Actors -> Places]
    BY <2>1, FinishMoves, ReturnMoves
  <2>3. QED
    BY <1>20, <2>2 DEF KillLocal, TypeOK, Places
<1>21. ASSUME NEW a \in Actors, SendUnnamed(a) PROVE TypeOK'
  <2>1. at' \in [Actors -> Places] /\ at[a].other \in Runs
    BY <1>21, GotoMoves DEF SendUnnamed, Shape, At, Pcs
  <2>2. QED
    BY <1>21, <2>1 DEF SendUnnamed, TypeOK, Places
<1>22. ASSUME NEW a \in Actors, Defer(a) PROVE TypeOK'
  <2>1. at' \in [Actors -> Places]
    BY <1>22, DeferMoves
  <2>2. QED
    BY <1>22, <2>1 DEF Defer, TypeOK, Places
<1>23. ASSUME NEW s \in Scripts, ScriptEnds(s) PROVE TypeOK'
  <2>1. Goto(s, "claim") \/ Goto(s, "cleanup")
    BY <1>23, Zenon DEF ScriptEnds
  <2>2. at' \in [Actors -> Places]
    BY <2>1, GotoMoves DEF Pcs
  <2>3. QED
    BY <1>23, <2>2 DEF ScriptEnds, TypeOK, Places
<1>24. ASSUME NEW s \in Scripts, ScriptDies(s) PROVE TypeOK'
  <2>1. at' \in [Actors -> Places]
    BY <1>24, FinishMoves DEF ScriptDies
  <2>2. QED
    BY <1>24, <2>1 DEF ScriptDies, TypeOK, Places
<1>25. ASSUME NEW a \in Actors, HidGivesUp(a) PROVE TypeOK'
  <2>1. at' \in [Actors -> Places]
    BY <1>25, GivesUpMoves
  <2>2. disturbances' \in 0..MaxDisturbances
    <3>1. UNCHANGED disturbances \/ Disturb
      BY <1>25, Zenon DEF HidGivesUp
    <3>2. QED
      BY <3>1, DisturbType DEF TypeOK
  <2>3. QED
    BY <1>25, <2>1, <2>2 DEF HidGivesUp, TypeOK, Places
<1>26. CASE WatchdogFires
  <2>1. at' \in [Actors -> Places]
    <3>1. /\ "timeout" \in Jobs /\ "claim" \in Pcs /\ watchdog \in Runs \cup {None}
          /\ Begin("watchdog", "timeout", "claim", watchdog)
      BY <1>26 DEF WatchdogFires, Pcs, Jobs, TypeOK
    <3>2. QED
      BY <3>1, BeginMoves
  <2>2. QED
    BY <1>26, <2>1 DEF WatchdogFires, TypeOK, Places
<1>27. CASE Restart
  <2>1. at' \in [Actors -> Places]
    BY <1>27, RestartMoves
  <2>2. disturbances' \in 0..MaxDisturbances /\ restarts' \in Nat
    BY <1>27, DisturbType DEF Restart, TypeOK
  <2>3. QED
    BY <1>27, <2>1, <2>2 DEF Restart, TypeOK, Places
<1>28. CASE UNCHANGED vars
  BY <1>28 DEF vars, TypeOK
<1>29. QED
  BY <1>1, <1>2, <1>3, <1>4, <1>5, <1>6, <1>7, <1>8, <1>9, <1>10, <1>11, <1>12, <1>13, <1>14,
     <1>15, <1>16, <1>17, <1>18, <1>19, <1>20, <1>21, <1>22, <1>23, <1>24, <1>25, <1>26, <1>27,
     <1>28, Zenon DEF Next, Step, ReaderStep

-----------------------------------------------------------------------------
(* Most steps neither begin a run nor report one: they keep the invariant   *)
(* for the same reasons.                                                    *)

Telling == {"send", "clear", "erase", "unnamed", "journal", "report", "recover", "forget"}

\* How a thread moves in such a step.
QuietMove(a) ==
    /\ at[a].pc \notin Telling /\ at'[a].pc \notin Telling
    /\ \/ at'[a].run = None \/ at'[a].run = cur \/ at'[a].run = watchdog
       \/ \E b \in Actors : at'[a].run = at[b].run
    /\ Through(at'[a]) => ~Open(at'[a].run) \/ at'[a].run = None
    /\ at'[a].pc = "assign" => at'[a].other \in Scripts
    /\ at'[a].pc = "defer" => a \in Scripts \cup {"clicker"}
    /\ a \in Scripts /\ at'[a].pc \in {"run", "defer"} => at'[a].job \in {"task", "local"}

QuietStep ==
    /\ Booted
    /\ \A a \in Actors : at'[a] = at[a] \/ QuietMove(a)
    /\ cur' = cur \/ (cur' = None /\ terminalSent)
    /\ watchdog' = watchdog \/ watchdog' = None
    /\ running /\ cur # None /\ ~terminalSent => running' \/ cur \in undercut'
    /\ undercut \subseteq undercut'
    /\ UNCHANGED <<terminalSent, journal, unjournaled, received, began, ends, unnamed, restarts>>

\* Once the script has booted what excuses a run stays.
LEMMA ExcuseStays ==
    ASSUME Booted, undercut \subseteq undercut', unjournaled \subseteq unjournaled'
    PROVE  \A r : (Excused(r) => Excused(r)') /\ (r \in undercut' => Excused(r)')
BY DEF Excused

LEMMA QuietKeeps == ASSUME TypeOK, ExecutorInv, QuietStep PROVE ExecutorInv'
<1> USE ActorsOf DEF Telling
<1>1. Shape /\ BootIsAlone /\ UnreceivedIsUnknown /\ OneRight /\ EndsCounted
  BY DEF ExecutorInv
<1>2. ThroughIsClosed /\ BeginningIsNew /\ JournalFollows /\ BegunIsOpen
  BY DEF ExecutorInv
<1>3. \A a \in Actors : at'[a].pc \in Telling \/ at[a].pc \in Telling => at'[a] = at[a]
  BY DEF QuietStep, QuietMove
<1>4. UNCHANGED <<terminalSent, journal, unjournaled, received, began, ends, unnamed, restarts>>
  BY DEF QuietStep
<1>5. None \notin Runs
  BY RunsAssumption
<1>6. \A r \in Runs : Open(r)' <=> Open(r)
  BY <1>4, <1>5 DEF QuietStep, Open
<1>7. Booted'
  BY <1>3 DEF QuietStep, Booted
<1>8. Shape'
  BY <1>1, <1>3 DEF QuietStep, QuietMove, Shape
<1>9. BootIsAlone'
  BY <1>7 DEF BootIsAlone
<1>10. UnreceivedIsUnknown'
  BY <1>1, <1>4, <1>5 DEF QuietStep, QuietMove, UnreceivedIsUnknown
<1>11. OneRight'
  BY <1>1, <1>3, <1>4, <1>6 DEF OneRight, Sends
<1>12. EndsCounted'
  BY <1>1, <1>4, <1>7 DEF EndsCounted, Booted, At
<1>13. ThroughIsClosed'
  <2> SUFFICES ASSUME NEW a \in Actors, Through(at'[a]), at'[a].run # None
               PROVE  ~(cur' = at'[a].run /\ ~terminalSent')
    BY DEF ThroughIsClosed, Open
  <2>1. ~Open(at'[a].run)
    BY <1>2, <1>3 DEF ThroughIsClosed, QuietStep, QuietMove
  <2>2. QED
    BY <2>1, <1>4 DEF QuietStep, Open
<1>14. BeginningIsNew'
  BY <1>2, <1>3, <1>4 DEF BeginningIsNew, Beginning, QuietStep
<1>15. JournalFollows'
  BY <1>2, <1>3, <1>4 DEF JournalFollows, At, QuietStep
<1>16. BegunIsOpen'
  <2> SUFFICES ASSUME NEW r \in Runs, r \in began' \/ Beginning(r)'
               PROVE  (Open(r) /\ running)' \/ Ending(r)' \/ Ended(r)' \/ Excused(r)'
    BY DEF BegunIsOpen
  <2>1. r \in began \/ Beginning(r)
    BY <1>3, <1>4 DEF Beginning
  <2>2. (Open(r) /\ running) \/ Ending(r) \/ Ended(r) \/ Excused(r)
    BY <2>1, <1>2, <1>4 DEF BegunIsOpen
  <2>3. CASE Open(r) /\ running
    <3>1. Open(r)'
      BY <1>6, <2>3
    <3>2. running' \/ Excused(r)'
      BY <2>3, <1>5 DEF QuietStep, Open, Excused
    <3>3. QED
      BY <3>1, <3>2
  <2>4. CASE Ending(r)
    <3>1. PICK a \in Actors : ReportedBy(a, r)
      BY <2>4 DEF Ending
    <3>2. at'[a] = at[a]
      BY <3>1, <1>3 DEF ReportedBy, At
    <3>3. ReportedBy(a, r)'
      BY <3>1, <3>2 DEF ReportedBy, At
    <3>4. QED
      BY <3>3 DEF Ending
  <2>5. CASE Ended(r)
    BY <2>5, <1>4 DEF Ended
  <2>6. CASE Excused(r)
    BY <2>6, ExcuseStays DEF QuietStep
  <2>7. QED
    BY <2>2, <2>3, <2>4, <2>5, <2>6
<1>17. QED
  BY <1>8, <1>9, <1>10, <1>11, <1>12, <1>13, <1>14, <1>15, <1>16 DEF ExecutorInv

\* A thread that is under way has seen the recovery end.
LEMMA UnderWay ==
    ASSUME BootIsAlone, NEW a \in Actors, at[a].pc \notin {"idle", "done", "recover", "forget"}
    PROVE  Booted
BY DEF BootIsAlone, Booted

\* Threads a to which p is where a moves: the step is quiet if the move is.
LEMMA OneQuietMove ==
    ASSUME Booted, NEW a \in Actors, NEW p, Moved(a, p), at'[a] = p => QuietMove(a),
           cur' = cur \/ (cur' = None /\ terminalSent),
           watchdog' = watchdog \/ watchdog' = None,
           running /\ cur # None /\ ~terminalSent => running' \/ cur \in undercut',
           undercut \subseteq undercut',
           UNCHANGED <<terminalSent, journal, unjournaled, received, began, ends, unnamed, restarts>>
    PROVE  QuietStep
BY Zenon DEF QuietStep, Moved

LEMMA QuietSteps ==
    ASSUME TypeOK, ExecutorInv,
           \/ StartDirectly \/ StopCommand \/ RunLocal \/ StopLocal
           \/ WatchdogFires \/ AntiSleepClick \/ Shutdown
           \/ \E r \in Runs : CancelTask(r)
           \/ \E s \in Scripts : ScriptEnds(s)
           \/ \E a \in Actors : \/ Exec(a) \/ AssignThread(a) \/ Kill(a) \/ Cleanup(a)
                                \/ InitLocal(a) \/ SetRunning(a) \/ ClearRunning(a)
                                \/ KillLocal(a) \/ Defer(a)
                                \/ Claim(a) /\ ~Claims(at[a].run)
    PROVE  QuietStep
<1> USE ActorsOf, IdleIsPlace DEF record, globals, history, outcome, counts, Telling, Through
<1>1. Shape /\ BootIsAlone /\ ThroughIsClosed
  BY DEF ExecutorInv
<1>2. \A a \in Actors : at[a] \in Places
  BY DEF TypeOK, Places
<1>3. CASE StartDirectly
  <2>1. at["main"].pc = "direct" /\ Booted
    BY <1>3 DEF StartDirectly, At, Booted
  <2>2. PICK p \in {Place("init", "local", None), Idle} : Moved("main", p)
    BY <1>3, BeginMoves, ReturnMoves DEF StartDirectly, Pcs, Jobs
  <2>3. p.pc \in {"init", "idle"} /\ p.run = None
    BY <2>2 DEF Place, Idle
  <2>4. at'["main"] = p => QuietMove("main")
    BY <2>1, <2>3 DEF QuietMove
  <2>5. QED
    BY <1>3, <2>1, <2>2, <2>4, OneQuietMove DEF StartDirectly
<1>4. CASE StopCommand
  <2> DEFINE p == Place(IF cur = None THEN "kill" ELSE "claim", "stop", cur)
  <2>1. (IF cur = None THEN "kill" ELSE "claim") \in Pcs /\ "stop" \in Jobs /\ cur \in Runs \cup {None}
    BY DEF Pcs, Jobs, TypeOK
  <2>2. Moved("reader", p)
    BY <1>4, <2>1, BeginMoves DEF StopCommand
  <2>3. p.pc = (IF cur = None THEN "kill" ELSE "claim") /\ p.run = cur
    BY <2>1, PlaceFields
  <2> HIDE DEF p
  <2>4. at'["reader"] = p => QuietMove("reader")
    BY <1>4, <2>3 DEF QuietMove, StopCommand, At
  <2>5. QED
    BY <1>4, <2>2, <2>4, OneQuietMove DEF StopCommand
<1>5. CASE Shutdown
  <2> DEFINE p == Place(IF cur = None THEN "kill" ELSE "claim", "shutdown", cur)
  <2>1. (IF cur = None THEN "kill" ELSE "claim") \in Pcs /\ "shutdown" \in Jobs /\ cur \in Runs \cup {None}
    BY DEF Pcs, Jobs, TypeOK
  <2>2. Moved("stopper", p)
    BY <1>5, <2>1, BeginMoves DEF Shutdown
  <2>3. p.pc = (IF cur = None THEN "kill" ELSE "claim") /\ p.run = cur
    BY <2>1, PlaceFields
  <2> HIDE DEF p
  <2>4. at'["stopper"] = p => QuietMove("stopper")
    BY <1>5, <2>3 DEF QuietMove, Shutdown, At
  <2>5. QED
    BY <1>5, <2>2, <2>4, OneQuietMove DEF Shutdown
<1>6. ASSUME NEW r \in Runs, CancelTask(r) PROVE QuietStep
  <2>1. Moved("reader", Place("claim", "cancel", r))
    BY <1>6, BeginMoves DEF CancelTask, Pcs, Jobs
  <2>2. Place("claim", "cancel", r).pc = "claim" /\ Place("claim", "cancel", r).run = r
    BY DEF Place, Idle
  <2>3. at'["reader"] = Place("claim", "cancel", r) => QuietMove("reader")
    BY <1>6, <2>2 DEF QuietMove, CancelTask, At
  <2>4. QED
    BY <1>6, <2>1, <2>3, OneQuietMove DEF CancelTask
<1>7. CASE RunLocal
  <2>1. Moved("reader", Place("init", "local", None))
    BY <1>7, BeginMoves DEF RunLocal, Pcs, Jobs
  <2>2. Place("init", "local", None).pc = "init" /\ Place("init", "local", None).run = None
    BY DEF Place, Idle
  <2>3. at'["reader"] = Place("init", "local", None) => QuietMove("reader")
    BY <1>7, <2>2 DEF QuietMove, RunLocal, At
  <2>4. QED
    BY <1>7, <2>1, <2>3, OneQuietMove DEF RunLocal
<1>8. CASE StopLocal
  <2>1. Moved("reader", Place("clear running", "none", None))
    BY <1>8, BeginMoves DEF StopLocal, Pcs, Jobs
  <2>2. /\ Place("clear running", "none", None).pc = "clear running"
        /\ Place("clear running", "none", None).run = None
    BY DEF Place, Idle
  <2>3. at'["reader"] = Place("clear running", "none", None) => QuietMove("reader")
    BY <1>8, <2>2 DEF QuietMove, StopLocal, At
  <2>4. QED
    BY <1>8, <2>1, <2>3, OneQuietMove DEF StopLocal
<1>9. CASE AntiSleepClick
  <2>1. Moved("clicker", Place("run", "click", None))
    BY <1>9, BeginMoves DEF AntiSleepClick, Pcs, Jobs
  <2>2. Place("run", "click", None).pc = "run" /\ Place("run", "click", None).run = None
    BY DEF Place, Idle
  <2>3. at'["clicker"] = Place("run", "click", None) => QuietMove("clicker")
    BY <1>9, <2>2 DEF QuietMove, AntiSleepClick, At, Workers
  <2>4. QED
    BY <1>9, <2>1, <2>3, OneQuietMove DEF AntiSleepClick
<1>10. CASE WatchdogFires
  <2>1. watchdog \in Runs \cup {None} /\ "claim" \in Pcs /\ "timeout" \in Jobs
    BY DEF TypeOK, Pcs, Jobs
  <2>2. Moved("watchdog", Place("claim", "timeout", watchdog))
    BY <1>10, <2>1, BeginMoves DEF WatchdogFires
  <2>3. /\ Place("claim", "timeout", watchdog).pc = "claim"
        /\ Place("claim", "timeout", watchdog).run = watchdog
    BY <2>1, PlaceFields
  <2>4. at'["watchdog"] = Place("claim", "timeout", watchdog) => QuietMove("watchdog")
    BY <1>10, <2>3 DEF QuietMove, WatchdogFires, At
  <2>5. Booted
    BY <1>1, <1>10 DEF WatchdogFires, BootIsAlone
  <2>6. QED
    BY <1>10, <2>2, <2>4, <2>5, OneQuietMove DEF WatchdogFires
<1>11. ASSUME NEW s \in Scripts, ScriptEnds(s) PROVE QuietStep
  <2> DEFINE pc == IF at[s].job = "task" THEN "claim" ELSE "cleanup"
             p == [at[s] EXCEPT !.pc = pc]
  <2>1. at[s].pc = "run" /\ at[s].job \in {"task", "local"} /\ Booted /\ pc \in Pcs
    BY <1>1, <1>11, UnderWay DEF ScriptEnds, Shape, At, Pcs
  <2>2. Moved(s, p)
    BY <1>11, <2>1, GotoMoves DEF ScriptEnds
  <2>3. p.pc = pc /\ p.job = at[s].job /\ p.run = at[s].run
    BY <1>2 DEF Places
  <2>4. at'[s] = p => QuietMove(s)
    BY <2>1, <2>3 DEF QuietMove
  <2> HIDE DEF p
  <2>5. QED
    BY <1>11, <2>1, <2>2, <2>4, OneQuietMove DEF ScriptEnds
<1>12. ASSUME NEW a \in Actors, Exec(a) PROVE QuietStep
  <2>1. at[a].pc \in {"exec", "exec local"} /\ Booted
    BY <1>1, <1>12, UnderWay DEF Exec, At
  <2>2. PICK s \in Scripts :
          /\ s # a /\ at[s] = Idle
          /\ at'[s].pc = "run" /\ at'[s].run = at[a].run
          /\ at'[s].job = IF At(a, "exec") THEN "task" ELSE "local"
          /\ at'[a].pc = "assign" /\ at'[a].run = at[a].run
          /\ at'[a].job = at[a].job /\ at'[a].other = s
          /\ \A b \in Actors \ {a, s} : at'[b] = at[b]
    BY <1>12, ExecMoves
  <2>3. QuietMove(a)
    BY <2>1, <2>2 DEF QuietMove
  <2>4. QuietMove(s)
    BY <2>1, <2>2 DEF QuietMove
  <2>5. QED
    BY <1>12, <2>1, <2>2, <2>3, <2>4 DEF Exec, QuietStep
<1>13. ASSUME NEW a \in Actors, AssignThread(a) \/ KillLocal(a) PROVE QuietStep
  <2>1. at[a].pc \in {"assign", "kill local"} /\ Booted
    BY <1>1, <1>13, UnderWay DEF AssignThread, KillLocal, At
  <2>2. PICK p \in {Gone, Idle} : Moved(a, p)
    BY <1>13, FinishMoves, ReturnMoves DEF AssignThread, KillLocal
  <2>3. at'[a] = p => QuietMove(a)
    BY <2>1, <2>2, GoneIsPlace DEF QuietMove
  <2>4. UNCHANGED <<running, cur, watchdog, terminalSent, record, outcome, restarts>>
    BY <1>13 DEF AssignThread, KillLocal
  <2>5. QED
    BY <2>1, <2>2, <2>3, <2>4, OneQuietMove
<1>14. ASSUME NEW a \in Actors, Kill(a) PROVE QuietStep
  <2> DEFINE p == [at[a] EXCEPT !.pc = "cleanup"]
  <2>1. at[a].pc = "kill" /\ Booted /\ "cleanup" \in Pcs
    BY <1>1, <1>14, UnderWay DEF Kill, At, Pcs
  <2>2. Moved(a, p)
    BY <1>14, <2>1, GotoMoves DEF Kill
  <2>3. p.pc = "cleanup" /\ p.job = at[a].job /\ p.run = at[a].run
    BY <1>2 DEF Places
  <2>4. at'[a] = p => QuietMove(a)
    BY <1>1, <2>1, <2>3 DEF QuietMove, ThroughIsClosed
  <2> HIDE DEF p
  <2>5. QED
    BY <1>14, <2>1, <2>2, <2>4, OneQuietMove DEF Kill
<1>15. ASSUME NEW a \in Actors, Cleanup(a) PROVE QuietStep
  <2>1. at[a].pc = "cleanup" /\ Booted
    BY <1>1, <1>15, UnderWay DEF Cleanup, At
  <2>2. PICK p \in {[at[a] EXCEPT !.pc = "clear running"], Gone, Idle} : Moved(a, p)
    BY <1>15, AfterStopMoves DEF Cleanup
  <2>3. p.pc \in {"clear running", "done", "idle"} /\ p.run \in {at[a].run, None}
    BY <1>2, <2>2, GoneIsPlace DEF Places
  <2>4. at'[a] = p => QuietMove(a)
    BY <2>1, <2>3 DEF QuietMove
  <2>5. CASE at[a].job = "local"
    <3>1. cur \in Runs \cup {None} /\ cur' = cur /\ (cur # None => cur \in undercut')
      BY <1>15, <2>5 DEF Cleanup, TypeOK
    <3>2. QED
      BY <1>15, <2>1, <2>2, <2>4, <2>5, <3>1, OneQuietMove DEF Cleanup
  <2>6. CASE at[a].job # "local" /\ IsCurrent(at[a].run)
    <3>1. terminalSent
      BY <1>1, <2>1, <2>6 DEF ThroughIsClosed, IsCurrent, Open
    <3>2. cur' = None /\ watchdog' = None /\ undercut' = undercut
      BY <1>15, <2>6 DEF Cleanup
    <3>3. QED
      BY <1>15, <2>1, <2>2, <2>4, <3>1, <3>2, OneQuietMove DEF Cleanup
  <2>7. CASE at[a].job # "local" /\ ~IsCurrent(at[a].run)
    <3>1. UNCHANGED <<running, cur, watchdog, undercut>>
      BY <1>15, <2>7, Zenon DEF Cleanup
    <3>2. QED
      BY <1>15, <2>1, <2>2, <2>4, <3>1, OneQuietMove DEF Cleanup
  <2>8. QED
    BY <2>5, <2>6, <2>7
<1>16. ASSUME NEW a \in Actors, InitLocal(a) PROVE QuietStep
  <2> DEFINE q == [at[a] EXCEPT !.pc = "set"]
  <2>1. at[a].pc = "init" /\ Booted /\ "set" \in Pcs
    BY <1>1, <1>16, UnderWay DEF InitLocal, At, Pcs
  <2>2. Goto(a, "set") \/ Return(a)
    BY <1>16, Zenon DEF InitLocal
  <2>3. PICK p \in {q, Idle} : Moved(a, p)
    BY <2>1, <2>2, GotoMoves, ReturnMoves
  <2>4. p.pc \in {"set", "idle"} /\ p.run \in {at[a].run, None}
    BY <1>2, <2>3 DEF Places
  <2>5. at'[a] = p => QuietMove(a)
    BY <2>1, <2>4 DEF QuietMove
  <2>6. QED
    BY <1>16, <2>1, <2>3, <2>5, OneQuietMove DEF InitLocal
<1>17. ASSUME NEW a \in Actors, SetRunning(a) PROVE QuietStep
  <2> DEFINE p == [at[a] EXCEPT !.pc = "exec local"]
  <2>1. at[a].pc = "set" /\ Booted /\ "exec local" \in Pcs
    BY <1>1, <1>17, UnderWay DEF SetRunning, At, Pcs
  <2>2. Moved(a, p)
    BY <1>17, <2>1, GotoMoves DEF SetRunning
  <2>3. p.pc = "exec local" /\ p.run = at[a].run
    BY <1>2 DEF Places
  <2>4. at'[a] = p => QuietMove(a)
    BY <2>1, <2>3 DEF QuietMove
  <2> HIDE DEF p
  <2>5. QED
    BY <1>17, <2>1, <2>2, <2>4, OneQuietMove DEF SetRunning
<1>18. ASSUME NEW a \in Actors, ClearRunning(a) PROVE QuietStep
  <2> DEFINE p == [at[a] EXCEPT !.pc = "kill local"]
  <2>1. at[a].pc = "clear running" /\ Booted /\ "kill local" \in Pcs
    BY <1>1, <1>18, UnderWay DEF ClearRunning, At, Pcs
  <2>2. Moved(a, p)
    BY <1>18, <2>1, GotoMoves DEF ClearRunning
  <2>3. p.pc = "kill local" /\ p.run = at[a].run
    BY <1>2 DEF Places
  <2>4. at'[a] = p => QuietMove(a)
    BY <2>1, <2>3 DEF QuietMove
  <2> HIDE DEF p
  <2>5. QED
    BY <1>18, <2>1, <2>2, <2>4, OneQuietMove DEF ClearRunning
<1>19. ASSUME NEW a \in Actors, Defer(a) PROVE QuietStep
  <2>1. at[a].pc = "defer" /\ Booted /\ a # "stopper" /\ at["stopper"].pc = "idle"
    BY <1>1, <1>19, UnderWay DEF Defer, At
  <2>2. /\ at'["stopper"].pc = "clear running" /\ at'["stopper"].run = None
        /\ \/ a = "clicker" /\ at'[a] = Idle
           \/ /\ a # "clicker" /\ at'[a].job = at[a].job /\ at'[a].run = at[a].run
              /\ at'[a].pc = (IF at[a].job = "task" THEN "claim" ELSE "cleanup")
        /\ \A b \in Actors \ {a, "stopper"} : at'[b] = at[b]
    BY <1>19, DeferMoves
  <2>3. QuietMove("stopper")
    BY <2>1, <2>2 DEF QuietMove
  <2>4. a # "clicker" => at[a].job \in {"task", "local"}
    BY <1>1, <2>1 DEF Shape
  <2>5. QuietMove(a)
    BY <2>1, <2>2, <2>4 DEF QuietMove
  <2>6. QED
    BY <1>19, <2>1, <2>2, <2>3, <2>5 DEF Defer, QuietStep
<1>20. ASSUME NEW a \in Actors, Claim(a), ~Claims(at[a].run) PROVE QuietStep
  <2> DEFINE q == [at[a] EXCEPT !.pc = AfterFinish(a)]
  <2>1. at[a].pc = "claim" /\ Booted /\ AfterFinish(a) \in {"kill", "cleanup"}
    BY <1>1, <1>20, UnderWay, AfterFinishPc DEF Claim, At
  <2>2. UNCHANGED terminalSent /\ (Goto(a, AfterFinish(a)) \/ Return(a))
    BY <1>20, Zenon DEF Claim
  <2>3. "kill" \in Pcs /\ "cleanup" \in Pcs
    BY DEF Pcs
  <2>4. PICK p \in {q, Idle} : Moved(a, p)
    BY <2>1, <2>2, <2>3, GotoMoves, ReturnMoves
  <2>5. \/ p.pc = AfterFinish(a) /\ p.run = at[a].run
        \/ p.pc = "idle" /\ p.run = None
    BY <1>2, <2>4 DEF Places
  <2>6. at'[a] = p => QuietMove(a)
    BY <1>20, <2>1, <2>5 DEF QuietMove, Claims, Open
  <2>7. QED
    BY <1>20, <2>1, <2>2, <2>4, <2>6, OneQuietMove DEF Claim
<1>21. QED
  BY <1>3, <1>4, <1>5, <1>6, <1>7, <1>8, <1>9, <1>10, <1>11, <1>12, <1>13, <1>14, <1>15, <1>16,
     <1>17, <1>18, <1>19, <1>20, Zenon

-----------------------------------------------------------------------------
(* The steps that begin a run, report one or move the journal.              *)

LEMMA GotoFields ==
    ASSUME TypeOK, NEW a \in Actors, NEW pc \in Pcs, Goto(a, pc)
    PROVE  /\ at'[a].pc = pc /\ at'[a].run = at[a].run
           /\ at'[a].job = at[a].job /\ at'[a].other = at[a].other
           /\ \A b \in Actors : b # a => at'[b] = at[b]
<1>1. at[a] \in Places
  BY DEF TypeOK, Places
<1>2. Moved(a, [at[a] EXCEPT !.pc = pc])
  BY GotoMoves
<1>3. QED
  BY <1>1, <1>2 DEF Moved, Places

\* Reporting r counts.
LEMMA ReportCounts ==
    ASSUME TypeOK, NEW r \in Runs, Report(r)
    PROVE  ends'[r] = ends[r] + 1 /\ \A x \in Runs : x # r => ends'[x] = ends[x]
BY DEF TypeOK, Report

LEMMA InvParts ==
    ASSUME ExecutorInv
    PROVE  /\ Shape /\ BootIsAlone /\ UnreceivedIsUnknown /\ OneRight /\ EndsCounted
           /\ ThroughIsClosed /\ BeginningIsNew /\ JournalFollows /\ BegunIsOpen
BY DEF ExecutorInv

LEMMA RecoverKeeps == ASSUME TypeOK, ExecutorInv, Recover PROVE ExecutorInv'
<1> USE InvParts, ActorsOf, RunsAssumption DEF record, globals
<1>1. /\ at["main"].pc = "recover" /\ ~Booted /\ cur = None
      /\ \A b \in Actors : b # "main" => at[b].pc \in {"idle", "done"}
  BY DEF Recover, At, Booted, BootIsAlone
<1>2. /\ UNCHANGED <<running, cur, terminalSent, watchdog, journal, received, began,
                     unnamed, undercut, restarts>>
      /\ unjournaled \subseteq unjournaled'
  BY DEF Recover
<1>3. /\ at'["main"].pc \in {"forget", "idle", "direct"} /\ at'["main"].run = at["main"].run
      /\ \A b \in Actors : b # "main" => at'[b] = at[b]
  <2>1. "forget" \in Pcs /\ "idle" \in Pcs /\ "direct" \in Pcs
    BY DEF Pcs
  <2>3. \E pc \in {"forget", "idle", "direct"} : Goto("main", pc)
    BY BootStep
  <2>4. QED
    BY <2>1, <2>3, GotoFields
<1>4. /\ \A r \in Runs \ {journal} : ends'[r] = ends[r]
      /\ journal \in Runs => ends'[journal] \in {ends[journal], ends[journal] + 1}
      /\ ends' \in [Runs -> Nat]
  <2>1. (journal \in Runs /\ Report(journal)) \/ UNCHANGED ends
    <3>1. (journal # None /\ Report(journal)) \/ UNCHANGED ends
      BY Zenon DEF Recover
    <3>2. QED
      BY <3>1 DEF TypeOK
  <2>2. QED
    BY <2>1, ReportCounts, ReportType DEF TypeOK
<1>16. /\ at'["main"].pc = "forget" /\ journal \in Runs => ends'[journal] > 0
       /\ at'["main"].pc # "forget" /\ journal \in Runs => journal \in unjournaled'
  <2>1. CASE Goto("main", "forget")
    <3>1. at'["main"].pc = "forget"
      BY <2>1, GotoFields DEF Pcs
    <3>2. journal # None /\ Report(journal)
      <4>1. ~LeaveBoot(disturbances) /\ ~LeaveBoot(disturbances + 1)
        BY <3>1, GotoFields DEF LeaveBoot, Pcs
      <4>2. QED
        BY <4>1, Zenon DEF Recover
    <3>3. journal \in Runs => ends'[journal] = ends[journal] + 1 /\ ends[journal] \in Nat
      BY <3>2, ReportCounts DEF TypeOK
    <3>4. QED
      BY <3>1, <3>3
  <2>2. CASE ~Goto("main", "forget")
    <3>1. journal \in Runs => journal \in unjournaled'
      BY <2>2 DEF Recover
    <3>2. at'["main"].pc \in {"idle", "direct"}
      BY <2>2, BootStep, GotoFields DEF Pcs
    <3>3. QED
      BY <3>1, <3>2
  <2>3. QED
    BY <2>1, <2>2
<1>5. \A b \in Actors : at'[b].pc \in {"forget", "idle", "direct", "done"}
  BY <1>1, <1>3
<1>6. Shape'
  BY <1>1, <1>3, <1>5 DEF Shape
<1>7. BootIsAlone'
  BY <1>1, <1>2, <1>3 DEF BootIsAlone
<1>8. UnreceivedIsUnknown'
  BY <1>2, <1>3, <1>4 DEF UnreceivedIsUnknown
<1>9. OneRight'
  BY <1>1, <1>2, <1>5 DEF OneRight, Open, Sends
<1>10. EndsCounted'
  <2>1. \A r \in Runs : ends[r] <= restarts
    BY <1>1 DEF EndsCounted, At
  <2>2. restarts \in Nat /\ ends \in [Runs -> Nat]
    BY DEF TypeOK
  <2>3. \A r \in Runs : ends'[r] <= 1 + restarts
    BY <1>4, <2>1, <2>2
  <2>4. QED
    BY <1>2, <1>5, <1>16, <2>3 DEF EndsCounted, At
<1>11. ThroughIsClosed'
  BY <1>5 DEF Through, ThroughIsClosed
<1>12. BeginningIsNew'
  BY <1>5 DEF BeginningIsNew, Beginning
<1>13. JournalFollows'
  BY <1>1, <1>2 DEF JournalFollows
<1>14. BegunIsOpen'
  <2> SUFFICES ASSUME NEW r \in Runs, r \in began' \/ Beginning(r)'
               PROVE  Ended(r)' \/ Excused(r)'
    BY DEF BegunIsOpen
  <2>1. r \in began
    BY <1>2, <1>5 DEF Beginning
  <2>2. (Open(r) /\ running) \/ Ending(r) \/ Ended(r) \/ Excused(r)
    BY <2>1 DEF BegunIsOpen
  <2>3. Ended(r) \/ Excused(r)
    BY <2>2, <1>1 DEF Open, Ending, ReportedBy, At
  <2>4. ends[r] > 0 => ends'[r] > 0
    BY <1>4 DEF TypeOK
  <2>5. journal = r => ends'[r] > 0 \/ r \in unjournaled'
    BY <1>16
  <2>6. QED
    BY <2>3, <2>4, <2>5, <1>2 DEF Ended, Excused
<1>15. QED
  BY <1>6, <1>7, <1>8, <1>9, <1>10, <1>11, <1>12, <1>13, <1>14 DEF ExecutorInv

LEMMA ForgetKeeps == ASSUME TypeOK, ExecutorInv, Forget PROVE ExecutorInv'
<1> USE InvParts, ActorsOf, RunsAssumption DEF globals, outcome
<1>1. /\ at["main"].pc = "forget" /\ ~Booted /\ cur = None
      /\ \A b \in Actors : b # "main" => at[b].pc \in {"idle", "done"}
  BY DEF Forget, At, Booted, BootIsAlone
<1>2. /\ UNCHANGED <<running, cur, terminalSent, watchdog, unjournaled, received, began, ends,
                     unnamed, undercut, restarts>>
      /\ journal' \in {journal, None}
  BY DEF Forget
<1>3. /\ at'["main"].pc \in {"idle", "direct"} /\ at'["main"].run = at["main"].run
      /\ \A b \in Actors : b # "main" => at'[b] = at[b]
  <2>1. "idle" \in Pcs /\ "direct" \in Pcs
    BY DEF Pcs
  <2>2. \E pc \in {"idle", "direct"} : Goto("main", pc)
    BY BootStep DEF Recover, Forget, At
  <2>3. QED
    BY <2>1, <2>2, GotoFields
<1>4. \A b \in Actors : at'[b].pc \in {"idle", "direct", "done"}
  BY <1>1, <1>3
<1>5. Shape'
  BY <1>1, <1>3, <1>4 DEF Shape
<1>6. BootIsAlone'
  BY <1>1, <1>2, <1>3 DEF BootIsAlone
<1>7. UnreceivedIsUnknown'
  BY <1>2, <1>3 DEF UnreceivedIsUnknown
<1>8. OneRight'
  BY <1>1, <1>2, <1>4 DEF OneRight, Open, Sends
<1>9. EndsCounted'
  BY <1>2, <1>4 DEF EndsCounted, At
<1>10. ThroughIsClosed'
  BY <1>4 DEF Through, ThroughIsClosed
<1>11. BeginningIsNew'
  BY <1>4 DEF BeginningIsNew, Beginning
<1>12. JournalFollows'
  BY <1>1, <1>2 DEF JournalFollows
<1>13. BegunIsOpen'
  <2>1. \A r \in Runs : journal = r => ends[r] > 0
    BY <1>1 DEF EndsCounted, At
  <2>2. \A r \in Runs : Excused(r) => Ended(r)' \/ Excused(r)'
    BY <1>2, <2>1 DEF Excused, Ended
  <2>3. QED
    BY <1>1, <1>2, <1>4, <2>2 DEF BegunIsOpen, Open, Beginning, Ending, Ended, ReportedBy, At
<1>14. QED
  BY <1>5, <1>6, <1>7, <1>8, <1>9, <1>10, <1>11, <1>12, <1>13 DEF ExecutorInv

LEMMA ExecuteTaskKeeps ==
    ASSUME TypeOK, ExecutorInv, NEW r \in Runs, ExecuteTask(r)
    PROVE  ExecutorInv'
<1> USE InvParts, ActorsOf, RunsAssumption DEF record, counts
<1>1. /\ at["reader"].pc = "idle" /\ Booted /\ r \notin received /\ received' = received \cup {r}
      /\ UNCHANGED <<watchdog, journal, unjournaled, began, unnamed, undercut, restarts>>
  BY DEF ExecuteTask, At
<1>2. /\ cur # r /\ watchdog # r /\ journal # r /\ ends[r] = 0 /\ r \notin began
      /\ \A a \in Actors : at[a].run # r
  BY <1>1 DEF UnreceivedIsUnknown
<1>3. CASE Accepts
  <2>1. /\ ~running /\ running' = TRUE /\ cur' = r /\ terminalSent' = FALSE /\ ends' = ends
        /\ Begin("reader", "task", "journal", r)
    BY <1>3 DEF ExecuteTask, Accepts
  <2>2. /\ Place("journal", "task", r).pc = "journal" /\ Place("journal", "task", r).run = r
        /\ Place("journal", "task", r).job = "task"
    BY DEF Place, Idle
  <2>3. /\ at'["reader"].pc = "journal" /\ at'["reader"].run = r
        /\ \A b \in Actors : b # "reader" => at'[b] = at[b]
    <3>1. "journal" \in Pcs /\ "task" \in Jobs
      BY DEF Pcs, Jobs
    <3>2. QED
      BY <2>1, <2>2, <3>1, BeginMoves DEF Moved
  <2>4. Shape'
    BY <2>3 DEF Shape, Workers
  <2>5. BootIsAlone'
    BY <1>1, <2>3 DEF BootIsAlone, Booted
  <2>6. UnreceivedIsUnknown'
    BY <1>1, <2>1, <2>3 DEF UnreceivedIsUnknown
  <2>7. OneRight'
    BY <1>1, <1>2, <2>1, <2>3 DEF OneRight, Open, Sends
  <2>8. EndsCounted'
    BY <1>1, <2>1, <2>3 DEF EndsCounted, Booted, At
  <2>9. ThroughIsClosed'
    BY <1>2, <2>1, <2>3 DEF Through, ThroughIsClosed, Open
  <2>10. BeginningIsNew'
    BY <1>1, <1>2, <2>1, <2>3 DEF BeginningIsNew, Beginning
  <2>11. JournalFollows'
    BY <2>3 DEF JournalFollows, At
  <2>12. BegunIsOpen'
    <3> SUFFICES ASSUME NEW x \in Runs, x \in began' \/ Beginning(x)'
                 PROVE  (Open(x) /\ running)' \/ Ending(x)' \/ Ended(x)' \/ Excused(x)'
      BY DEF BegunIsOpen
    <3>1. CASE x = r
      BY <2>1, <3>1 DEF Open
    <3>2. CASE x # r
      <4>1. x \in began
        BY <1>1, <2>3, <3>2 DEF Beginning
      <4>2. (Open(x) /\ running) \/ Ending(x) \/ Ended(x) \/ Excused(x)
        BY <4>1 DEF BegunIsOpen
      <4>3. Ending(x) \/ Ended(x) \/ Excused(x)
        BY <4>2, <2>1, Zenon
      <4>4. Ending(x) => Ending(x)'
        BY <1>1, <2>3 DEF Ending, ReportedBy, At
      <4>5. QED
        BY <4>3, <4>4, <1>1, <2>1, ExcuseStays DEF Ended
    <3>3. QED
      BY <3>1, <3>2
  <2>13. QED
    BY <2>4, <2>5, <2>6, <2>7, <2>8, <2>9, <2>10, <2>11, <2>12 DEF ExecutorInv
<1>4. CASE ~Accepts
  <2>1. UNCHANGED <<running, cur, terminalSent, at>> /\ Report(r)
    BY <1>4, Zenon DEF ExecuteTask
  <2>2. ends'[r] = 1 /\ \A x \in Runs : x # r => ends'[x] = ends[x]
    BY <1>2, <2>1, ReportCounts
  <2>3. restarts \in Nat /\ ends \in [Runs -> Nat]
    BY DEF TypeOK
  <2>4. Shape' /\ BootIsAlone' /\ ThroughIsClosed'
    BY <1>1, <2>1 DEF Shape, BootIsAlone, Booted, Through, ThroughIsClosed, Open
  <2>5. UnreceivedIsUnknown'
    BY <1>1, <2>1, <2>2 DEF UnreceivedIsUnknown
  <2>6. OneRight'
    BY <1>2, <2>1, <2>2 DEF OneRight, Open, Sends
  <2>7. EndsCounted'
    BY <1>1, <2>1, <2>2, <2>3 DEF EndsCounted, Booted, At
  <2>8. BeginningIsNew' /\ JournalFollows'
    BY <1>1, <2>1 DEF BeginningIsNew, Beginning, JournalFollows, At
  <2>9. BegunIsOpen'
    <3>1. \A x \in Runs : ends[x] > 0 => ends'[x] > 0
      BY <2>2
    <3>2. QED
      BY <1>1, <2>1, <3>1, ExcuseStays DEF BegunIsOpen, Open, Beginning, Ending, Ended, ReportedBy, At
  <2>10. QED
    BY <2>4, <2>5, <2>6, <2>7, <2>8, <2>9 DEF ExecutorInv
<1>5. QED
  BY <1>3, <1>4

LEMMA SaveJournalKeeps == ASSUME TypeOK, ExecutorInv, SaveJournal PROVE ExecutorInv'
<1> USE InvParts, ActorsOf, RunsAssumption DEF globals, history, counts
<1>1. at["reader"].pc = "journal" /\ at["reader"].run \in Runs /\ Booted
  BY UnderWay DEF SaveJournal, At, Shape
<1>2. /\ UNCHANGED <<running, cur, terminalSent, watchdog, received, began, ends, unnamed,
                     undercut, restarts>>
      /\ \/ journal' = at["reader"].run /\ unjournaled' = unjournaled
         \/ journal' = journal /\ unjournaled' = unjournaled \cup {at["reader"].run}
  BY DEF SaveJournal, outcome
<1>3. /\ at'["reader"].pc = "report" /\ at'["reader"].run = at["reader"].run
      /\ \A b \in Actors : b # "reader" => at'[b] = at[b]
  BY GotoFields DEF SaveJournal, Pcs
<1>4. Shape' /\ BootIsAlone' /\ ThroughIsClosed'
  BY <1>1, <1>2, <1>3 DEF Shape, BootIsAlone, Booted, Through, ThroughIsClosed, Open, Workers
<1>5. UnreceivedIsUnknown'
  BY <1>1, <1>2, <1>3 DEF UnreceivedIsUnknown
<1>6. OneRight'
  BY <1>1, <1>2, <1>3 DEF OneRight, Open, Sends
<1>7. EndsCounted'
  BY <1>1, <1>2, <1>3 DEF EndsCounted, Booted, At
<1>8. BeginningIsNew'
  BY <1>1, <1>2, <1>3 DEF BeginningIsNew, Beginning
<1>9. JournalFollows'
  BY <1>1, <1>2, <1>3 DEF JournalFollows, BeginningIsNew, Beginning
<1>10. BegunIsOpen'
  BY <1>1, <1>2, <1>3, ExcuseStays DEF BegunIsOpen, Open, Beginning, Ending, Ended, ReportedBy, At
<1>11. QED
  BY <1>4, <1>5, <1>6, <1>7, <1>8, <1>9, <1>10 DEF ExecutorInv

LEMMA ReportBeginKeeps == ASSUME TypeOK, ExecutorInv, ReportBegin PROVE ExecutorInv'
<1> USE InvParts, ActorsOf, RunsAssumption DEF record, counts
<1> DEFINE r == at["reader"].run
<1>1. at["reader"].pc = "report" /\ r \in Runs /\ Booted
  BY UnderWay DEF ReportBegin, At, Shape
<1>2. /\ UNCHANGED <<running, cur, terminalSent, journal, unjournaled, received, ends, unnamed, undercut,
                     restarts>>
      /\ began' = began \cup {r} /\ watchdog' = r
  BY DEF ReportBegin
<1>3. /\ at'["reader"].pc = "exec" /\ at'["reader"].run = r
      /\ \A b \in Actors : b # "reader" => at'[b] = at[b]
  BY GotoFields DEF ReportBegin, Pcs
<1>4. Shape' /\ BootIsAlone' /\ ThroughIsClosed'
  BY <1>1, <1>2, <1>3 DEF Shape, BootIsAlone, Booted, Through, ThroughIsClosed, Open, Workers
<1>5. UnreceivedIsUnknown'
  BY <1>1, <1>2, <1>3 DEF UnreceivedIsUnknown
<1>6. OneRight'
  BY <1>1, <1>2, <1>3 DEF OneRight, Open, Sends
<1>7. EndsCounted'
  BY <1>1, <1>2, <1>3 DEF EndsCounted, Booted, At
<1>8. BeginningIsNew'
  BY <1>3 DEF BeginningIsNew, Beginning
<1>9. JournalFollows'
  BY <1>1, <1>2, <1>3 DEF JournalFollows, At
<1>10. BegunIsOpen'
  BY <1>1, <1>2, <1>3, ExcuseStays DEF BegunIsOpen, Open, Beginning, Ending, Ended, ReportedBy, At
<1>11. QED
  BY <1>4, <1>5, <1>6, <1>7, <1>8, <1>9, <1>10 DEF ExecutorInv

LEMMA ScriptDiesKeeps ==
    ASSUME TypeOK, ExecutorInv, NEW s \in Scripts, ScriptDies(s)
    PROVE  ExecutorInv'
<1> USE InvParts, ActorsOf, RunsAssumption DEF record, globals, counts
<1>1. at[s].pc \notin {"idle", "done", "recover", "forget"} /\ Booted
  BY UnderWay DEF ScriptDies, Shape
<1>2. /\ UNCHANGED <<running, cur, terminalSent, watchdog, journal, unjournaled, received, began, ends,
                     unnamed, restarts>>
      /\ undercut' = undercut \cup {r \in Runs : ReportedBy(s, r)}
  BY DEF ScriptDies
<1>3. /\ at'[s].pc = "done" /\ at'[s].run = None
      /\ \A b \in Actors : b # s => at'[b] = at[b]
  BY FinishMoves, GoneIsPlace DEF ScriptDies, Moved
<1>4. Shape' /\ BootIsAlone'
  BY <1>1, <1>2, <1>3 DEF Shape, BootIsAlone, Booted, Workers
<1>5. ThroughIsClosed'
  BY <1>2, <1>3 DEF ThroughIsClosed, Through, Open
<1>6. UnreceivedIsUnknown'
  BY <1>1, <1>2, <1>3 DEF UnreceivedIsUnknown
<1>7. OneRight'
  BY <1>1, <1>2, <1>3 DEF OneRight, Open, Sends
<1>8. EndsCounted'
  BY <1>1, <1>2, <1>3 DEF EndsCounted, Booted, At, Workers
<1>9. BeginningIsNew'
  BY <1>2, <1>3 DEF BeginningIsNew, Beginning
<1>10. JournalFollows'
  BY <1>1, <1>2, <1>3 DEF JournalFollows, At, Shape
<1>11. BegunIsOpen'
  <2> SUFFICES ASSUME NEW r \in Runs, r \in began' \/ Beginning(r)'
               PROVE  (Open(r) /\ running)' \/ Ending(r)' \/ Ended(r)' \/ Excused(r)'
    BY DEF BegunIsOpen
  <2>1. r \in began \/ Beginning(r)
    BY <1>2, <1>3 DEF Beginning
  <2>2. (Open(r) /\ running) \/ Ending(r) \/ Ended(r) \/ Excused(r)
    BY <2>1, <1>2 DEF BegunIsOpen
  <2>3. Ending(r) => Ending(r)' \/ Excused(r)'
    BY <1>1, <1>2, <1>3, ExcuseStays DEF Ending, ReportedBy, At
  <2>4. QED
    BY <2>2, <2>3, <1>1, <1>2, ExcuseStays DEF Open, Ended
<1>12. QED
  BY <1>4, <1>5, <1>6, <1>7, <1>8, <1>9, <1>10, <1>11 DEF ExecutorInv

LEMMA ClaimKeeps ==
    ASSUME TypeOK, ExecutorInv, NEW a \in Actors, Claim(a), Claims(at[a].run)
    PROVE  ExecutorInv'
<1> USE InvParts, ActorsOf, RunsAssumption DEF record
<1> DEFINE r == at[a].run
<1>1. at[a].pc = "claim" /\ Booted /\ r \in Runs /\ Open(r)
  BY UnderWay DEF Claim, Claims, At, Open, TypeOK
<1>2. /\ UNCHANGED <<running, cur, watchdog, journal, unjournaled, received, began, ends,
                     unnamed, undercut, restarts>>
      /\ terminalSent' = TRUE /\ Goto(a, "send")
  BY DEF Claim, history, counts
<1>3. /\ at'[a].pc = "send" /\ at'[a].run = r
      /\ \A b \in Actors : b # a => at'[b] = at[b]
  <2>1. "send" \in Pcs
    BY DEF Pcs
  <2>2. QED
    BY <1>2, <2>1, GotoFields
<1>4. Shape' /\ BootIsAlone'
  BY <1>1, <1>2, <1>3 DEF Shape, BootIsAlone, Booted
<1>5. ThroughIsClosed'
  BY <1>2 DEF ThroughIsClosed, Open
<1>6. UnreceivedIsUnknown'
  BY <1>1, <1>2, <1>3 DEF UnreceivedIsUnknown
<1>7. OneRight'
  BY <1>1, <1>2, <1>3 DEF OneRight, Open, Sends
<1>8. EndsCounted'
  BY <1>1, <1>2, <1>3 DEF EndsCounted, Booted, At
<1>9. BeginningIsNew'
  BY <1>2, <1>3 DEF BeginningIsNew, Beginning
<1>10. JournalFollows'
  BY <1>2 DEF JournalFollows
<1>11. BegunIsOpen'
  <2> SUFFICES ASSUME NEW x \in Runs, x \in began' \/ Beginning(x)'
               PROVE  Ending(x)' \/ Ended(x)' \/ Excused(x)'
    BY DEF BegunIsOpen
  <2>1. x \in began \/ Beginning(x)
    BY <1>1, <1>2, <1>3 DEF Beginning
  <2>2. Open(x) \/ Ending(x) \/ Ended(x) \/ Excused(x)
    BY <2>1, <1>2 DEF BegunIsOpen
  <2>3. Open(x) => ReportedBy(a, x)'
    BY <1>1, <1>3 DEF Open, ReportedBy, At
  <2>4. Ending(x) => Ending(x)'
    BY <1>1, <1>3 DEF Ending, ReportedBy, At
  <2>5. QED
    BY <2>2, <2>3, <2>4, <1>1, <1>2, ExcuseStays DEF Ending, Ended
<1>12. QED
  BY <1>4, <1>5, <1>6, <1>7, <1>8, <1>9, <1>10, <1>11 DEF ExecutorInv

LEMMA SendEndKeeps ==
    ASSUME TypeOK, ExecutorInv, NEW a \in Actors, SendEnd(a)
    PROVE  ExecutorInv'
<1> USE InvParts, ActorsOf, RunsAssumption DEF record, globals, counts
<1> DEFINE r == at[a].run
<1>1. at[a].pc = "send" /\ Booted /\ r \in Runs /\ Sends(a, r) /\ ends[r] = 0
  BY UnderWay DEF SendEnd, At, Shape, Sends, OneRight
<1>2. UNCHANGED <<running, cur, terminalSent, watchdog, journal, unjournaled, received, began,
                  unnamed, undercut, restarts>>
  BY DEF SendEnd
<1>3. ends'[r] = 1 /\ \A x \in Runs : x # r => ends'[x] = ends[x]
  BY <1>1, ReportCounts DEF SendEnd
<1>4. /\ at'[a].pc = "clear" /\ at'[a].run = r
      /\ \A b \in Actors : b # a => at'[b] = at[b]
  <2>1. "clear" \in Pcs
    BY DEF Pcs
  <2>2. QED
    BY <2>1, GotoFields DEF SendEnd
<1>5. ~Open(r)
  BY <1>1 DEF OneRight
<1>6. Shape' /\ BootIsAlone'
  BY <1>1, <1>2, <1>4 DEF Shape, BootIsAlone, Booted
<1>7. ThroughIsClosed'
  BY <1>2, <1>4, <1>5 DEF ThroughIsClosed, Through, Open
<1>8. UnreceivedIsUnknown'
  BY <1>1, <1>2, <1>3, <1>4 DEF UnreceivedIsUnknown
<1>9. OneRight'
  BY <1>1, <1>2, <1>3, <1>4, <1>5 DEF OneRight, Open, Sends
<1>10. EndsCounted'
  <2>1. restarts \in Nat
    BY DEF TypeOK
  <2>2. QED
    BY <1>1, <1>2, <1>3, <1>4, <2>1 DEF EndsCounted, Booted, At
<1>11. BeginningIsNew'
  BY <1>2, <1>4 DEF BeginningIsNew, Beginning
<1>12. JournalFollows'
  BY <1>1, <1>2, <1>4 DEF JournalFollows, At
<1>13. BegunIsOpen'
  <2> SUFFICES ASSUME NEW x \in Runs, x \in began' \/ Beginning(x)'
               PROVE  (Open(x) /\ running)' \/ Ending(x)' \/ Ended(x)' \/ Excused(x)'
    BY DEF BegunIsOpen
  <2>1. x \in began \/ Beginning(x)
    BY <1>1, <1>2, <1>4 DEF Beginning
  <2>2. (Open(x) /\ running) \/ Ending(x) \/ Ended(x) \/ Excused(x)
    BY <2>1, <1>2 DEF BegunIsOpen
  <2>3. ends[x] > 0 => ends'[x] > 0
    BY <1>3
  <2>4. Ending(x) => Ending(x)' \/ x = r
    BY <1>1, <1>4 DEF Ending, ReportedBy, At
  <2>5. x = r => Ended(x)'
    BY <1>3 DEF Ended
  <2>6. QED
    BY <2>2, <2>3, <2>4, <2>5, <1>1, <1>2, ExcuseStays DEF Open, Ended
<1>14. QED
  BY <1>6, <1>7, <1>8, <1>9, <1>10, <1>11, <1>12, <1>13 DEF ExecutorInv

LEMMA ClearJournalKeeps ==
    ASSUME TypeOK, ExecutorInv, NEW a \in Actors, ReadJournal(a) \/ EraseJournal(a)
    PROVE  ExecutorInv'
<1> USE InvParts, ActorsOf, RunsAssumption DEF record, globals, outcome
<1> DEFINE r == at[a].run
<1>1. at[a].pc \in {"clear", "erase"} /\ Booted /\ r \in Runs /\ ~Open(r)
  BY UnderWay DEF ReadJournal, EraseJournal, At, Shape, ThroughIsClosed, Through
<1>2. UNCHANGED <<running, cur, terminalSent, watchdog, received, began, ends,
                  unnamed, undercut, restarts>>
  BY DEF ReadJournal, EraseJournal
<1>3. /\ unjournaled \subseteq unjournaled'
      /\ UNCHANGED journal \/ journal' = None
      /\ journal \in Runs \ {r} => UNCHANGED journal \/ journal \in unjournaled'
  <2>1. CASE ReadJournal(a)
    BY <2>1 DEF ReadJournal
  <2>2. CASE EraseJournal(a)
    <3>1. at[a].other \in {None} \cup {t \in Runs : TaskOf[t] = TaskOf[r]}
      BY <2>2 DEF EraseJournal, Shape, At
    <3>2. QED
      BY <2>2, <3>1 DEF EraseJournal
  <2>3. QED
    BY <2>1, <2>2
<1>4. /\ at'[a].run = r
      /\ \A b \in Actors : b # a => at'[b] = at[b]
  BY ClearMoves
<1>5. at'[a].pc \in {"cleanup", "kill", "erase"}
  BY ClearMoves
<1>6. Shape' /\ BootIsAlone'
  BY <1>1, <1>2, <1>4, <1>5, ClearMoves DEF Shape, BootIsAlone, Booted
<1>7. ThroughIsClosed'
  BY <1>1, <1>2, <1>4 DEF ThroughIsClosed, Open, Through
<1>8. UnreceivedIsUnknown'
  BY <1>2, <1>3, <1>4 DEF UnreceivedIsUnknown
<1>9. OneRight'
  BY <1>1, <1>2, <1>4, <1>5 DEF OneRight, Open, Sends
<1>10. EndsCounted'
  BY <1>1, <1>2, <1>4, <1>5 DEF EndsCounted, Booted, At
<1>11. BeginningIsNew'
  BY <1>2, <1>4, <1>5 DEF BeginningIsNew, Beginning
<1>12. JournalFollows'
  <2> SUFFICES ASSUME cur' # None, ~terminalSent', ~At("reader", "journal")'
               PROVE  journal' = cur' \/ cur' \in unjournaled'
    BY DEF JournalFollows
  <2>1. cur # None /\ ~terminalSent /\ cur \in Runs /\ cur # r
    BY <1>1, <1>2 DEF Open, TypeOK
  <2>2. ~At("reader", "journal")
    BY <1>1, <1>4 DEF At
  <2>3. journal = cur \/ cur \in unjournaled
    BY <2>1, <2>2 DEF JournalFollows
  <2>4. QED
    BY <2>1, <2>3, <1>2, <1>3
<1>13. BegunIsOpen'
  <2>1. \A x \in Runs : Excused(x) => Excused(x)'
    BY <1>1, <1>2, <1>3, ExcuseStays
  <2>2. QED
    BY <1>1, <1>2, <1>4, <1>5, <2>1 DEF BegunIsOpen, Open, Beginning, Ending, Ended, ReportedBy, At
<1>14. QED
  BY <1>6, <1>7, <1>8, <1>9, <1>10, <1>11, <1>12, <1>13 DEF ExecutorInv

LEMMA HidGivesUpKeeps ==
    ASSUME TypeOK, ExecutorInv, NEW a \in Actors, HidGivesUp(a)
    PROVE  ExecutorInv'
<1> USE InvParts, ActorsOf, RunsAssumption DEF record, outcome
<1>1. at[a].pc = "run" /\ Booted /\ a \in Scripts \cup {"clicker"} /\ cur \in Runs \cup {None}
  BY UnderWay DEF HidGivesUp, At, TypeOK
<1>2. /\ UNCHANGED <<running, terminalSent, watchdog, journal, unjournaled, received, began, ends,
                     unnamed, undercut, restarts>>
      /\ cur' = None
  BY DEF HidGivesUp
<1>3. /\ at'[a].pc = (IF cur = None THEN "defer" ELSE "unnamed")
      /\ at'[a].other = cur /\ at'[a].job = at[a].job /\ at'[a].run = at[a].run
      /\ \A b \in Actors : b # a => at'[b] = at[b]
  BY GivesUpMoves
<1>4. Shape' /\ BootIsAlone'
  BY <1>1, <1>2, <1>3 DEF Shape, BootIsAlone, Booted, Workers
<1>5. ThroughIsClosed'
  BY <1>2, <1>3 DEF ThroughIsClosed, Through, Open
<1>6. UnreceivedIsUnknown'
  BY <1>1, <1>2, <1>3 DEF UnreceivedIsUnknown
<1>7. OneRight'
  BY <1>1, <1>2, <1>3 DEF OneRight, Open, Sends
<1>8. EndsCounted'
  BY <1>1, <1>2, <1>3 DEF EndsCounted, Booted, At
<1>9. BeginningIsNew'
  BY <1>2, <1>3 DEF BeginningIsNew, Beginning
<1>10. JournalFollows'
  BY <1>2 DEF JournalFollows
<1>11. BegunIsOpen'
  <2> SUFFICES ASSUME NEW r \in Runs, r \in began' \/ Beginning(r)'
               PROVE  Ending(r)' \/ Ended(r)' \/ Excused(r)'
    BY DEF BegunIsOpen
  <2>1. r \in began \/ Beginning(r)
    BY <1>1, <1>2, <1>3 DEF Beginning
  <2>2. Open(r) \/ Ending(r) \/ Ended(r) \/ Excused(r)
    BY <2>1, <1>2 DEF BegunIsOpen
  <2>3. Open(r) => ReportedBy(a, r)'
    BY <1>3 DEF Open, ReportedBy, At
  <2>4. Ending(r) => Ending(r)'
    BY <1>1, <1>3 DEF Ending, ReportedBy, At
  <2>5. QED
    BY <2>2, <2>3, <2>4, <1>1, <1>2, ExcuseStays DEF Ending, Ended
<1>12. QED
  BY <1>4, <1>5, <1>6, <1>7, <1>8, <1>9, <1>10, <1>11 DEF ExecutorInv

LEMMA SendUnnamedKeeps ==
    ASSUME TypeOK, ExecutorInv, NEW a \in Actors, SendUnnamed(a)
    PROVE  ExecutorInv'
<1> USE InvParts, ActorsOf, RunsAssumption DEF record, globals, counts
<1>1. at[a].pc = "unnamed" /\ Booted /\ at[a].other \in Runs /\ a \in Scripts \cup {"clicker"}
  BY UnderWay DEF SendUnnamed, At, Shape
<1>2. /\ UNCHANGED <<running, cur, terminalSent, watchdog, journal, unjournaled, received, began, ends,
                     undercut, restarts>>
      /\ unnamed' = unnamed \cup {at[a].other}
  BY DEF SendUnnamed
<1>3. /\ at'[a].pc = "defer" /\ at'[a].run = at[a].run /\ at'[a].job = at[a].job
      /\ \A b \in Actors : b # a => at'[b] = at[b]
  <2>1. "defer" \in Pcs
    BY DEF Pcs
  <2>2. QED
    BY <2>1, GotoFields DEF SendUnnamed
<1>4. Shape' /\ BootIsAlone'
  BY <1>1, <1>2, <1>3 DEF Shape, BootIsAlone, Booted, Workers
<1>5. ThroughIsClosed'
  BY <1>2, <1>3 DEF ThroughIsClosed, Through, Open
<1>6. UnreceivedIsUnknown'
  BY <1>2, <1>3 DEF UnreceivedIsUnknown
<1>7. OneRight'
  BY <1>2, <1>3 DEF OneRight, Open, Sends
<1>8. EndsCounted'
  BY <1>1, <1>2, <1>3 DEF EndsCounted, Booted, At
<1>9. BeginningIsNew'
  BY <1>2, <1>3 DEF BeginningIsNew, Beginning
<1>10. JournalFollows'
  BY <1>1, <1>2, <1>3 DEF JournalFollows, At
<1>11. BegunIsOpen'
  <2> SUFFICES ASSUME NEW r \in Runs, r \in began' \/ Beginning(r)'
               PROVE  (Open(r) /\ running)' \/ Ending(r)' \/ Ended(r)' \/ Excused(r)'
    BY DEF BegunIsOpen
  <2>1. r \in began \/ Beginning(r)
    BY <1>1, <1>2, <1>3 DEF Beginning
  <2>2. (Open(r) /\ running) \/ Ending(r) \/ Ended(r) \/ Excused(r)
    BY <2>1, <1>2 DEF BegunIsOpen
  <2>3. Ending(r) => Ending(r)' \/ r \in unnamed'
    BY <1>1, <1>2, <1>3 DEF Ending, ReportedBy, At
  <2>4. QED
    BY <2>2, <2>3, <1>1, <1>2, ExcuseStays DEF Open, Ended
<1>12. QED
  BY <1>4, <1>5, <1>6, <1>7, <1>8, <1>9, <1>10, <1>11 DEF ExecutorInv

LEMMA RestartKeeps == ASSUME TypeOK, ExecutorInv, Restart PROVE ExecutorInv'
<1> USE InvParts, ActorsOf, RunsAssumption DEF record, outcome
<1>1. /\ UNCHANGED <<journal, unjournaled, received, began, ends, unnamed>>
      /\ undercut' = undercut \cup {r \in Runs \ {journal} : Ending(r)}
      /\ cur' = None /\ watchdog' = None /\ restarts' = restarts + 1 /\ restarts \in Nat
  BY DEF Restart, TypeOK
<1>2. /\ at'["main"].pc = "recover" /\ \A b \in Actors : at'[b].run = None
      /\ \A b \in Actors : b # "main" => at'[b].pc \in {"idle", "done"}
  BY RestartMoves
<1>3. Shape' /\ BootIsAlone' /\ ThroughIsClosed'
  BY <1>1, <1>2 DEF Shape, BootIsAlone, ThroughIsClosed, Workers
<1>4. UnreceivedIsUnknown'
  BY <1>1, <1>2 DEF UnreceivedIsUnknown
<1>5. OneRight'
  BY <1>1, <1>2 DEF OneRight, Open, Sends
<1>6. EndsCounted'
  <2>1. ends \in [Runs -> Nat]
    BY DEF TypeOK
  <2>2. QED
    BY <1>1, <1>2, <2>1 DEF EndsCounted, At
<1>7. BeginningIsNew' /\ JournalFollows'
  BY <1>1, <1>2 DEF BeginningIsNew, Beginning, JournalFollows
<1>8. BegunIsOpen'
  <2> SUFFICES ASSUME NEW r \in Runs, r \in began' \/ Beginning(r)'
               PROVE  Ended(r)' \/ Excused(r)'
    BY DEF BegunIsOpen
  <2>1. r \in began /\ ~Booted'
    BY <1>1, <1>2 DEF Beginning, Booted
  <2>2. Open(r) => journal = r \/ r \in unjournaled
    BY <2>1 DEF Open, JournalFollows, BeginningIsNew, Beginning, At, Shape
  <2>3. QED
    BY <1>1, <2>1, <2>2 DEF BegunIsOpen, Ended, Excused
<1>9. QED
  BY <1>3, <1>4, <1>5, <1>6, <1>7, <1>8 DEF ExecutorInv

-----------------------------------------------------------------------------
(* The theorems.                                                            *)

LEMMA InvInit == Init => ExecutorInv
<1> SUFFICES ASSUME Init PROVE ExecutorInv
  OBVIOUS
<1> USE ActorsOf, RunsAssumption, IdleIsPlace
<1>1. /\ at["main"].pc = "recover" /\ at["main"].run = None
      /\ \A b \in Actors : b # "main" => at[b] = Idle
  <2>1. [Idle EXCEPT !.pc = "recover"].pc = "recover" /\ [Idle EXCEPT !.pc = "recover"].run = None
    BY DEF Idle
  <2>2. QED
    BY <2>1 DEF Init, Booting
<1>2. /\ cur = None /\ watchdog = None /\ journal = None /\ restarts = 0
      /\ received = {} /\ began = {} /\ \A r \in Runs : ends[r] = 0
  BY DEF Init
<1>3. Shape /\ BootIsAlone /\ ThroughIsClosed
  BY <1>1, <1>2 DEF Shape, BootIsAlone, ThroughIsClosed, Through, Workers
<1>4. UnreceivedIsUnknown /\ OneRight
  BY <1>1, <1>2 DEF UnreceivedIsUnknown, OneRight, Open, Sends
<1>5. EndsCounted
  BY <1>2 DEF EndsCounted
<1>6. BeginningIsNew /\ JournalFollows /\ BegunIsOpen
  BY <1>1, <1>2 DEF BeginningIsNew, Beginning, JournalFollows, BegunIsOpen
<1>7. QED
  BY <1>3, <1>4, <1>5, <1>6 DEF ExecutorInv

LEMMA InvStep == TypeOK /\ ExecutorInv /\ [Next]_vars => ExecutorInv'
<1> SUFFICES ASSUME TypeOK, ExecutorInv, [Next]_vars PROVE ExecutorInv'
  OBVIOUS
<1>1. ASSUME NEW a \in Actors, Step(a) PROVE ExecutorInv'
  BY <1>1, QuietSteps, QuietKeeps, ClaimKeeps, SendEndKeeps, ClearJournalKeeps, SendUnnamedKeeps,
     Zenon DEF Step
<1>2. ASSUME NEW r \in Runs, ExecuteTask(r) \/ CancelTask(r) PROVE ExecutorInv'
  BY <1>2, QuietSteps, QuietKeeps, ExecuteTaskKeeps, Zenon
<1>3. ASSUME NEW s \in Scripts, ScriptEnds(s) \/ ScriptDies(s) \/ HidGivesUp(s) PROVE ExecutorInv'
  <2>1. s \in Actors
    BY ActorsOf
  <2>2. QED
    BY <1>3, <2>1, QuietSteps, QuietKeeps, ScriptDiesKeeps, HidGivesUpKeeps, Zenon
<1>4. CASE Recover \/ Forget \/ ReaderStep \/ Restart \/ HidGivesUp("clicker")
  BY <1>4, ActorsOf, RecoverKeeps, ForgetKeeps, SaveJournalKeeps, ReportBeginKeeps, RestartKeeps,
     HidGivesUpKeeps, Zenon DEF ReaderStep
<1>5. CASE \/ StartDirectly \/ StopCommand \/ RunLocal \/ StopLocal
           \/ WatchdogFires \/ AntiSleepClick \/ Shutdown
  BY <1>5, QuietSteps, QuietKeeps, Zenon
<1>6. CASE UNCHANGED vars
  BY <1>6 DEF vars, globals, record, history, counts, ExecutorInv, Shape, BootIsAlone, Booted,
     UnreceivedIsUnknown, OneRight, Open, Sends, EndsCounted, At, ThroughIsClosed, Through,
     BeginningIsNew, Beginning, JournalFollows, BegunIsOpen, Ending, ReportedBy, Ended, Excused
<1>7. QED
  BY <1>1, <1>2, <1>3, <1>4, <1>5, <1>6, Zenon DEF Next

LEMMA Invariant == Spec => [](TypeOK /\ ExecutorInv)
<1>1. Init => TypeOK /\ ExecutorInv
  BY TypeInit, InvInit
<1>2. TypeOK /\ ExecutorInv /\ [Next]_vars => (TypeOK /\ ExecutorInv)'
  BY TypeStep, InvStep, InvParts
<1>3. QED
  BY <1>1, <1>2, PTL DEF Spec

\* The globals, the journal and the threads' stages are of their types.
THEOREM ExecutorTypeCorrect == Spec => []TypeOK
BY Invariant, PTL

\* main.js:733: however the script, the watchdog, the stop commands and late
\* threads of earlier runs interleave, one report names the end of a run; each
\* restart may add one.
THEOREM OneEnd == Spec => []OneEndPerRun
<1>1. ExecutorInv => OneEndPerRun
  BY DEF ExecutorInv, EndsCounted, OneEndPerRun
<1>2. QED
  BY <1>1, Invariant, PTL

\* main.js:527: a run that was reported as begun and is still current is in the
\* journal until its end is claimed, unless storage failed or the late end of another
\* run erased it: a run of the same task, or one that had read the journal before.
THEOREM CurrentJournaled == Spec => []CurrentIsJournaled
<1>1. TypeOK /\ ExecutorInv => CurrentIsJournaled
  <2> SUFFICES ASSUME TypeOK, ExecutorInv, cur \in began \ unjournaled, ~terminalSent
               PROVE  journal = cur
    BY DEF CurrentIsJournaled
  <2>1. cur \in Runs /\ cur # None
    BY RunsAssumption DEF TypeOK
  <2>2. ~At("reader", "journal")
    <3>1. SUFFICES ASSUME At("reader", "journal") PROVE FALSE
      OBVIOUS
    <3>2. QED
      BY <2>1, <3>1, InvParts, ActorsOf DEF At, Shape, BeginningIsNew, Beginning
  <2>3. QED
    BY <2>1, <2>2, InvParts DEF JournalFollows
<1>2. QED
  BY <1>1, Invariant, PTL

\* README.md:27: a run that was reported as begun is in the journal, about to be
\* reported or reported, outside of the named windows.
THEOREM BegunAccounted == Spec => []BegunIsAccounted
<1>1. TypeOK /\ ExecutorInv => BegunIsAccounted
  <2> SUFFICES ASSUME TypeOK, ExecutorInv, NEW r \in began, r \notin undercut \cup unjournaled,
                      ~Ending(r), ~Ended(r), journal # r
               PROVE  FALSE
    BY DEF BegunIsAccounted
  <2>1. r \in Runs
    BY DEF TypeOK
  <2>2. Open(r)
    BY <2>1, InvParts DEF BegunIsOpen, Excused
  <2>3. ~At("reader", "journal")
    BY <2>1, <2>2, InvParts, ActorsOf, RunsAssumption
       DEF At, Open, Shape, BeginningIsNew, Beginning
  <2>4. QED
    BY <2>1, <2>2, <2>3, InvParts, RunsAssumption DEF JournalFollows, Open
<1>2. QED
  BY <1>1, Invariant, PTL
=============================================================================
