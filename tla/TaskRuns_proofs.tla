--------------------------- MODULE TaskRuns_proofs ---------------------------
(***************************************************************************)
(* Proofs about TaskRuns, for any set of devices, any set of requests and  *)
(* any bounds. TypeInv carries the types: the run_ids stay within their    *)
(* bound because a dispatch that is under way owes its run to a request    *)
(* already counted (RunsAreRequested). RowsStep says once and for all what *)
(* a step can do to a row; the properties of the rows follow from it.      *)
(***************************************************************************)
EXTENDS TaskRuns, TLAPS

One(b) == IF b THEN 1 ELSE 0

\* Requests that may still become a run: each was counted when it was made.
Owed ==
    One(operator.pc \in {"start", "enqueue"}) + One(cron # "idle")
        + One(queued) + One(dispatch.pc = "taken")

RunsAreRequested == lastRun + Owed <= requests

-----------------------------------------------------------------------------
(* Types of the values the actions build.                                   *)

LEMMA RunTypes == NoRun \in Runs /\ Runs \subseteq Nat
BY RequestsAssumption DEF NoRun, Runs

LEMMA MessageTypes ==
    /\ \A d \in Devices, r \in Runs : TaskMsg(d, r) \in Message /\ CancelMsg(d, r) \in Message
    /\ \A m \in Message : m.dev \in Devices /\ m.run \in Runs /\ m.kind \in Kinds
    /\ Nothing \notin Message /\ Nothing.kind = "none"
BY DEF TaskMsg, CancelMsg, Message, Kinds, Nothing

LEMMA FreshRowTypes == \A r \in Runs : FreshRow(r) \in Row
BY DEF FreshRow, Row, Waiting

LEMMA RowFields == \A x \in Row : x.run \in Runs /\ x.status \in 0..3 /\ x.deadline \in BOOLEAN
BY DEF Row

LEMMA StatusUpdate ==
    ASSUME NEW x \in Row, NEW s \in 0..3, NEW y, y = [x EXCEPT !.status = s]
    PROVE  y \in Row /\ y.status = s /\ y.run = x.run
<1>1. y \in Row
    BY DEF Row
<1> QED BY <1>1 DEF Row

LEMMA MarkedTypes ==
    ASSUME NEW x \in Row, NEW s \in 0..3, NEW b \in BOOLEAN
    PROVE  LET y == Marked(x, s, b) IN y \in Row /\ y.status = s /\ y.run = x.run /\ y.deadline = b
<1> DEFINE y == Marked(x, s, b)
<1>1. y \in Row
    BY DEF Row, Marked
<1>2. y.status = s
    BY DEF Row, Marked
<1>3. y.run = x.run
    BY DEF Row, Marked
<1>4. y.deadline = b
    BY DEF Row, Marked
<1> QED BY <1>1, <1>2, <1>3, <1>4

-----------------------------------------------------------------------------
(* What a step does to the rows.                                            *)

\* A row is left alone, closed or reset, marked as running, or set by a report
\* that matches it. Where no push is made, only a send of the reliable mode marks
\* a row as running without a deadline.
MarkedWithDeadline(x) == x.status = Running /\ (x.deadline \/ Reliable \/ "push" \in Requests)

RowChange(d) ==
    \/ row'[d] = row[d]
    \/ /\ row'[d] \in Row
       /\ \/ row'[d].status \in {Waiting, Failed}
          \/ MarkedWithDeadline(row'[d])
          \/ \E r \in reports : /\ r.dev = d /\ r.run \in {NoRun, row'[d].run}
                               /\ row'[d].status = r.status
                               /\ row'[d].deadline = (r.status = Running)

RowsChange == row' = [d \in Devices |-> row'[d]] /\ \A d \in Devices : RowChange(d)

\* Every marking without a deadline has its reason: a send leaves a note only in
\* reliable mode, and the operator is at "pushed" only after a push.
NotesAreReliable ==
    /\ ~Reliable => \A c \in Callers : noting[c] = Nothing
    /\ "push" \notin Requests => operator.pc # "pushed"

LEMMA RowIsSet ==
    ASSUME TypeOK, NEW d \in Devices, NEW s \in {Waiting, Running, Failed}, NEW b \in BOOLEAN,
           \/ row'[d] = Marked(row[d], s, b)
              /\ (s = Running => b)
           \/ row'[d] = [row[d] EXCEPT !.status = s]
              /\ (s = Running => Reliable \/ "push" \in Requests)
    PROVE  RowChange(d)
<1>1. row[d] \in Row /\ s \in 0..3
    BY DEF TypeOK, TaskTypes, Waiting, Running, Failed
<1>2. CASE row'[d] = Marked(row[d], s, b) /\ (s = Running => b)
    <2> DEFINE y == Marked(row[d], s, b)
    <2>1. y \in Row /\ y.status = s /\ y.deadline = b
        BY <1>1 DEF Row, Marked
    <2> HIDE DEF y
    <2>2. row'[d] = y
        BY <1>2 DEF y
    <2> QED BY <1>2, <2>1, <2>2 DEF RowChange, MarkedWithDeadline
<1>3. CASE row'[d] = [row[d] EXCEPT !.status = s] /\ (s = Running => Reliable \/ "push" \in Requests)
    <2>1. row'[d] \in Row /\ row'[d].status = s
        BY <1>1, <1>3, StatusUpdate
    <2> QED BY <1>3, <2>1 DEF RowChange, MarkedWithDeadline
<1> QED BY <1>2, <1>3

LEMMA RowIsFresh ==
    ASSUME TypeOK, NEW d \in Devices, row'[d] = FreshRow(row[d].run)
    PROVE  RowChange(d)
<1>1. row[d].run \in Runs
    BY RowFields DEF TypeOK, TaskTypes
<1> QED BY <1>1, FreshRowTypes DEF FreshRow, RowChange

LEMMA OneRowChanges ==
    ASSUME TypeOK, NEW d \in Devices, NEW x, row' = [row EXCEPT ![d] = x],
           row'[d] = x => RowChange(d)
    PROVE  RowsChange
<1>1. row \in [Devices -> Row]
    BY DEF TypeOK, TaskTypes
<1>2. \A e \in Devices : e # d => row'[e] = row[e]
    BY <1>1
<1> QED BY <1>1, <1>2 DEF RowsChange, RowChange

LEMMA RowsUnchanged ==
    ASSUME TypeOK, UNCHANGED row
    PROVE  RowsChange
BY DEF TypeOK, TaskTypes, RowsChange, RowChange

LEMMA NoteSentRows ==
    ASSUME TypeOK, NotesAreReliable, NEW c \in Callers, NoteSent(c)
    PROVE  RowsChange
<1> DEFINE m == noting[c]
<1>1. m \in Message /\ Reliable
    BY DEF NoteSent, NotesAreReliable, TypeOK, WireTypes, Message0
<1>2. m.dev \in Devices /\ row[m.dev] \in Row
    BY <1>1, MessageTypes DEF TypeOK, TaskTypes
<1>3. row' = row \/ row' = [row EXCEPT ![m.dev] = [row[m.dev] EXCEPT !.status = Running]]
    BY DEF NoteSent
<1>4. ASSUME row'[m.dev] = [row[m.dev] EXCEPT !.status = Running] PROVE RowChange(m.dev)
    <2>1. row'[m.dev] \in Row /\ row'[m.dev].status = Running
        BY <1>2, <1>4 DEF Row, Running
    <2> QED BY <1>1, <2>1 DEF RowChange, MarkedWithDeadline
<1> QED BY <1>2, <1>3, <1>4, OneRowChanges, RowsUnchanged

LEMMA RowsStep ==
    ASSUME TypeOK, NotesAreReliable, [Next]_vars
    PROVE  RowsChange
<1>0. row \in [Devices -> Row] /\ lastRun \in Runs
    BY DEF TypeOK, TaskTypes, QueueTypes
<1>1. CASE DispatchNext
    <2>1. CASE DispatchReset
        <3>1. dispatch.run \in Runs
            BY DEF TypeOK, ServerTypes
        <3>2. FreshRow(dispatch.run) \in Row /\ FreshRow(dispatch.run).status = Waiting
            BY <3>1, FreshRowTypes DEF FreshRow
        <3> QED BY <2>1, <3>2 DEF DispatchReset, RowsChange, RowChange
    <2>2. CASE DispatchUpdate
        <3>1. ASSUME NEW d \in Devices PROVE RowChange(d)
            <4>1. row'[d] = row[d] \/ row'[d] = Marked(row[d], Running, TRUE)
                BY <2>2 DEF DispatchUpdate, SetRows
            <4> QED BY <4>1, RowIsSet DEF RowChange, Running
        <3> QED BY <2>2, <3>1 DEF DispatchUpdate, SetRows, RowsChange
    <2>3. CASE NoteSent("dispatch")
        BY <2>3, NoteSentRows DEF Callers
    <2>4. CASE UNCHANGED row
        BY <2>4, RowsUnchanged
    <2> QED BY <1>1, <2>1, <2>2, <2>3, <2>4
            DEF DispatchNext, DispatchTake, DispatchRead, DispatchSend, DispatchFinish, DispatchRelease
<1>2. CASE CronNext
    <2>1. CASE CronMark
        <3>1. ASSUME NEW d \in Devices PROVE RowChange(d)
            <4>1. row'[d] = row[d] \/ row'[d] = FreshRow(row[d].run)
                BY <2>1 DEF CronMark, SetRows
            <4> QED BY <4>1, RowIsFresh DEF RowChange
        <3> QED BY <2>1, <3>1 DEF CronMark, SetRows, RowsChange
    <2>2. CASE UNCHANGED row
        BY <2>2, RowsUnchanged
    <2> QED BY <1>2, <2>1, <2>2 DEF CronNext, CronTick, CronEnqueue
<1>3. CASE OperatorNext
    <2>1. CASE StopRows
        <3>1. ASSUME NEW d \in Devices PROVE RowChange(d)
            <4>1. row'[d] = row[d] \/ row'[d] = Marked(row[d], Failed, FALSE)
                BY <2>1 DEF StopRows, SetRows
            <4>2. Failed \in {Waiting, Running, Failed} /\ Failed # Running
                BY DEF Waiting, Running, Failed
            <4> QED BY <4>1, <4>2, RowIsSet, Zenon DEF RowChange
        <3> QED BY <2>1, <3>1 DEF StopRows, SetRows, RowsChange
    <2>2. CASE ResetRows
        <3>1. ASSUME NEW d \in Devices PROVE RowChange(d)
            <4>1. row'[d] = row[d] \/ row'[d] = FreshRow(row[d].run)
                BY <2>2 DEF ResetRows, SetRows
            <4> QED BY <4>1, RowIsFresh DEF RowChange
        <3> QED BY <2>2, <3>1 DEF ResetRows, SetRows, RowsChange
    <2>3. CASE RepairReset
        <3>1. PICK m \in operator.todo : row' = [row EXCEPT ![m.dev] = FreshRow(m.run)]
            BY <2>3 DEF RepairReset
        <3>2. m.dev \in Devices /\ m.run \in Runs
            BY MessageTypes DEF TypeOK, ServerTypes
        <3>3. FreshRow(m.run) \in Row /\ FreshRow(m.run).status = Waiting
            BY <3>2, FreshRowTypes DEF FreshRow
        <3> QED BY <3>1, <3>2, <3>3, OneRowChanges DEF RowChange
    <2>4. CASE RepairMark
        <3>1. ASSUME NEW d \in Devices PROVE RowChange(d)
            <4>1. row'[d] = row[d] \/ row'[d] = Marked(row[d], Running, TRUE)
                BY <2>4 DEF RepairMark, SetRows
            <4> QED BY <4>1, RowIsSet DEF RowChange, Running
        <3> QED BY <2>4, <3>1 DEF RepairMark, SetRows, RowsChange
    <2>5. CASE PushMark
        <3>1. "push" \in Requests
            BY <2>5 DEF PushMark, NotesAreReliable
        <3>2. ASSUME NEW d \in Devices PROVE RowChange(d)
            <4>1. row'[d] = row[d] \/ row'[d] = [row[d] EXCEPT !.status = Running]
                BY <2>5 DEF PushMark, SetRows
            <4> QED BY <4>1, <3>1, RowIsSet DEF RowChange, Running
        <3> QED BY <2>5, <3>2 DEF PushMark, SetRows, RowsChange
    <2>6. CASE ReleaseDevices
        <3>1. ASSUME NEW d \in Devices PROVE RowChange(d)
            <4>1. row'[d] = row[d] \/ row'[d] = [row[d] EXCEPT !.status = Waiting]
                BY <2>6 DEF ReleaseDevices, SetRows
            <4>2. Waiting \in {Waiting, Running, Failed} /\ Waiting # Running
                BY DEF Waiting, Running, Failed
            <4> QED BY <4>1, <4>2, RowIsSet, Zenon DEF RowChange
        <3> QED BY <2>6, <3>1 DEF ReleaseDevices, SetRows, RowsChange
    <2>7. CASE NoteSent("operator")
        BY <2>7, NoteSentRows DEF Callers
    <2>8. CASE UNCHANGED row
        BY <2>8, RowsUnchanged
    <2> QED BY <1>3, <2>1, <2>2, <2>3, <2>4, <2>5, <2>6, <2>7, <2>8
            DEF OperatorNext, Start, StartMark, StartEnqueue, StartReply, Stop, StopSelect, StopSend, StopTask,
                Reset, ResetTask, Repair, RepairSend, RepairFinish, Push
<1>4. CASE WatchdogNext
    <2>1. CASE WatchdogExpire
        <3>1. PICK m \in watchdog.todo :
                \/ row' = [row EXCEPT ![m.dev] = Marked(row[m.dev], Failed, FALSE)]
                \/ row' = row
            BY <2>1 DEF WatchdogExpire
        <3>2. m.dev \in Devices
            BY MessageTypes DEF TypeOK, ServerTypes
        <3>3. row[m.dev] \in Row
            BY <1>0, <3>2
        <3> DEFINE x == Marked(row[m.dev], Failed, FALSE)
        <3>4. x \in Row /\ x.status = Failed
            <4>1. Failed \in 0..3
                BY DEF Failed
            <4> QED BY <3>3, <4>1, MarkedTypes
        <3>5. row' = [row EXCEPT ![m.dev] = x] \/ row' = row
            BY <1>0, <3>1, <3>2
        <3> HIDE DEF x
        <3> QED BY <3>2, <3>4, <3>5, OneRowChanges, RowsUnchanged DEF RowChange
    <2>2. CASE NoteSent("watchdog")
        BY <2>2, NoteSentRows DEF Callers
    <2>3. CASE UNCHANGED row
        BY <2>3, RowsUnchanged
    <2> QED BY <1>4, <2>1, <2>2, <2>3 DEF WatchdogNext, WatchdogScan, WatchdogCancel
<1>5. CASE WireNext
    <2>1. CASE NoteSent("retry")
        BY <2>1, NoteSentRows DEF Callers
    <2>2. CASE UNCHANGED row
        BY <2>2, RowsUnchanged
    <2> QED BY <1>5, <2>1, <2>2 DEF WireNext, Resend, DeliveryEnds, PhoneTake
<1>6. ASSUME NEW r \in reports, StatusArrives(r) PROVE RowsChange
    <2>1. CASE Matches(r)
        <3>1. r \in Report
            BY DEF TypeOK, PhoneTypes
        <3>2. r.dev \in Devices /\ r.status \in 1..3
            BY <3>1 DEF Report
        <3>3. row[r.dev] \in Row /\ r.run \in {NoRun, row[r.dev].run}
            BY <1>0, <2>1, <3>2 DEF Matches
        <3> DEFINE x == Marked(row[r.dev], r.status, r.status = Running)
        <3>4. /\ x \in Row /\ x.run = row[r.dev].run
              /\ x.status = r.status /\ x.deadline = (r.status = Running)
            <4>1. r.status \in 0..3 /\ (r.status = Running) \in BOOLEAN
                BY <3>2
            <4> QED BY <3>3, <4>1, MarkedTypes
        <3>5. row' = [row EXCEPT ![r.dev] = x]
            BY <1>0, <1>6, <2>1, <3>2 DEF StatusArrives
        <3> HIDE DEF x
        <3>6. ASSUME row'[r.dev] = x PROVE RowChange(r.dev)
            BY <3>3, <3>4, <3>6 DEF RowChange
        <3> QED BY <3>2, <3>5, <3>6, OneRowChanges
    <2>2. CASE ~Matches(r)
        BY <1>6, <2>2, RowsUnchanged DEF StatusArrives
    <2> QED BY <2>1, <2>2
<1>7. ASSUME NEW d \in Devices, PhoneNext(d) PROVE RowsChange
    BY <1>7, RowsUnchanged
    DEF PhoneNext, PhoneBegin, PhoneRefuse, PhoneFinish, PhoneCleanup, PhoneCancel, PhoneCrash, PhoneRecover
<1>8. CASE UNCHANGED vars
    BY <1>8, RowsUnchanged DEF vars
<1> QED BY <1>1, <1>2, <1>3, <1>4, <1>5, <1>6, <1>7, <1>8 DEF Next
-----------------------------------------------------------------------------
(* The types of the rest of the state, one group of variables at a time.    *)

LEMMA TaskTypesStep ==
    ASSUME TypeOK, RowsChange, [Next]_vars
    PROVE  TaskTypes'
<1>1. row' \in [Devices -> Row]
    <2>1. ASSUME NEW d \in Devices PROVE row'[d] \in Row
        BY DEF TypeOK, TaskTypes, RowsChange, RowChange
    <2> QED BY <2>1 DEF RowsChange
<1>2. task \in 0..2
    BY DEF TypeOK, TaskTypes
<1>3. task' \in 0..2
    <2>0. CASE UNCHANGED task \/ task' \in {0, 1}
        BY <1>2, <2>0
    <2>1. CASE DispatchNext
        <3>1. CASE DispatchFinish
            BY <2>0, <3>1 DEF DispatchFinish
        <3>2. CASE UNCHANGED task
            BY <2>0, <3>2
        <3> QED BY <2>1, <3>1, <3>2 DEF DispatchNext, DispatchTake, DispatchRead, DispatchReset, DispatchSend,
                                    DispatchUpdate, DispatchRelease, NoteSent
    <2>2. CASE CronNext
        BY <2>0, <2>2 DEF CronNext, CronTick, CronMark, CronEnqueue
    <2>3. CASE OperatorNext
        <3>1. CASE StartMark \/ StartEnqueue \/ StopTask \/ ResetTask \/ RepairFinish
            BY <2>0, <3>1 DEF StartMark, StartEnqueue, StopTask, ResetTask, RepairFinish
        <3>2. CASE UNCHANGED task
            BY <2>0, <3>2
        <3> QED BY <2>3, <3>1, <3>2
                DEF OperatorNext, Start, StartReply, Stop, StopSelect, StopSend, StopRows, Reset, ResetRows, Repair,
                    RepairReset, RepairSend, RepairMark, Push, PushMark, ReleaseDevices, NoteSent
    <2>4. CASE WatchdogNext
        <3>1. CASE WatchdogExpire
            BY <1>2, <3>1 DEF WatchdogExpire, CompletesFrom
        <3>2. CASE UNCHANGED task
            BY <2>0, <3>2
        <3> QED BY <2>4, <3>1, <3>2 DEF WatchdogNext, WatchdogScan, WatchdogCancel, NoteSent
    <2>5. CASE WireNext
        BY <1>2, <2>5 DEF WireNext, Resend, DeliveryEnds, PhoneTake, NoteSent
    <2>6. ASSUME NEW r \in reports, StatusArrives(r) PROVE task' \in 0..2
        BY <1>2, <2>6 DEF StatusArrives, CompletesFrom
    <2>7. ASSUME NEW d \in Devices, PhoneNext(d) PROVE task' \in 0..2
        BY <1>2, <2>7 DEF PhoneNext, PhoneBegin, PhoneRefuse, PhoneFinish, PhoneCleanup, PhoneCancel, PhoneCrash,
                          PhoneRecover
    <2>8. CASE UNCHANGED vars
        BY <1>2, <2>8 DEF vars
    <2> QED BY <2>1, <2>2, <2>3, <2>4, <2>5, <2>6, <2>7, <2>8 DEF Next
<1> QED BY <1>1, <1>3 DEF TaskTypes

LEMMA CountTypesStep ==
    ASSUME TypeOK, [Next]_vars
    PROVE  CountTypes'
<1>1. requests \in 0..MaxRequests /\ disturbances \in 0..MaxDisturbances /\ givenUp \subseteq Message
    BY DEF TypeOK, CountTypes
<1>2. CASE \E kind \in AllRequests : Request(kind)
    BY <1>1, <1>2, RequestsAssumption DEF Request, Disturbance, CountTypes
<1>3. CASE Disturbance /\ UNCHANGED <<requests, givenUp>>
    BY <1>1, <1>3, RequestsAssumption DEF Disturbance, CountTypes
<1>4. CASE UNCHANGED counts
    BY <1>1, <1>4 DEF counts, CountTypes
<1>5. CASE DispatchNext
    BY <1>4, <1>5 DEF DispatchNext, DispatchTake, DispatchRead, DispatchReset, DispatchSend, DispatchUpdate,
                      DispatchFinish, DispatchRelease, NoteSent
<1>6. CASE CronNext
    BY <1>2, <1>4, <1>6 DEF CronNext, CronTick, CronMark, CronEnqueue, AllRequests, NewWork
<1>g. \A d \in Devices : CancelMsg(d, row[d].run) \in Message
    BY MessageTypes, RowFields DEF TypeOK, TaskTypes
<1>s. CASE StopRows
    <2>1. {CancelMsg(d, row[d].run) : d \in RunningDevices} \subseteq Message
        BY <1>g DEF RunningDevices
    <2> QED BY <1>1, <1>s, <2>1 DEF StopRows, CountTypes
<1>7. CASE OperatorNext
    BY <1>2, <1>4, <1>s, <1>7 DEF OperatorNext, Start, StartMark, StartEnqueue, StartReply, Stop, StopSelect, StopSend,
                      StopTask, Reset, ResetTask, ResetRows, Repair, RepairReset, RepairSend,
                      RepairMark, RepairFinish, Push, PushMark, ReleaseDevices, NoteSent, AllRequests, NewWork
<1>8. CASE WatchdogNext
    <2>1. CASE WatchdogScan
        <3>1. watchdog'.todo = {CancelMsg(d, row[d].run) : d \in Overdue}
            BY <2>1 DEF WatchdogScan, TypeOK, ServerTypes
        <3>2. watchdog'.todo \subseteq Message
            BY <1>g, <3>1 DEF Overdue, RunningDevices
        <3> QED BY <1>1, <2>1, <3>2 DEF WatchdogScan, CountTypes
    <2> QED BY <1>4, <1>8, <2>1 DEF WatchdogNext, WatchdogExpire, WatchdogCancel, NoteSent
<1>9. CASE WireNext
    BY <1>4, <1>9 DEF WireNext, Resend, DeliveryEnds, PhoneTake, NoteSent
<1>10. ASSUME NEW r \in reports, StatusArrives(r) PROVE CountTypes'
    BY <1>3, <1>4, <1>10 DEF StatusArrives, counts
<1>11. ASSUME NEW d \in Devices, PhoneNext(d) PROVE CountTypes'
    BY <1>3, <1>4, <1>11 DEF PhoneNext, PhoneBegin, PhoneRefuse, PhoneFinish, PhoneCleanup, PhoneCancel,
                      PhoneCrash, PhoneRecover
<1>12. CASE UNCHANGED vars
    BY <1>4, <1>12 DEF vars
<1> QED BY <1>5, <1>6, <1>7, <1>8, <1>9, <1>10, <1>11, <1>12 DEF Next
\* Requests that are made are counted, so there is a bound on the runs.
LEMMA RunsStep ==
    ASSUME TypeOK, RunsAreRequested, [Next]_vars
    PROVE  RunsAreRequested'
<1> USE DEF RunsAreRequested, Owed, One
<1>0. /\ lastRun \in Nat /\ requests \in Nat /\ queued \in BOOLEAN /\ pending \in BOOLEAN
      /\ dispatch \in [pc : DispatchPc, run : Runs, todo : SUBSET Message, sent : SUBSET Message]
      /\ operator \in [pc : OperatorPc, todo : SUBSET Message, sent : SUBSET Message, at : Message0]
    BY RunTypes DEF TypeOK, QueueTypes, CountTypes, ServerTypes
<1>1. CASE UNCHANGED <<lastRun, queued, cron, operator.pc, dispatch.pc>>
           /\ (UNCHANGED requests \/ requests' = requests + 1)
    BY <1>0, <1>1
<1>2. CASE DispatchNext
    <2>1. CASE DispatchTake
        BY <1>0, <2>1 DEF DispatchTake, counts
    <2>2. CASE DispatchRead
        <3>1. CASE task = 1
            <4>1. /\ lastRun' = lastRun + 1 /\ dispatch.pc = "taken"
                  /\ dispatch' = [dispatch EXCEPT !.pc = "resetting", !.run = lastRun + 1]
                  /\ UNCHANGED <<queued, operator, cron, requests>>
                BY <2>2, <3>1 DEF DispatchRead, counts
            <4>2. dispatch'.pc = "resetting"
                BY <1>0, <4>1
            <4> QED BY <1>0, <4>1, <4>2
        <3>2. CASE task # 1
            BY <1>0, <2>2, <3>2 DEF DispatchRead, counts
        <3> QED BY <3>1, <3>2
    <2>3. CASE DispatchReset \/ DispatchSend \/ DispatchUpdate \/ DispatchFinish
        <3>1. dispatch.pc # "taken" /\ dispatch'.pc # "taken"
            <4>1. CASE DispatchReset
                BY <1>0, <4>1 DEF DispatchReset
            <4>2. CASE DispatchSend
                BY <1>0, <4>2 DEF DispatchSend
            <4>3. CASE DispatchUpdate \/ DispatchFinish
                BY <1>0, <4>3 DEF DispatchUpdate, DispatchFinish
            <4> QED BY <2>3, <4>1, <4>2, <4>3
        <3>2. UNCHANGED <<lastRun, queued, operator, cron, requests>>
            BY <2>3 DEF DispatchReset, DispatchSend, DispatchUpdate, DispatchFinish, queueVars, counts
        <3> QED BY <1>0, <3>1, <3>2
    <2>4. CASE DispatchRelease
        BY <1>0, <2>4 DEF DispatchRelease, IdleDispatch, counts
    <2>5. CASE NoteSent("dispatch")
        BY <1>1, <2>5 DEF NoteSent, queueVars, serverVars, counts
    <2> QED BY <1>2, <2>1, <2>2, <2>3, <2>4, <2>5 DEF DispatchNext
<1>3. CASE CronNext
    BY <1>0, <1>3, RequestsAssumption
    DEF CronNext, CronTick, CronMark, CronEnqueue, Enqueue, QueueFull, Request, NewWork, queueVars, counts
<1>4. CASE OperatorNext
    <2>1. CASE Start
        BY <1>0, <2>1 DEF Start, Request, NewWork, OperatorMoves, queueVars
    <2>2. CASE StartMark
        BY <1>0, <2>2 DEF StartMark, OperatorMoves, queueVars, counts
    <2>3. CASE StartEnqueue
        BY <1>0, <2>3 DEF StartEnqueue, Enqueue, QueueFull, OperatorMoves, IdleOperator, counts
    <2>4. CASE Stop \/ Reset
        BY <1>0, <2>4 DEF Stop, Reset, Request, NewWork, OperatorMoves, queueVars
    <2>5. CASE StartReply \/ StopRows \/ ResetRows \/ RepairFinish \/ PushMark
        BY <1>0, <2>5 DEF StartReply, StopRows, ResetRows, RepairFinish, PushMark, IdleOperator, queueVars, counts
    <2>6. CASE StopSelect \/ StopSend \/ StopTask \/ ResetTask
        <3>1. operator.pc \notin {"start", "enqueue"} /\ operator'.pc \notin {"start", "enqueue"}
            <4>1. CASE StopSelect
                BY <1>0, <4>1 DEF StopSelect
            <4>2. CASE StopSend
                BY <1>0, <4>2 DEF StopSend
            <4>3. CASE StopTask \/ ResetTask
                BY <1>0, <4>3 DEF StopTask, ResetTask, OperatorMoves
            <4> QED BY <2>6, <4>1, <4>2, <4>3
        <3>2. UNCHANGED <<lastRun, queued, dispatch, cron, requests>>
            BY <2>6 DEF StopSelect, StopSend, StopTask, ResetTask, queueVars, counts
        <3> QED BY <1>0, <3>1, <3>2
    <2>7. CASE Repair
        BY <1>0, <2>7 DEF Repair, Request, NewWork
    <2>8. CASE RepairReset \/ RepairSend \/ RepairMark
        <3>1. operator.pc \notin {"start", "enqueue"} /\ operator'.pc \notin {"start", "enqueue"}
            <4>1. CASE RepairReset
                BY <1>0, <4>1 DEF RepairReset
            <4>2. CASE RepairSend
                BY <1>0, <4>2 DEF RepairSend
            <4>3. CASE RepairMark
                BY <1>0, <4>3 DEF RepairMark
            <4> QED BY <2>8, <4>1, <4>2, <4>3
        <3>2. UNCHANGED <<lastRun, queued, dispatch, cron, requests>>
            BY <2>8 DEF RepairReset, RepairSend, RepairMark, queueVars, counts
        <3> QED BY <1>0, <3>1, <3>2
    <2>9. CASE Push
        BY <1>0, <2>9 DEF Push, Request, NewWork, queueVars
    <2>10. CASE ReleaseDevices
        BY <1>0, <2>10 DEF ReleaseDevices, Request, NewWork, queueVars, serverVars
    <2>11. CASE NoteSent("operator")
        BY <1>1, <2>11 DEF NoteSent, queueVars, serverVars, counts
    <2> QED BY <1>4, <2>1, <2>2, <2>3, <2>4, <2>5, <2>6, <2>7, <2>8, <2>9, <2>10, <2>11 DEF OperatorNext
<1>5. CASE WatchdogNext
    BY <1>1, <1>5 DEF WatchdogNext, WatchdogScan, WatchdogExpire, WatchdogCancel, NoteSent, queueVars, serverVars, counts
<1>6. CASE WireNext
    BY <1>1, <1>6 DEF WireNext, Resend, DeliveryEnds, PhoneTake, NoteSent, queueVars, serverVars, counts
<1>7. ASSUME NEW r \in reports, StatusArrives(r) PROVE RunsAreRequested'
    BY <1>1, <1>7 DEF StatusArrives, queueVars, serverVars
<1>8. ASSUME NEW d \in Devices, PhoneNext(d) PROVE RunsAreRequested'
    BY <1>1, <1>8 DEF PhoneNext, PhoneBegin, PhoneRefuse, PhoneFinish, PhoneCleanup, PhoneCancel, PhoneCrash,
                      PhoneRecover, queueVars, serverVars, counts
<1>9. CASE UNCHANGED vars
    BY <1>1, <1>9 DEF vars, queueVars, serverVars, counts
<1> QED BY <1>2, <1>3, <1>4, <1>5, <1>6, <1>7, <1>8, <1>9 DEF Next

LEMMA SumBound == \A a, b, c \in Nat : a + b <= c => a <= c
OBVIOUS

LEMMA QueueTypesStep ==
    ASSUME TypeOK, RunsAreRequested', CountTypes', [Next]_vars
    PROVE  QueueTypes'
<1>0. lastRun \in Nat /\ lastRun \in Runs /\ queued \in BOOLEAN /\ pending \in BOOLEAN
    BY RunTypes DEF TypeOK, QueueTypes
<1>1. lastRun' \in {lastRun, lastRun + 1} /\ queued' \in BOOLEAN /\ pending' \in BOOLEAN
    <2>1. CASE DispatchNext
        BY <1>0, <2>1 DEF DispatchNext, DispatchTake, DispatchRead, DispatchReset, DispatchSend, DispatchUpdate,
                          DispatchFinish, DispatchRelease, NoteSent, queueVars
    <2>2. CASE CronNext
        BY <1>0, <2>2 DEF CronNext, CronTick, CronMark, CronEnqueue, Enqueue, queueVars
    <2>3. CASE OperatorNext
        <3>1. CASE StartEnqueue
            BY <1>0, <3>1 DEF StartEnqueue, Enqueue
        <3>2. CASE Repair
            BY <1>0, <3>2 DEF Repair
        <3>3. CASE UNCHANGED queueVars
            BY <1>0, <3>3 DEF queueVars
        <3> QED BY <2>3, <3>1, <3>2, <3>3
                DEF OperatorNext, Start, StartMark, StartReply, Stop, StopSelect, StopSend, StopTask, StopRows, Reset,
                    ResetTask, ResetRows, RepairReset, RepairSend, RepairMark, RepairFinish, Push, PushMark,
                    ReleaseDevices, NoteSent
    <2>4. CASE UNCHANGED queueVars
        BY <1>0, <2>4 DEF queueVars
    <2>5. CASE WatchdogNext \/ WireNext
        BY <2>4, <2>5 DEF WatchdogNext, WatchdogScan, WatchdogExpire, WatchdogCancel, WireNext, Resend, DeliveryEnds,
                          PhoneTake, NoteSent
    <2>6. ASSUME NEW r \in reports, StatusArrives(r) PROVE UNCHANGED queueVars
        BY <2>6 DEF StatusArrives
    <2>7. ASSUME NEW d \in Devices, PhoneNext(d) PROVE UNCHANGED queueVars
        BY <2>7 DEF PhoneNext, PhoneBegin, PhoneRefuse, PhoneFinish, PhoneCleanup, PhoneCancel, PhoneCrash,
                    PhoneRecover
    <2> QED BY <2>1, <2>2, <2>3, <2>4, <2>5, <2>6, <2>7 DEF Next, vars
<1>2. Owed' \in Nat /\ requests' \in 0..MaxRequests /\ lastRun' + Owed' <= requests'
    BY DEF Owed, One, CountTypes, RunsAreRequested
<1>3. lastRun' \in 0..MaxRequests
    <2>1. lastRun' \in Nat
        BY <1>0, <1>1
    <2>2. requests' \in Nat /\ requests' <= MaxRequests /\ MaxRequests \in Nat
        BY <1>2, RequestsAssumption
    <2>3. lastRun' <= requests'
        BY <1>2, <2>1, <2>2, SumBound, Zenon
    <2> QED BY <2>1, <2>2, <2>3
<1> QED BY <1>1, <1>3 DEF QueueTypes, Runs
LEMMA AcceptedTypes ==
    ASSUME WireTypes, NEW caller \in Callers, NEW m \in Message, Accepted(caller, m)
    PROVE  WireTypes'
<1>1. delivery' \in [Message -> {"none", "live", "taken"}]
    BY DEF Accepted, Recorded, Over, WireTypes
<1>2. inbox' \subseteq Message /\ noting' \in [Callers -> Message0]
    BY DEF Accepted, WireTypes, Message0
<1> QED BY <1>1, <1>2 DEF WireTypes

LEMMA RefusedTypes ==
    ASSUME WireTypes, NEW m \in Message, Refused(m)
    PROVE  WireTypes'
<1>1. delivery' \in [Message -> {"none", "live", "taken"}]
    BY DEF Refused, Recorded, Over, WireTypes
<1> QED BY <1>1 DEF Refused, WireTypes

LEMMA NoteSentTypes ==
    ASSUME WireTypes, NEW caller \in Callers, NoteSent(caller)
    PROVE  WireTypes'
BY DEF NoteSent, WireTypes, Message0

LEMMA MessageFields ==
    ASSUME TypeOK
    PROVE  /\ dispatch.todo \subseteq Message /\ dispatch.sent \subseteq Message /\ dispatch.run \in Runs
           /\ operator.todo \subseteq Message /\ operator.sent \subseteq Message /\ operator.at \in Message0
           /\ watchdog.todo \subseteq Message /\ watchdog.sending \in Message0
BY DEF TypeOK, ServerTypes

\* Only an operator busy with a message sends or marks one.
OperatorHasMessage ==
    operator.pc \in {"sending", "marking", "pushed"} => operator.at \in Message

LEMMA WireTypesStep ==
    ASSUME TypeOK, OperatorHasMessage, [Next]_vars
    PROVE  WireTypes'
<1>0. WireTypes
    BY DEF TypeOK
<1>1. CASE UNCHANGED wireVars
    BY <1>0, <1>1 DEF wireVars, WireTypes
<1>2. CASE \E caller \in Callers, m \in Message : Accepted(caller, m) \/ Refused(m)
    BY <1>0, <1>2, AcceptedTypes, RefusedTypes
<1>3. CASE \E caller \in Callers : NoteSent(caller)
    BY <1>0, <1>3, NoteSentTypes
<1>4. CASE DispatchNext
    <2>1. CASE DispatchSend
        BY <1>2, <2>1, MessageFields DEF DispatchSend, Callers
    <2>2. CASE NoteSent("dispatch")
        BY <1>3, <2>2 DEF Callers
    <2>3. CASE UNCHANGED wireVars
        BY <1>1, <2>3
    <2> QED BY <1>4, <2>1, <2>2, <2>3
            DEF DispatchNext, DispatchTake, DispatchRead, DispatchReset, DispatchUpdate, DispatchFinish, DispatchRelease
<1>5. CASE CronNext
    BY <1>1, <1>5 DEF CronNext, CronTick, CronMark, CronEnqueue
<1>6. CASE OperatorNext
    <2>1. CASE Stop \/ Reset
        <3>1. delivery' \in [Message -> {"none", "live", "taken"}]
            BY <1>0, <2>1 DEF Stop, Reset, CancelDeliveries, Over, WireTypes
        <3> QED BY <1>0, <2>1, <3>1 DEF Stop, Reset, WireTypes
    <2>2. CASE StopSend
        BY <1>2, <2>2, MessageFields DEF StopSend, Callers
    <2>3. CASE RepairSend
        BY <1>2, <2>3 DEF RepairSend, OperatorHasMessage, Callers
    <2>4. CASE Push
        <3>1. PICK d \in Devices : Accepted("operator", TaskMsg(d, NoRun)) \/ Refused(TaskMsg(d, NoRun))
            BY <2>4 DEF Push
        <3>2. TaskMsg(d, NoRun) \in Message
            BY MessageTypes, RunTypes
        <3> QED BY <1>2, <3>1, <3>2 DEF Callers
    <2>5. CASE NoteSent("operator")
        BY <1>3, <2>5 DEF Callers
    <2>6. CASE UNCHANGED wireVars
        BY <1>1, <2>6
    <2> QED BY <1>6, <2>1, <2>2, <2>3, <2>4, <2>5, <2>6
            DEF OperatorNext, Start, StartMark, StartEnqueue, StartReply, StopSelect, StopTask, StopRows, ResetTask,
                ResetRows, Repair, RepairReset, RepairMark, RepairFinish, PushMark, ReleaseDevices
<1>7. CASE WatchdogNext
    <2>1. CASE WatchdogCancel
        <3>1. watchdog.sending \in Message
            BY <2>1, MessageFields DEF WatchdogCancel, Message0
        <3> QED BY <1>2, <2>1, <3>1 DEF WatchdogCancel, Callers
    <2>2. CASE NoteSent("watchdog")
        BY <1>3, <2>2 DEF Callers
    <2>3. CASE UNCHANGED wireVars
        BY <1>1, <2>3
    <2> QED BY <1>7, <2>1, <2>2, <2>3 DEF WatchdogNext, WatchdogScan, WatchdogExpire
<1>8. CASE WireNext
    <2>1. ASSUME NEW m \in Message, Resend(m) PROVE WireTypes'
        BY <1>0, <2>1 DEF Resend, WireTypes, Message0, Callers
    <2>2. ASSUME NEW m \in Message, DeliveryEnds(m) PROVE WireTypes'
        <3>1. delivery' \in [Message -> {"none", "live", "taken"}]
            BY <1>0, <2>2 DEF DeliveryEnds, Over, WireTypes
        <3> QED BY <1>0, <2>2, <3>1 DEF DeliveryEnds, WireTypes
    <2>3. ASSUME NEW m \in Message, PhoneTake(m) PROVE WireTypes'
        BY <1>0, <2>3 DEF PhoneTake, WireTypes
    <2>4. CASE NoteSent("retry")
        BY <1>3, <2>4 DEF Callers
    <2> QED BY <1>8, <2>1, <2>2, <2>3, <2>4 DEF WireNext
<1>9. ASSUME NEW r \in reports, StatusArrives(r) PROVE WireTypes'
    BY <1>1, <1>9 DEF StatusArrives
<1>10. ASSUME NEW d \in Devices, PhoneNext(d) PROVE WireTypes'
    BY <1>1, <1>10 DEF PhoneNext, PhoneBegin, PhoneRefuse, PhoneFinish, PhoneCleanup, PhoneCancel, PhoneCrash,
                       PhoneRecover
<1>11. CASE UNCHANGED vars
    BY <1>1, <1>11 DEF vars
<1> QED BY <1>4, <1>5, <1>6, <1>7, <1>8, <1>9, <1>10, <1>11 DEF Next
LEMMA SendStatusTypes ==
    ASSUME PhoneTypes, NEW d \in Devices, NEW r \in Runs, NEW s \in {Running, Done, Failed}, SendStatus(Rep(d, r, s))
    PROVE  reports' \subseteq Report /\ reported' \subseteq Report
<1>1. Rep(d, r, s) \in Report
    BY DEF Rep, Report, Running, Done, Failed
<1> QED BY <1>1 DEF SendStatus, PhoneTypes

LEMMA PhoneTypesStep ==
    ASSUME TypeOK, [Next]_vars
    PROVE  PhoneTypes'
<1>0. /\ handling \in [Devices -> Message0]
      /\ agent \in [Devices -> [phase : {"down", "idle", "running", "ended"}, run : Runs]]
      /\ reports \subseteq Report /\ reported \subseteq Report
    BY DEF TypeOK, PhoneTypes
<1>1. CASE UNCHANGED phoneVars
    BY <1>0, <1>1 DEF phoneVars, PhoneTypes
<1>2. ASSUME NEW d \in Devices, PhoneNext(d) PROVE PhoneTypes'
    <2>1. /\ IdleAgent \in [phase : {"down", "idle", "running", "ended"}, run : Runs]
          /\ NoRun \in Runs
        BY RunTypes DEF IdleAgent
    <2>2. agent[d].run \in Runs /\ (handling[d].kind \in Kinds => handling[d].run \in Runs)
        BY <1>0, MessageTypes, RunTypes DEF Message0, Nothing
    <2>3. handling' = [handling EXCEPT ![d] = Nothing] => handling' \in [Devices -> Message0]
        BY <1>0 DEF Message0
    <2>4. PhoneTypes
        BY DEF TypeOK
    <2>5. CASE PhoneBegin(d)
        <3>1. handling[d].run \in Runs
            BY <2>2, <2>5 DEF PhoneBegin, Kinds
        <3>2. reports' \subseteq Report /\ reported' \subseteq Report
            BY <2>4, <2>5, <3>1, SendStatusTypes DEF PhoneBegin
        <3> QED BY <1>0, <2>3, <2>5, <3>1, <3>2 DEF PhoneBegin, Handled, PhoneTypes
    <2>6. CASE PhoneRefuse(d)
        <3>1. handling[d].run \in Runs
            BY <2>2, <2>6 DEF PhoneRefuse, Kinds
        <3>2. reports' \subseteq Report /\ reported' \subseteq Report
            BY <2>4, <2>6, <3>1, SendStatusTypes DEF PhoneRefuse
        <3> QED BY <1>0, <2>3, <2>6, <3>2 DEF PhoneRefuse, Handled, PhoneTypes
    <2>7. CASE PhoneFinish(d)
        <3>1. reports' \subseteq Report /\ reported' \subseteq Report
            BY <2>2, <2>4, <2>7, SendStatusTypes DEF PhoneFinish, Ends
        <3> QED BY <1>0, <2>7, <3>1 DEF PhoneFinish, Ends, PhoneTypes
    <2>8. CASE PhoneCleanup(d)
        BY <1>0, <2>1, <2>8 DEF PhoneCleanup, PhoneTypes
    <2>9. CASE PhoneCancel(d)
        <3>1. reports' \subseteq Report /\ reported' \subseteq Report
            BY <1>0, <2>2, <2>4, <2>9, SendStatusTypes DEF PhoneCancel, Ends
        <3> QED BY <1>0, <2>1, <2>3, <2>9, <3>1 DEF PhoneCancel, Ends, Handled, PhoneTypes
    <2>10. CASE PhoneCrash(d)
        BY <1>0, <2>1, <2>3, <2>10 DEF PhoneCrash, Handled, PhoneTypes
    <2>11. CASE PhoneRecover(d)
        <3>1. reports' \subseteq Report /\ reported' \subseteq Report
            BY <1>0, <2>2, <2>4, <2>11, SendStatusTypes DEF PhoneRecover
        <3> QED BY <1>0, <2>1, <2>11, <3>1 DEF PhoneRecover, PhoneTypes
    <2> QED BY <1>2, <2>5, <2>6, <2>7, <2>8, <2>9, <2>10, <2>11 DEF PhoneNext
<1>3. CASE WireNext
    <2>1. ASSUME NEW m \in Message, PhoneTake(m) PROVE PhoneTypes'
        BY <1>0, <2>1 DEF PhoneTake, PhoneTypes, Message0
    <2> QED BY <1>1, <1>3, <2>1 DEF WireNext, Resend, DeliveryEnds, NoteSent
<1>4. ASSUME NEW r \in reports, StatusArrives(r) PROVE PhoneTypes'
    BY <1>0, <1>4 DEF StatusArrives, PhoneTypes
<1>5. CASE DispatchNext \/ CronNext
    BY <1>1, <1>5 DEF DispatchNext, DispatchTake, DispatchRead, DispatchReset, DispatchSend, DispatchUpdate,
                      DispatchFinish, DispatchRelease, NoteSent, CronNext, CronTick, CronMark, CronEnqueue
<1>6. CASE OperatorNext
    BY <1>1, <1>6 DEF OperatorNext, Start, StartMark, StartEnqueue, StartReply, Stop, StopSelect, StopSend,
                      StopTask, StopRows, Reset, ResetTask, ResetRows, Repair, RepairReset, RepairSend,
                      RepairMark, RepairFinish, Push, PushMark, ReleaseDevices, NoteSent
<1>7. CASE WatchdogNext
    BY <1>1, <1>7 DEF WatchdogNext, WatchdogScan, WatchdogExpire, WatchdogCancel, NoteSent
<1>8. CASE UNCHANGED vars
    BY <1>1, <1>8 DEF vars
<1> QED BY <1>2, <1>3, <1>4, <1>5, <1>6, <1>7, <1>8 DEF Next

LEMMA IdleTypes ==
    /\ IdleDispatch \in [pc : DispatchPc, run : Runs, todo : SUBSET Message, sent : SUBSET Message]
    /\ IdleOperator \in [pc : OperatorPc, todo : SUBSET Message, sent : SUBSET Message, at : Message0]
BY RunTypes DEF IdleDispatch, IdleOperator, DispatchPc, OperatorPc, Message0

LEMMA ServerTypesStep ==
    ASSUME TypeOK, OperatorHasMessage, QueueTypes', [Next]_vars
    PROVE  ServerTypes'
<1>0. /\ dispatch \in [pc : DispatchPc, run : Runs, todo : SUBSET Message, sent : SUBSET Message]
      /\ operator \in [pc : OperatorPc, todo : SUBSET Message, sent : SUBSET Message, at : Message0]
      /\ cron \in {"idle", "marking", "enqueue"}
      /\ watchdog \in [todo : SUBSET Message, sending : Message0]
    BY DEF TypeOK, ServerTypes
<1>1. CASE UNCHANGED serverVars
    BY <1>0, <1>1 DEF serverVars, ServerTypes
<1>2. \A d \in Devices : row[d].run \in Runs
    BY RowFields DEF TypeOK, TaskTypes
<1>3. CASE DispatchNext
    <2>1. SUFFICES /\ dispatch' \in [pc : DispatchPc, run : Runs, todo : SUBSET Message, sent : SUBSET Message]
                   /\ UNCHANGED <<operator, cron, watchdog>>
        BY <1>0 DEF ServerTypes
    <2>2. CASE DispatchTake
        BY <1>0, <2>2 DEF DispatchTake, DispatchPc
    <2>3. CASE DispatchRead
        BY <1>0, <2>3 DEF DispatchRead, DispatchPc, QueueTypes
    <2>4. CASE DispatchReset
        <3>1. {TaskMsg(d, dispatch.run) : d \in Devices} \subseteq Message
            BY <1>0, MessageTypes
        <3> QED BY <1>0, <2>4, <3>1 DEF DispatchReset, DispatchPc
    <2>5. CASE DispatchSend
        <3>1. PICK m \in dispatch.todo :
                \/ dispatch' = [dispatch EXCEPT !.todo = @ \ {m}, !.sent = @ \cup {m}]
                \/ dispatch' = [dispatch EXCEPT !.todo = @ \ {m}]
            BY <2>5 DEF DispatchSend
        <3>2. dispatch.todo \ {m} \in SUBSET Message /\ dispatch.sent \cup {m} \in SUBSET Message
            BY <1>0, MessageFields
        <3>3. dispatch' \in [pc : DispatchPc, run : Runs, todo : SUBSET Message, sent : SUBSET Message]
            BY <1>0, <3>1, <3>2
        <3> QED BY <2>5, <3>3 DEF DispatchSend
    <2>6. CASE DispatchUpdate \/ DispatchFinish
        BY <1>0, <2>6 DEF DispatchUpdate, DispatchFinish, DispatchPc
    <2>7. CASE DispatchRelease
        BY <2>7, IdleTypes DEF DispatchRelease
    <2>8. CASE NoteSent("dispatch")
        BY <1>0, <2>8 DEF NoteSent, serverVars
    <2> QED BY <1>3, <2>2, <2>3, <2>4, <2>5, <2>6, <2>7, <2>8 DEF DispatchNext
<1>4. CASE CronNext
    BY <1>0, <1>4 DEF CronNext, CronTick, CronMark, CronEnqueue, ServerTypes
<1>5. CASE OperatorNext
    <2>1. SUFFICES /\ operator' \in [pc : OperatorPc, todo : SUBSET Message, sent : SUBSET Message, at : Message0]
                   /\ UNCHANGED <<dispatch, cron, watchdog>>
        BY <1>0 DEF ServerTypes
    <2>2. CASE Start \/ StartMark \/ StopTask \/ ResetTask
        BY <1>0, <2>2 DEF Start, StartMark, StopTask, ResetTask, OperatorMoves, OperatorPc
    <2>3. CASE Stop \/ Reset
        BY <1>0, <2>3 DEF Stop, Reset, OperatorMoves, OperatorPc
    <2>4. CASE StartEnqueue
        BY <1>0, <2>4, IdleTypes DEF StartEnqueue, OperatorMoves, OperatorPc
    <2>5. CASE StartReply \/ StopRows \/ ResetRows \/ RepairFinish \/ PushMark
        BY <2>5, IdleTypes DEF StartReply, StopRows, ResetRows, RepairFinish, PushMark
    <2>6. CASE StopSelect
        <3>1. {CancelMsg(d, row[d].run) : d \in RunningDevices} \subseteq Message
            BY <1>2, MessageTypes DEF RunningDevices
        <3> QED BY <1>0, <2>6, <3>1 DEF StopSelect, OperatorPc
    <2>7. CASE StopSend
        BY <1>0, <2>7 DEF StopSend
    <2>8. CASE Repair
        <3>1. lastRun + 1 \in Runs
            BY <2>8 DEF Repair, QueueTypes
        <3>2. \A S \in SUBSET Devices : {TaskMsg(d, lastRun + 1) : d \in S} \subseteq Message
            BY <3>1, MessageTypes
        <3>3. PICK S \in SUBSET Devices :
                operator' = [operator EXCEPT !.pc = "repair", !.todo = {TaskMsg(d, lastRun + 1) : d \in S}]
            BY <2>8 DEF Repair
        <3>4. {TaskMsg(d, lastRun + 1) : d \in S} \in SUBSET Message
            BY <3>2
        <3>5. operator' \in [pc : OperatorPc, todo : SUBSET Message, sent : SUBSET Message, at : Message0]
            BY <1>0, <3>3, <3>4 DEF OperatorPc
        <3> QED BY <2>8, <3>5 DEF Repair
    <2>9. CASE RepairReset
        <3>1. PICK m \in operator.todo : operator' = [operator EXCEPT !.pc = "sending", !.todo = @ \ {m}, !.at = m]
            BY <2>9 DEF RepairReset
        <3>2. m \in Message0 /\ operator.todo \ {m} \in SUBSET Message
            BY <1>0, MessageFields DEF Message0
        <3>3. operator' \in [pc : OperatorPc, todo : SUBSET Message, sent : SUBSET Message, at : Message0]
            BY <1>0, <3>1, <3>2 DEF OperatorPc
        <3> QED BY <2>9, <3>3 DEF RepairReset
    <2>10. CASE RepairSend
        <3>1. operator.at \in Message
            BY <2>10 DEF RepairSend, OperatorHasMessage
        <3>2. operator.sent \cup {operator.at} \in SUBSET Message /\ Nothing \in Message0
            BY <3>1, MessageFields DEF Message0
        <3>3. \/ operator' = [operator EXCEPT !.pc = "marking", !.sent = @ \cup {operator.at}]
              \/ operator' = [operator EXCEPT !.pc = "repair", !.at = Nothing]
            BY <2>10 DEF RepairSend
        <3>4. operator' \in [pc : OperatorPc, todo : SUBSET Message, sent : SUBSET Message, at : Message0]
            BY <1>0, <3>2, <3>3 DEF OperatorPc
        <3> QED BY <2>10, <3>4 DEF RepairSend
    <2>11. CASE RepairMark
        BY <1>0, <2>11 DEF RepairMark, OperatorPc, Message0
    <2>12. CASE Push
        <3>1. \A d \in Devices : TaskMsg(d, NoRun) \in Message
            BY MessageTypes, RunTypes
        <3>2. PICK d \in Devices :
                \/ operator' = [operator EXCEPT !.pc = "pushed", !.at = TaskMsg(d, NoRun)]
                \/ UNCHANGED operator
            BY <2>12 DEF Push
        <3>3. TaskMsg(d, NoRun) \in Message0
            BY <3>1 DEF Message0
        <3>4. operator' \in [pc : OperatorPc, todo : SUBSET Message, sent : SUBSET Message, at : Message0]
            BY <1>0, <3>2, <3>3 DEF OperatorPc
        <3> QED BY <2>12, <3>4 DEF Push
    <2>13. CASE ReleaseDevices \/ NoteSent("operator")
        BY <1>0, <2>13 DEF ReleaseDevices, NoteSent, serverVars
    <2> QED BY <1>5, <2>2, <2>3, <2>4, <2>5, <2>6, <2>7, <2>8, <2>9, <2>10, <2>11, <2>12, <2>13 DEF OperatorNext
<1>6. CASE WatchdogNext
    <2>1. SUFFICES /\ watchdog' \in [todo : SUBSET Message, sending : Message0]
                   /\ UNCHANGED <<dispatch, operator, cron>>
        BY <1>0 DEF ServerTypes
    <2>2. CASE WatchdogScan
        <3>1. {CancelMsg(d, row[d].run) : d \in Overdue} \subseteq Message
            BY <1>2, MessageTypes DEF Overdue, RunningDevices
        <3> QED BY <1>0, <2>2, <3>1 DEF WatchdogScan
    <2>3. CASE WatchdogExpire
        BY <1>0, <2>3 DEF WatchdogExpire, Message0
    <2>4. CASE WatchdogCancel
        BY <1>0, <2>4 DEF WatchdogCancel, Message0
    <2>5. CASE NoteSent("watchdog")
        BY <1>0, <2>5 DEF NoteSent, serverVars
    <2> QED BY <1>6, <2>2, <2>3, <2>4, <2>5 DEF WatchdogNext
<1>7. CASE WireNext
    BY <1>1, <1>7 DEF WireNext, Resend, DeliveryEnds, PhoneTake, NoteSent
<1>8. ASSUME NEW r \in reports, StatusArrives(r) PROVE ServerTypes'
    BY <1>1, <1>8 DEF StatusArrives
<1>9. ASSUME NEW d \in Devices, PhoneNext(d) PROVE ServerTypes'
    BY <1>1, <1>9 DEF PhoneNext, PhoneBegin, PhoneRefuse, PhoneFinish, PhoneCleanup, PhoneCancel, PhoneCrash,
                      PhoneRecover
<1>10. CASE UNCHANGED vars
    BY <1>1, <1>10 DEF vars
<1> QED BY <1>3, <1>4, <1>5, <1>6, <1>7, <1>8, <1>9, <1>10 DEF Next
LEMMA OperatorHasMessageStep ==
    ASSUME TypeOK, OperatorHasMessage, [Next]_vars
    PROVE  OperatorHasMessage'
<1>0. operator \in [pc : OperatorPc, todo : SUBSET Message, sent : SUBSET Message, at : Message0]
    BY DEF TypeOK, ServerTypes
<1>1. CASE UNCHANGED operator
    BY <1>1 DEF OperatorHasMessage
<1>2. CASE operator'.pc \notin {"sending", "marking", "pushed"}
    BY <1>2 DEF OperatorHasMessage
<1>3. CASE OperatorNext
    <2>1. CASE Start \/ StartMark \/ Stop \/ StopTask \/ Reset \/ ResetTask
        BY <1>0, <1>2, <2>1 DEF Start, StartMark, Stop, StopTask, Reset, ResetTask, OperatorMoves
    <2>2. CASE StartEnqueue \/ StartReply \/ StopRows \/ ResetRows \/ RepairFinish \/ PushMark
        BY <1>0, <1>2, <2>2 DEF StartEnqueue, StartReply, StopRows, ResetRows, RepairFinish, PushMark, OperatorMoves,
                                IdleOperator
    <2>3. CASE StopSelect \/ Repair \/ RepairMark
        BY <1>0, <1>2, <2>3 DEF StopSelect, Repair, RepairMark
    <2>4. CASE StopSend
        BY <1>0, <1>2, <2>4 DEF StopSend
    <2>5. CASE RepairReset
        <3>1. PICK m \in operator.todo : operator' = [operator EXCEPT !.pc = "sending", !.todo = @ \ {m}, !.at = m]
            BY <2>5 DEF RepairReset
        <3>2. m \in Message /\ operator'.at = m
            BY <1>0, <3>1
        <3> QED BY <3>2 DEF OperatorHasMessage
    <2>6. CASE RepairSend
        <3>1. operator.at \in Message
            BY <2>6 DEF RepairSend, OperatorHasMessage
        <3>2. \/ operator' = [operator EXCEPT !.pc = "marking", !.sent = @ \cup {operator.at}]
              \/ operator'.pc = "repair"
            BY <1>0, <2>6 DEF RepairSend
        <3>3. operator'.at = operator.at \/ operator'.pc = "repair"
            BY <1>0, <3>2
        <3> QED BY <3>1, <3>3 DEF OperatorHasMessage
    <2>7. CASE Push
        <3>1. PICK d \in Devices :
                \/ operator' = [operator EXCEPT !.pc = "pushed", !.at = TaskMsg(d, NoRun)]
                \/ UNCHANGED operator
            BY <2>7 DEF Push
        <3>2. TaskMsg(d, NoRun) \in Message
            BY MessageTypes, RunTypes
        <3>3. operator'.at = TaskMsg(d, NoRun) \/ UNCHANGED operator
            BY <1>0, <3>1
        <3> QED BY <1>1, <3>2, <3>3 DEF OperatorHasMessage
    <2>8. CASE ReleaseDevices \/ NoteSent("operator")
        BY <1>1, <2>8 DEF ReleaseDevices, NoteSent, serverVars
    <2> QED BY <1>3, <2>1, <2>2, <2>3, <2>4, <2>5, <2>6, <2>7, <2>8 DEF OperatorNext
<1>4. CASE DispatchNext \/ CronNext
    BY <1>1, <1>4 DEF DispatchNext, DispatchTake, DispatchRead, DispatchReset, DispatchSend, DispatchUpdate,
                      DispatchFinish, DispatchRelease, NoteSent, serverVars, CronNext, CronTick, CronMark, CronEnqueue
<1>5. CASE WatchdogNext \/ WireNext
    BY <1>1, <1>5 DEF WatchdogNext, WatchdogScan, WatchdogExpire, WatchdogCancel, NoteSent, serverVars, WireNext,
                      Resend, DeliveryEnds, PhoneTake
<1>6. ASSUME NEW r \in reports, StatusArrives(r) PROVE UNCHANGED operator
    BY <1>6 DEF StatusArrives, serverVars
<1>7. ASSUME NEW d \in Devices, PhoneNext(d) PROVE UNCHANGED operator
    BY <1>7 DEF PhoneNext, PhoneBegin, PhoneRefuse, PhoneFinish, PhoneCleanup, PhoneCancel, PhoneCrash,
                PhoneRecover, serverVars
<1> QED BY <1>1, <1>3, <1>4, <1>5, <1>6, <1>7 DEF Next, vars, serverVars

LEMMA NotesAreReliableStep ==
    ASSUME TypeOK, NotesAreReliable, [Next]_vars
    PROVE  NotesAreReliable'
<1>0. /\ operator \in [pc : OperatorPc, todo : SUBSET Message, sent : SUBSET Message, at : Message0]
      /\ noting \in [Callers -> Message0]
    BY DEF TypeOK, ServerTypes, WireTypes
<1>1. ASSUME ~Reliable PROVE \A c \in Callers : noting'[c] = Nothing
    <2>0. \A c \in Callers : noting[c] = Nothing
        BY <1>1 DEF NotesAreReliable
    <2>1. UNCHANGED noting
        <3>1. ~(\E c \in Callers : NoteSent(c))
            BY <2>0 DEF NoteSent
        <3>2. CASE DispatchNext
            BY <1>1, <3>1, <3>2 DEF DispatchNext, DispatchTake, DispatchRead, DispatchReset, DispatchSend,
                    DispatchUpdate, DispatchFinish, DispatchRelease, Accepted, Refused, wireVars, Callers
        <3>3. CASE CronNext
            BY <3>3 DEF CronNext, CronTick, CronMark, CronEnqueue, wireVars
        <3>4. CASE OperatorNext
            BY <1>1, <3>1, <3>4 DEF OperatorNext, Start, StartMark, StartEnqueue, StartReply, Stop, StopSelect,
                    StopSend, StopTask, StopRows, Reset, ResetTask, ResetRows, Repair, RepairReset, RepairSend,
                    RepairMark, RepairFinish, Push, PushMark, ReleaseDevices, Accepted, Refused, wireVars, Callers
        <3>5. CASE WatchdogNext
            BY <1>1, <3>1, <3>5 DEF WatchdogNext, WatchdogScan, WatchdogExpire, WatchdogCancel, Accepted, Refused,
                    wireVars, Callers
        <3>6. CASE WireNext
            BY <1>1, <3>1, <3>6 DEF WireNext, Resend, DeliveryEnds, PhoneTake, Callers
        <3>7. ASSUME NEW r \in reports, StatusArrives(r) PROVE UNCHANGED noting
            BY <3>7 DEF StatusArrives, wireVars
        <3>8. ASSUME NEW d \in Devices, PhoneNext(d) PROVE UNCHANGED noting
            BY <3>8 DEF PhoneNext, PhoneBegin, PhoneRefuse, PhoneFinish, PhoneCleanup, PhoneCancel, PhoneCrash,
                        PhoneRecover, wireVars
        <3> QED BY <3>2, <3>3, <3>4, <3>5, <3>6, <3>7, <3>8 DEF Next, vars, wireVars
    <2> QED BY <2>0, <2>1
<1>2. ASSUME "push" \notin Requests PROVE operator'.pc # "pushed"
    <2>0. operator.pc # "pushed" /\ ~Push
        BY <1>2 DEF NotesAreReliable, Push, Request
    <2>1. CASE UNCHANGED operator
        BY <2>0, <2>1
    <2>2. CASE OperatorNext
        <3>1. CASE Start \/ StartMark \/ Stop \/ StopTask \/ Reset \/ ResetTask
            BY <1>0, <3>1 DEF Start, StartMark, Stop, StopTask, Reset, ResetTask, OperatorMoves
        <3>2. CASE StartEnqueue \/ StartReply \/ StopRows \/ ResetRows \/ RepairFinish \/ PushMark
            BY <1>0, <3>2 DEF StartEnqueue, StartReply, StopRows, ResetRows, RepairFinish, PushMark, OperatorMoves,
                              IdleOperator
        <3>3. CASE StopSelect \/ Repair \/ RepairMark
            BY <1>0, <3>3 DEF StopSelect, Repair, RepairMark
        <3>4. CASE StopSend
            BY <1>0, <3>4 DEF StopSend
        <3>5. CASE RepairReset
            BY <1>0, <3>5 DEF RepairReset
        <3>6. CASE RepairSend
            BY <1>0, <3>6 DEF RepairSend
        <3>7. CASE ReleaseDevices \/ NoteSent("operator")
            BY <2>1, <3>7 DEF ReleaseDevices, NoteSent, serverVars
        <3> QED BY <2>0, <2>2, <3>1, <3>2, <3>3, <3>4, <3>5, <3>6, <3>7 DEF OperatorNext
    <2>3. CASE DispatchNext \/ CronNext
        BY <2>1, <2>3 DEF DispatchNext, DispatchTake, DispatchRead, DispatchReset, DispatchSend, DispatchUpdate,
                DispatchFinish, DispatchRelease, NoteSent, serverVars, CronNext, CronTick, CronMark, CronEnqueue
    <2>4. CASE WatchdogNext \/ WireNext
        BY <2>1, <2>4 DEF WatchdogNext, WatchdogScan, WatchdogExpire, WatchdogCancel, NoteSent, serverVars, WireNext,
                Resend, DeliveryEnds, PhoneTake
    <2>5. ASSUME NEW r \in reports, StatusArrives(r) PROVE UNCHANGED operator
        BY <2>5 DEF StatusArrives, serverVars
    <2>6. ASSUME NEW d \in Devices, PhoneNext(d) PROVE UNCHANGED operator
        BY <2>6 DEF PhoneNext, PhoneBegin, PhoneRefuse, PhoneFinish, PhoneCleanup, PhoneCancel, PhoneCrash,
                    PhoneRecover, serverVars
    <2> QED BY <2>1, <2>2, <2>3, <2>4, <2>5, <2>6 DEF Next, vars, serverVars
<1> QED BY <1>1, <1>2 DEF NotesAreReliable

-----------------------------------------------------------------------------
(* The theorems.                                                            *)

TypeInv == TypeOK /\ RunsAreRequested /\ NotesAreReliable /\ OperatorHasMessage

LEMMA TypeInvInit == Init => TypeInv
<1> SUFFICES ASSUME Init PROVE TypeInv
    OBVIOUS
<1> USE DEF Init
<1>1. TaskTypes /\ QueueTypes /\ CountTypes
    <2>1. row \in [Devices -> Row]
        BY FreshRowTypes, RunTypes
    <2>2. requests \in 0..MaxRequests /\ disturbances \in 0..MaxDisturbances
        BY RequestsAssumption
    <2>3. lastRun \in Runs /\ task \in 0..2
        BY RunTypes
    <2>4. pending \in BOOLEAN /\ queued \in BOOLEAN
        OBVIOUS
    <2> QED BY <2>1, <2>2, <2>3, <2>4 DEF TaskTypes, QueueTypes, CountTypes
<1>2. ServerTypes
    BY IdleTypes DEF ServerTypes, Message0
<1>3. WireTypes
    BY DEF WireTypes, Message0
<1>4. PhoneTypes
    BY RunTypes DEF PhoneTypes, Message0, IdleAgent
<1>5. RunsAreRequested
    BY DEF RunsAreRequested, Owed, One, IdleDispatch, IdleOperator, NoRun
<1>6. NotesAreReliable /\ OperatorHasMessage
    BY DEF NotesAreReliable, OperatorHasMessage, IdleOperator
<1> QED BY <1>1, <1>2, <1>3, <1>4, <1>5, <1>6 DEF TypeInv, TypeOK

LEMMA TypeInvStep == TypeInv /\ [Next]_vars => TypeInv'
<1> SUFFICES ASSUME TypeInv, [Next]_vars PROVE TypeInv'
    OBVIOUS
<1> USE DEF TypeInv
<1>1. RowsChange /\ CountTypes'
    BY RowsStep, CountTypesStep
<1>2. RunsAreRequested' /\ NotesAreReliable' /\ OperatorHasMessage'
    BY RunsStep, NotesAreReliableStep, OperatorHasMessageStep
<1>3. QueueTypes'
    BY <1>1, <1>2, QueueTypesStep
<1>4. TaskTypes' /\ ServerTypes' /\ WireTypes' /\ PhoneTypes'
    BY <1>1, <1>3, TaskTypesStep, ServerTypesStep, WireTypesStep, PhoneTypesStep
<1> QED BY <1>1, <1>2, <1>3, <1>4 DEF TypeOK

LEMMA TypeInvHolds == Spec => []TypeInv
BY TypeInvInit, TypeInvStep, PTL DEF Spec

\* Every variable stays in its type, however long the server, its operators and
\* the phones run: in particular the run_ids handed out by the dispatch worker
\* and by repairs (task.go, scheduler.go) never exceed the requests that asked
\* for them, although the worker hands one out long after the request returned.
THEOREM TaskRunsTypes == Spec => []TypeOK
BY TypeInvHolds, PTL DEF TypeInv
\* In direct mode, and unless a task is pushed to a device, no row runs without
\* the deadline the watchdog looks for, whatever order dispatches, repairs,
\* stops, releases, reports and timeouts come in (task.go, task_watchdog.go).
THEOREM RunningRowsAreWatched == Spec => []RunningRowIsWatched
<1> USE DEF RunningRowIsWatched
<1>1. Init => RunningRowIsWatched
    BY DEF Init, FreshRow, Waiting, Running
<1>2. ASSUME TypeInv, RunningRowIsWatched, [Next]_vars
      PROVE  RunningRowIsWatched'
    <2> SUFFICES ASSUME ~Reliable, "push" \notin Requests, NEW d \in Devices, row'[d].status = Running
                 PROVE  row'[d].deadline
        OBVIOUS
    <2>1. RowChange(d)
        BY <1>2, RowsStep DEF TypeInv, RowsChange
    <2>2. CASE row'[d] = row[d]
        BY <1>2, <2>2
    <2>3. CASE row'[d] # row[d]
        <3>1. CASE \E r \in reports : row'[d].status = r.status /\ row'[d].deadline = (r.status = Running)
            BY <3>1
        <3>2. CASE MarkedWithDeadline(row'[d])
            BY <3>2 DEF MarkedWithDeadline
        <3> QED BY <2>1, <2>3, <3>1, <3>2 DEF RowChange, Waiting, Running, Failed
    <2> QED BY <2>2, <2>3
<1> QED BY <1>1, <1>2, TypeInvHolds, PTL DEF Spec

-----------------------------------------------------------------------------
(* What the phones have reported only grows, and what is on its way to the  *)
(* server was reported by a phone.                                          *)

ReportsWereMade == reports \subseteq reported

LEMMA ReportsStep ==
    ASSUME ReportsWereMade, [Next]_vars
    PROVE  ReportsWereMade' /\ reported \subseteq reported'
<1> USE DEF ReportsWereMade
<1>1. CASE UNCHANGED <<reports, reported>>
    BY <1>1
<1>2. ASSUME NEW r \in reports, StatusArrives(r) PROVE ReportsWereMade' /\ reported \subseteq reported'
    BY <1>2 DEF StatusArrives
<1>3. ASSUME NEW d \in Devices, PhoneNext(d) PROVE ReportsWereMade' /\ reported \subseteq reported'
    BY <1>3 DEF PhoneNext, PhoneBegin, PhoneRefuse, PhoneFinish, PhoneCleanup, PhoneCancel, PhoneCrash,
                PhoneRecover, Ends, SendStatus
<1>4. CASE DispatchNext \/ CronNext
    BY <1>1, <1>4 DEF DispatchNext, DispatchTake, DispatchRead, DispatchReset, DispatchSend, DispatchUpdate,
                      DispatchFinish, DispatchRelease, NoteSent, phoneVars, CronNext, CronTick, CronMark, CronEnqueue
<1>5. CASE OperatorNext
    BY <1>1, <1>5 DEF OperatorNext, Start, StartMark, StartEnqueue, StartReply, Stop, StopSelect, StopSend,
                      StopTask, StopRows, Reset, ResetTask, ResetRows, Repair, RepairReset, RepairSend,
                      RepairMark, RepairFinish, Push, PushMark, ReleaseDevices, NoteSent, phoneVars
<1>6. CASE WatchdogNext \/ WireNext
    BY <1>1, <1>6 DEF WatchdogNext, WatchdogScan, WatchdogExpire, WatchdogCancel, NoteSent, phoneVars, WireNext,
                      Resend, DeliveryEnds, PhoneTake
<1> QED BY <1>1, <1>2, <1>3, <1>4, <1>5, <1>6 DEF Next, vars, phoneVars

LEMMA ReportsHold == Spec => []ReportsWereMade
<1>1. Init => ReportsWereMade
    BY DEF Init, ReportsWereMade
<1> QED BY <1>1, ReportsStep, PTL DEF Spec

\* Whatever reports are late, repeated or reordered, and whichever runs have been
\* started since, a row reads "done" only on the word of the phone about that
\* very run, or about a pushed task (websocket.go, the task_status branch).
THEOREM DoneRowsAreEarned == Spec => []DoneIsEarned
<1>1. Init => DoneIsEarned
    BY DEF Init, DoneIsEarned, FreshRow, Waiting, Done
<1>2. ASSUME TypeInv, ReportsWereMade, DoneIsEarned, [Next]_vars
      PROVE  DoneIsEarned'
    <2> SUFFICES ASSUME NEW d \in Devices, row'[d].status = Done
                 PROVE  \E r \in {row'[d].run, NoRun} : Rep(d, r, Done) \in reported'
        BY DEF DoneIsEarned
    <2>1. RowChange(d) /\ reported \subseteq reported'
        BY <1>2, RowsStep, ReportsStep DEF TypeInv, RowsChange
    <2>2. CASE row'[d] = row[d]
        BY <1>2, <2>1, <2>2 DEF DoneIsEarned
    <2>3. CASE row'[d] # row[d]
        <3>1. PICK x \in reports : x.dev = d /\ x.run \in {NoRun, row'[d].run} /\ row'[d].status = x.status
            BY <2>1, <2>3 DEF RowChange, MarkedWithDeadline, Waiting, Running, Done, Failed
        <3>2. x \in Report /\ x \in reported'
            BY <1>2, <2>1 DEF TypeInv, TypeOK, PhoneTypes, ReportsWereMade
        <3>3. x = Rep(d, x.run, Done)
            BY <3>1, <3>2 DEF Report, Rep
        <3> QED BY <3>1, <3>2, <3>3
    <2> QED BY <2>2, <2>3
<1> QED BY <1>1, <1>2, TypeInvHolds, ReportsHold, PTL DEF Spec

-----------------------------------------------------------------------------
(* The rows that have failed.                                               *)

SelectedAreGivenUp == \A m \in watchdog.todo : CancelMsg(m.dev, m.run) \in givenUp

LEMMA SelectionsStep ==
    ASSUME TypeOK, SelectedAreGivenUp, [Next]_vars
    PROVE  SelectedAreGivenUp' /\ givenUp \subseteq givenUp'
<1> USE DEF SelectedAreGivenUp
<1>1. CASE UNCHANGED watchdog /\ givenUp \subseteq givenUp'
    BY <1>1
<1>2. CASE WatchdogScan
    <2>1. /\ watchdog'.todo = {CancelMsg(d, row[d].run) : d \in Overdue}
          /\ givenUp' = givenUp \cup watchdog'.todo
        BY <1>2 DEF WatchdogScan, TypeOK, ServerTypes
    <2>2. \A m \in watchdog'.todo : CancelMsg(m.dev, m.run) = m
        BY <2>1 DEF CancelMsg
    <2> QED BY <2>1, <2>2
<1>3. CASE WatchdogExpire \/ WatchdogCancel
    <2>1. CASE WatchdogExpire
        <3>1. PICK m \in watchdog.todo : watchdog'.todo = watchdog.todo \ {m}
            BY <2>1 DEF WatchdogExpire
        <3> QED BY <2>1, <3>1 DEF WatchdogExpire, counts
    <2>2. CASE WatchdogCancel
        <3>1. watchdog'.todo = watchdog.todo
            BY <2>2 DEF WatchdogCancel, TypeOK, ServerTypes
        <3> QED BY <2>2, <3>1 DEF WatchdogCancel, counts
    <2> QED BY <1>3, <2>1, <2>2
<1>4. CASE DispatchNext \/ CronNext
    BY <1>1, <1>4 DEF DispatchNext, DispatchTake, DispatchRead, DispatchReset, DispatchSend, DispatchUpdate,
                      DispatchFinish, DispatchRelease, NoteSent, CronNext, CronTick, CronMark, CronEnqueue,
                      Request, counts, serverVars
<1>5. CASE OperatorNext
    BY <1>1, <1>5 DEF OperatorNext, Start, StartMark, StartEnqueue, StartReply, Stop, StopSelect, StopSend,
                      StopTask, StopRows, Reset, ResetTask, ResetRows, Repair, RepairReset, RepairSend,
                      RepairMark, RepairFinish, Push, PushMark, ReleaseDevices, NoteSent, Request, counts, serverVars
<1>6. CASE NoteSent("watchdog") \/ WireNext
    BY <1>1, <1>6 DEF NoteSent, WireNext, Resend, DeliveryEnds, PhoneTake, counts, serverVars
<1>7. ASSUME NEW r \in reports, StatusArrives(r) PROVE UNCHANGED <<watchdog, givenUp>>
    BY <1>7 DEF StatusArrives, serverVars
<1>8. ASSUME NEW d \in Devices, PhoneNext(d) PROVE UNCHANGED <<watchdog, givenUp>>
    BY <1>8 DEF PhoneNext, PhoneBegin, PhoneRefuse, PhoneFinish, PhoneCleanup, PhoneCancel, PhoneCrash,
                PhoneRecover, counts, serverVars
<1> QED BY <1>1, <1>2, <1>3, <1>4, <1>5, <1>6, <1>7, <1>8 DEF Next, WatchdogNext, vars, counts, serverVars

LEMMA MarkedFields ==
    ASSUME TypeOK, NEW d \in Devices, NEW s \in 0..3, NEW b \in BOOLEAN, row'[d] = Marked(row[d], s, b)
    PROVE  row'[d].status = s /\ row'[d].run = row[d].run
<1> DEFINE x == row[d]
           y == Marked(x, s, b)
<1>1. x \in Row
    BY DEF TypeOK, TaskTypes
<1> HIDE DEF x
<1>2. y.status = s /\ y.run = x.run
    BY <1>1, MarkedTypes
<1> HIDE DEF y
<1> QED BY <1>2 DEF x, y

\* Where a row that has failed comes from.
FailedFrom(d) ==
    \/ row[d].status = Failed /\ row'[d].run = row[d].run
    \/ CancelMsg(d, row'[d].run) \in givenUp'
    \/ \E r \in reports : r.dev = d /\ r.run \in {NoRun, row'[d].run} /\ r.status = Failed

LEMMA FailsStep ==
    ASSUME TypeOK, SelectedAreGivenUp, [Next]_vars, NEW d \in Devices, row'[d].status = Failed
    PROVE  FailedFrom(d)
<1>f. Failed \in 0..3 /\ FALSE \in BOOLEAN
    BY DEF Failed
<1>0. row \in [Devices -> Row] /\ row[d] \in Row
    BY DEF TypeOK, TaskTypes
<1>1. CASE row'[d] = row[d]
    BY <1>1 DEF FailedFrom
<1>2. \A r : row'[d] # FreshRow(r)
    BY DEF FreshRow, Waiting, Failed
<1>3. ASSUME NEW s \in {Waiting, Running}
      PROVE  (\A b \in BOOLEAN : row'[d] # Marked(row[d], s, b)) /\ row'[d] # [row[d] EXCEPT !.status = s]
    <2>1. s \in 0..3 /\ s # Failed
        BY DEF Waiting, Running, Failed
    <2>2. \A b \in BOOLEAN : row'[d] # Marked(row[d], s, b)
        BY <1>0, <2>1, MarkedTypes
    <2>3. row'[d] # [row[d] EXCEPT !.status = s]
        BY <1>0, <2>1, StatusUpdate
    <2> QED BY <2>2, <2>3
<1>4. ASSUME NEW c, NoteSent(c) PROVE row'[d] = row[d]
    <2>1. row'[d] = row[d] \/ row'[d] = [row[d] EXCEPT !.status = Running]
        BY <1>0, <1>4 DEF NoteSent
    <2> QED BY <1>3, <2>1
<1>5. CASE DispatchNext
    <2>1. ~DispatchReset
        BY <1>2 DEF DispatchReset
    <2>2. CASE DispatchUpdate
        <3>1. row'[d] = row[d] \/ row'[d] = Marked(row[d], Running, TRUE)
            BY <2>2 DEF DispatchUpdate, SetRows
        <3> QED BY <1>1, <1>3, <3>1
    <2> QED BY <1>1, <1>4, <1>5, <2>1, <2>2
            DEF DispatchNext, DispatchTake, DispatchRead, DispatchSend, DispatchFinish, DispatchRelease
<1>6. CASE CronNext
    <2>1. ~CronMark
        BY <1>2 DEF CronMark, SetRows
    <2> QED BY <1>1, <1>6, <2>1 DEF CronNext, CronTick, CronEnqueue
<1>7. CASE OperatorNext
    <2>1. CASE StopRows
        <3>1. CASE d \in RunningDevices
            <4>1. row'[d] = Marked(row[d], Failed, FALSE)
                BY <2>1, <3>1 DEF StopRows, SetRows
            <4>2. row'[d].run = row[d].run
                BY <1>f, <4>1, MarkedFields
            <4> QED BY <2>1, <3>1, <4>2 DEF StopRows, FailedFrom
        <3>2. CASE d \notin RunningDevices
            BY <1>1, <2>1, <3>2 DEF StopRows, SetRows
        <3> QED BY <3>1, <3>2
    <2>2. ~ResetRows
        BY <1>2 DEF ResetRows, SetRows
    <2>3. CASE RepairReset
        <3>1. PICK m \in operator.todo : row' = [row EXCEPT ![m.dev] = FreshRow(m.run)]
            BY <2>3 DEF RepairReset
        <3> QED BY <1>0, <1>1, <1>2, <3>1
    <2>4. CASE RepairMark
        <3>1. row'[d] = row[d] \/ row'[d] = Marked(row[d], Running, TRUE)
            BY <2>4 DEF RepairMark, SetRows
        <3> QED BY <1>1, <1>3, <3>1
    <2>5. CASE PushMark
        <3>1. row'[d] = row[d] \/ row'[d] = [row[d] EXCEPT !.status = Running]
            BY <2>5 DEF PushMark, SetRows
        <3> QED BY <1>1, <1>3, <3>1
    <2>6. CASE ReleaseDevices
        <3>1. row'[d] = row[d] \/ row'[d] = [row[d] EXCEPT !.status = Waiting]
            BY <2>6 DEF ReleaseDevices, SetRows
        <3> QED BY <1>1, <1>3, <3>1
    <2> QED BY <1>1, <1>4, <1>7, <2>1, <2>2, <2>3, <2>4, <2>5, <2>6
            DEF OperatorNext, Start, StartMark, StartEnqueue, StartReply, Stop, StopSelect, StopSend, StopTask,
                Reset, ResetTask, Repair, RepairSend, RepairFinish, Push
<1>8. CASE WatchdogNext
    <2>1. CASE WatchdogExpire
        <3>1. PICK m \in watchdog.todo :
                \/ /\ row' = [row EXCEPT ![m.dev] = Marked(row[m.dev], Failed, FALSE)]
                   /\ row[m.dev].run = m.run
                \/ row' = row
            BY <2>1 DEF WatchdogExpire
        <3>2. CASE m.dev = d /\ row' # row
            <4>0. row'[d] = Marked(row[d], Failed, FALSE) /\ row[d].run = m.run
                BY <1>0, <3>1, <3>2
            <4>1. row'[d].run = m.run
                BY <1>f, <4>0, MarkedFields
            <4>2. CancelMsg(d, m.run) \in givenUp
                BY <3>2 DEF SelectedAreGivenUp
            <4> QED BY <4>1, <4>2, SelectionsStep DEF FailedFrom
        <3> QED BY <1>0, <1>1, <3>1, <3>2
    <2> QED BY <1>1, <1>4, <1>8, <2>1 DEF WatchdogNext, WatchdogScan, WatchdogCancel
<1>9. CASE WireNext
    BY <1>1, <1>4, <1>9 DEF WireNext, Resend, DeliveryEnds, PhoneTake
<1>10. ASSUME NEW r \in reports, StatusArrives(r) PROVE FailedFrom(d)
    <2>1. CASE Matches(r) /\ r.dev = d
        <3>1. r.status \in 0..3 /\ (r.status = Running) \in BOOLEAN
            BY DEF TypeOK, PhoneTypes, Report
        <3>2. row'[d] = Marked(row[d], r.status, r.status = Running)
            BY <1>0, <1>10, <2>1 DEF StatusArrives
        <3>3. row'[d].status = r.status /\ row'[d].run = row[d].run
            BY <3>1, <3>2, MarkedFields
        <3> QED BY <2>1, <3>3 DEF Matches, FailedFrom
    <2>2. CASE ~(Matches(r) /\ r.dev = d)
        BY <1>0, <1>1, <1>10, <2>2 DEF StatusArrives
    <2> QED BY <2>1, <2>2
<1>11. ASSUME NEW e \in Devices, PhoneNext(e) PROVE UNCHANGED row
    BY <1>11 DEF PhoneNext, PhoneBegin, PhoneRefuse, PhoneFinish, PhoneCleanup, PhoneCancel, PhoneCrash, PhoneRecover
<1> QED BY <1>1, <1>5, <1>6, <1>7, <1>8, <1>9, <1>10, <1>11 DEF Next, vars

\* However scans, reports, stops, resets and new dispatches of a row follow one another,
\* a row fails only on the word of the phone about that run or about a pushed task, or
\* because that very run was overdue or stopped (task_watchdog.go:48, websocket.go).
THEOREM FailedRowsAreEarned == Spec => []FailedIsEarned
<1>1. Init => FailedIsEarned /\ SelectedAreGivenUp
    BY DEF Init, FailedIsEarned, SelectedAreGivenUp, FreshRow, Waiting, Failed
<1>2. ASSUME TypeInv, ReportsWereMade, SelectedAreGivenUp, FailedIsEarned, [Next]_vars
      PROVE  FailedIsEarned' /\ SelectedAreGivenUp'
    <2>1. SelectedAreGivenUp' /\ givenUp \subseteq givenUp' /\ reported \subseteq reported'
        BY <1>2, SelectionsStep, ReportsStep DEF TypeInv
    <2>2. ASSUME NEW d \in Devices, row'[d].status = Failed
          PROVE  \/ CancelMsg(d, row'[d].run) \in givenUp'
                 \/ \E r \in {row'[d].run, NoRun} : Rep(d, r, Failed) \in reported'
        <3>1. FailedFrom(d)
            BY <1>2, <2>2, FailsStep DEF TypeInv
        <3>2. CASE row[d].status = Failed /\ row'[d].run = row[d].run
            BY <1>2, <2>1, <3>2 DEF FailedIsEarned
        <3>3. ASSUME NEW x \in reports, x.dev = d, x.run \in {NoRun, row'[d].run}, x.status = Failed
              PROVE  \E r \in {row'[d].run, NoRun} : Rep(d, r, Failed) \in reported'
            <4>1. x \in Report /\ x \in reported'
                BY <1>2, <2>1 DEF TypeInv, TypeOK, PhoneTypes, ReportsWereMade
            <4>2. x = Rep(d, x.run, Failed)
                BY <3>3, <4>1 DEF Report, Rep
            <4> QED BY <3>3, <4>1, <4>2
        <3> QED BY <3>1, <3>2, <3>3 DEF FailedFrom
    <2> QED BY <2>1, <2>2 DEF FailedIsEarned
<1> QED BY <1>1, <1>2, TypeInvHolds, ReportsHold, PTL DEF Spec
=============================================================================
