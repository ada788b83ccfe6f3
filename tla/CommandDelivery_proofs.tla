----------------------- MODULE CommandDelivery_proofs ------------------------
(***************************************************************************)
(* Proofs about CommandDelivery, for every set of commands and every value *)
(* of the bounds: type correctness, acknowledgements are never invented,   *)
(* terminal rows stay terminal, a phone whose history is long enough runs  *)
(* each command at most once, no command is sent more often than its       *)
(* attempts and the faults allow, and two runs of a task are live together *)
(* only when their sends crossed.                                          *)
(***************************************************************************)
EXTENDS CommandDelivery, FiniteSetTheorems, TLAPS

\* Rows are created by their own sender only, and once.
NoRowBeforeCreate ==
    \A c \in Commands : sender[c] \in {"idle", "superseded"} => status[c] = "none"

\* A reader holds a message exactly while it is at one of the stages.
StageMatchesHandling == \A r \in Readers : stage[r] = "none" <=> handling[r] = NoCommand

\* Every trace of a command on the acknowledgement's way goes back to a claim.
Claimed == {c \in Commands : claims[c] > 0}

\* The stages after the command went into the list.
TakenStages == {"put", "claimed", "acked"}

PhoneTraces ==
    /\ history \subseteq Claimed
    /\ stored \subseteq Claimed
    /\ \A r \in Readers : encoded[r] \subseteq Claimed
    /\ \A r \in Readers : stage[r] \in TakenStages => handling[r] \in Claimed
    /\ outbox \subseteq Claimed
    /\ uplink \subseteq Claimed

AcksComeFromClaims ==
    /\ PhoneTraces
    /\ \A c \in Commands : status[c] = "acknowledged" => c \in Claimed

DeliveryInv == TypeOK /\ NoRowBeforeCreate /\ StageMatchesHandling /\ AcksComeFromClaims

\* What keeps a second run away. One reader claims at a time; apart from the moments
\* around its read and its write, memory holds what is stored; a command that ran is
\* stored; one in hand is stored and has not run yet, and is in one reader's hand.
RunStages == {"claimed", "acked"}

ListsAgree ==
    /\ \A r, s \in Claiming : r = s
    /\ ~loaded => history = {} /\ Claiming = {}
    /\ \A r \in Claiming :
        /\ stage[r] = "load" => history = {}
        /\ stage[r] = "insert" => handling[r] \notin history
        /\ stage[r] = "put" => /\ handling[r] \notin stored
                               /\ history = stored \cup {handling[r]}
                               /\ encoded[r] = history
    /\ loaded /\ (\A r \in Readers : stage[r] \notin {"load", "put"}) => history = stored

RunsAreStored ==
    /\ \A c \in Commands : execs[c] > 0 => c \in stored
    /\ \A r \in Readers : stage[r] \in RunStages =>
        /\ handling[r] \in stored /\ execs[handling[r]] = 0
        /\ \A s \in Readers : stage[s] \in RunStages /\ handling[s] = handling[r] => s = r
    /\ \A c \in Commands : execs[c] <= 1

HistoryCoversExecs == ~forgetful => ListsAgree /\ RunsAreStored

-----------------------------------------------------------------------------
(* Type correctness.                                                        *)

\* The bounded list holds commands of the old one and the new command.
LEMMA ExtendedFacts ==
    ASSUME NEW list \in SUBSET Commands, NEW c \in Commands, NEW new \in Extended(list, c)
    PROVE  new \in SUBSET Commands /\ new \subseteq list \cup {c}
BY DEF Extended

LEMMA FaultTypes ==
    ASSUME TypeOK, NEW kind, Fault(kind)
    PROVE  faults' \in 0..MaxFaults
BY BoundsAssumption DEF TypeOK, Fault

LEMMA RecordAttemptTypes ==
    ASSUME TypeOK, NEW c \in Commands, NEW seen \in 0..(MaxAttempts - 1),
           NEW newStatus \in LiveStatuses, RecordAttempt(c, seen, newStatus)
    PROVE  /\ status' \in [Commands -> Statuses]
           /\ attempts' \in [Commands -> 0..MaxAttempts]
           /\ due' \in [Commands -> BOOLEAN]
<1>1. seen + 1 \in 0..MaxAttempts
    BY BoundsAssumption
<1>2. status \in [Commands -> Statuses] /\ attempts \in [Commands -> 0..MaxAttempts] /\ due \in [Commands -> BOOLEAN]
    BY DEF TypeOK
<1> QED BY <1>1, <1>2 DEF RecordAttempt, Statuses, LiveStatuses

LEMMA BeginScanTypes ==
    ASSUME TypeOK, NEW S \in SUBSET Retryable, NEW ticked \in BOOLEAN, BeginScan(S, ticked)
    PROVE  /\ batch' \in SUBSET Commands
           /\ snapshot' \in [Commands -> 0..(MaxAttempts - 1)]
           /\ periodic' \in BOOLEAN
           /\ worker' \in WorkerStates
<1>1. FirstRows(S) \subseteq S /\ S \subseteq Commands
    BY DEF FirstRows, Retryable, Live
<1>2. \A c \in FirstRows(S) : attempts[c] \in 0..(MaxAttempts - 1)
    BY <1>1, BoundsAssumption DEF Retryable, TypeOK
<1> QED BY <1>1, <1>2, BoundsAssumption DEF BeginScan, WorkerStates

\* The counts of copies stay natural numbers when one is sent, refused, lost,
\* taken or duplicated.
LEMMA CopyTypes ==
    ASSUME TypeOK, NEW c \in Commands
    PROVE  /\ Transmit(c) \/ Refuse => downlink' \in [Commands -> Nat] /\ sends' \in [Commands -> Nat]
           /\ downlink[c] > 0 => [downlink EXCEPT ![c] = @ - 1] \in [Commands -> Nat]
           /\ [downlink EXCEPT ![c] = @ + 1] \in [Commands -> Nat]
<1>1. downlink \in [Commands -> Nat] /\ sends \in [Commands -> Nat]
    BY DEF TypeOK
<1> QED BY <1>1 DEF Transmit, Refuse

LEMMA TypeInit == Init => TypeOK
<1> SUFFICES ASSUME Init PROVE TypeOK
    OBVIOUS
<1>1. /\ status \in [Commands -> Statuses] /\ sender \in [Commands -> SenderStates]
      /\ attempts \in [Commands -> 0..MaxAttempts]
      /\ snapshot \in [Commands -> 0..(MaxAttempts - 1)]
    BY BoundsAssumption DEF Init, Statuses, SenderStates
<1>2. /\ due \in [Commands -> BOOLEAN] /\ expired \in [Commands -> BOOLEAN]
      /\ rowId \in [Commands -> Nat] /\ downlink \in [Commands -> Nat]
      /\ claims \in [Commands -> Nat] /\ execs \in [Commands -> Nat] /\ sends \in [Commands -> Nat]
    BY DEF Init
<1>3. /\ encoded \in [Readers -> SUBSET Commands] /\ faults \in 0..MaxFaults
      /\ handling \in [Readers -> Commands \cup {NoCommand}] /\ stage \in [Readers -> Stages]
    BY BoundsAssumption DEF Init, Stages
<1> QED BY <1>1, <1>2, <1>3 DEF Init, TypeOK, WorkerStates

\* The steps of a reader.
LEMMA ReaderTypes ==
    ASSUME TypeOK, StageMatchesHandling, NEW r \in Readers, ReaderNext(r)
    PROVE  TypeOK'
<1>0. /\ handling \in [Readers -> Commands \cup {NoCommand}] /\ stage \in [Readers -> Stages]
      /\ encoded \in [Readers -> SUBSET Commands]
      /\ claims \in [Commands -> Nat] /\ execs \in [Commands -> Nat]
      /\ outbox \in SUBSET Commands /\ uplink \in SUBSET Commands
      /\ history \in SUBSET Commands /\ stored \in SUBSET Commands
      /\ forgetful \in BOOLEAN /\ loaded \in BOOLEAN /\ faults \in 0..MaxFaults
    BY DEF TypeOK
<1>h. stage[r] # "none" => handling[r] \in Commands
    BY <1>0 DEF StageMatchesHandling
<1>s. \A t \in Stages : [stage EXCEPT ![r] = t] \in [Readers -> Stages]
    BY <1>0
<1>n. [handling EXCEPT ![r] = NoCommand] \in [Readers -> Commands \cup {NoCommand}]
    BY <1>0
<1>t. {"none", "claimed", "acked", "load", "test", "insert", "put"} \subseteq Stages
    BY DEF Stages, ClaimStages
<1>q. ASSUME stage[r] # "none", QueueAck(handling[r])
      PROVE  outbox' \in SUBSET Commands /\ uplink' \in SUBSET Commands
    BY <1>0, <1>h, <1>q DEF QueueAck, FlushedUplink
<1>1. ASSUME NEW c \in Commands, PhoneReceive(r, c) PROVE TypeOK'
    <2>1. downlink' \in [Commands -> Nat]
        BY <1>1, CopyTypes DEF PhoneReceive
    <2>2. faults' \in 0..MaxFaults /\ forgetful' \in BOOLEAN
        BY <1>0, <1>1, FaultTypes DEF PhoneReceive
    <2>3. handling' \in [Readers -> Commands \cup {NoCommand}]
        BY <1>0, <1>1 DEF PhoneReceive
    <2>4. stage' \in [Readers -> Stages]
        BY <1>1, <1>s, <1>t DEF PhoneReceive
    <2> QED BY <1>1, <2>1, <2>2, <2>3, <2>4 DEF PhoneReceive, TypeOK, rowVars, workerVars
<1>2. CASE PhoneLoad(r)
    <2>1. faults' \in 0..MaxFaults /\ forgetful' \in BOOLEAN /\ history' \in SUBSET Commands
        BY <1>0, <1>2, FaultTypes DEF PhoneLoad
    <2>2. stage' \in [Readers -> Stages]
        BY <1>2, <1>s, <1>t DEF PhoneLoad
    <2> QED BY <1>2, <2>1, <2>2 DEF PhoneLoad, TypeOK, rowVars, workerVars, netVars
<1>3. CASE PhoneTest(r)
    <2>1. stage' \in [Readers -> Stages]
        BY <1>3, <1>s, <1>t DEF PhoneTest
    <2> QED BY <1>3, <2>1 DEF PhoneTest, TypeOK, rowVars, workerVars, netVars, listVars
<1>4. CASE PhoneDuplicate(r)
    <2>1. stage' \in [Readers -> Stages] /\ handling' \in [Readers -> Commands \cup {NoCommand}]
        BY <1>4, <1>s, <1>t, <1>n DEF PhoneDuplicate
    <2>2. outbox' \in SUBSET Commands /\ uplink' \in SUBSET Commands
        BY <1>4, <1>q DEF PhoneDuplicate
    <2> QED BY <1>4, <2>1, <2>2 DEF PhoneDuplicate, TypeOK, rowVars, workerVars, listVars
<1>5. CASE PhoneInsert(r)
    <2>1. stage' \in [Readers -> Stages]
        BY <1>5, <1>s, <1>t DEF PhoneInsert
    <2>2. history' \in SUBSET Commands
        BY <1>0, <1>5, <1>h, ExtendedFacts DEF PhoneInsert
    <2>3. encoded' \in [Readers -> SUBSET Commands] /\ claims' \in [Commands -> Nat]
        BY <1>0, <1>5, <1>h, <2>2 DEF PhoneInsert
    <2> QED BY <1>5, <2>1, <2>2, <2>3 DEF PhoneInsert, TypeOK, rowVars, workerVars, netVars
<1>6. CASE PhonePut(r)
    <2>1. stage' \in [Readers -> Stages]
        BY <1>6, <1>s, <1>t DEF PhonePut
    <2>2. stored' \in SUBSET Commands /\ faults' \in 0..MaxFaults /\ forgetful' \in BOOLEAN
        BY <1>0, <1>6, FaultTypes DEF PhonePut
    <2>3. encoded' \in [Readers -> SUBSET Commands]
        BY <1>0, <1>6 DEF PhonePut
    <2> QED BY <1>6, <2>1, <2>2, <2>3 DEF PhonePut, TypeOK, rowVars, workerVars, netVars
<1>7. CASE PhoneAck(r)
    <2>1. stage' \in [Readers -> Stages]
        BY <1>7, <1>s, <1>t DEF PhoneAck
    <2>2. outbox' \in SUBSET Commands /\ uplink' \in SUBSET Commands
        BY <1>7, <1>q DEF PhoneAck
    <2> QED BY <1>7, <2>1, <2>2 DEF PhoneAck, TypeOK, rowVars, workerVars, listVars
<1>8. CASE PhoneExecute(r)
    <2>1. stage' \in [Readers -> Stages] /\ handling' \in [Readers -> Commands \cup {NoCommand}]
        BY <1>8, <1>s, <1>t, <1>n DEF PhoneExecute
    <2>2. execs' \in [Commands -> Nat]
        BY <1>0, <1>8, <1>h DEF PhoneExecute
    <2> QED BY <1>8, <2>1, <2>2 DEF PhoneExecute, TypeOK, rowVars, workerVars, netVars, listVars
<1> QED BY <1>1, <1>2, <1>3, <1>4, <1>5, <1>6, <1>7, <1>8 DEF ReaderNext

LEMMA TypeStep == TypeOK /\ StageMatchesHandling /\ [Next]_vars => TypeOK'
<1> SUFFICES ASSUME TypeOK, StageMatchesHandling, [Next]_vars PROVE TypeOK'
    OBVIOUS
<1> USE BoundsAssumption, CommandsAssumption
<1>1. ASSUME NEW c \in Commands, SenderNext(c) PROVE TypeOK'
    <2>1. CASE SendSupersede(c)
        <3>1. crossed' \in SUBSET SUBSET Commands
            BY <2>1 DEF SendSupersede, TypeOK
        <3> QED BY <2>1, <3>1 DEF SendSupersede, TypeOK, workerVars, netVars, phoneVars, listVars, Statuses, SenderStates
    <2>2. CASE SendCreate(c)
        <3>1. Cardinality({d \in Commands : status[d] # "none"}) \in Nat
            BY FS_Subset, FS_CardinalityType
        <3>2. status' \in [Commands -> Statuses] /\ sender' \in [Commands -> SenderStates]
            BY <2>2 DEF SendCreate, TypeOK, Statuses, SenderStates
        <3>3. due' \in [Commands -> BOOLEAN]
            BY <2>2 DEF SendCreate, TypeOK
        <3>4. rowId' \in [Commands -> Nat]
            <4>1. rowId \in [Commands -> Nat]
                BY DEF TypeOK
            <4> QED BY <2>2, <3>1, <4>1 DEF SendCreate
        <3> QED BY <2>2, <3>2, <3>3, <3>4 DEF SendCreate, TypeOK, workerVars, netVars, phoneVars, listVars
    <2>3. CASE SendAttempt(c)
        <3>1. sender' \in [Commands -> SenderStates]
            BY <2>3 DEF SendAttempt, TypeOK, SenderStates
        <3>2. downlink' \in [Commands -> Nat] /\ sends' \in [Commands -> Nat]
            BY <2>3, CopyTypes DEF SendAttempt
        <3> QED BY <2>3, <3>1, <3>2 DEF SendAttempt, TypeOK, rowVars, workerVars, phoneVars, listVars
    <2>4. CASE SendRecord(c)
        <3>1. /\ status' \in [Commands -> Statuses]
              /\ attempts' \in [Commands -> 0..MaxAttempts]
              /\ due' \in [Commands -> BOOLEAN]
            BY <2>4, RecordAttemptTypes DEF SendRecord, LiveStatuses
        <3>2. sender' \in [Commands -> SenderStates]
            BY <2>4 DEF SendRecord, TypeOK, SenderStates
        <3> QED BY <2>4, <3>1, <3>2 DEF SendRecord, TypeOK, workerVars, netVars, phoneVars, listVars
    <2>5. CASE SendDbError(c)
        BY <2>5, FaultTypes DEF SendDbError, TypeOK, rowVars, workerVars, netVars, phoneVars, listVars, SenderStates
    <2> QED BY <1>1, <2>1, <2>2, <2>3, <2>4, <2>5 DEF SenderNext
<1>2. CASE WorkerNext
    <2>1. CASE TickScan
        <3>1. {c \in Retryable : due[c]} \in SUBSET Retryable
            OBVIOUS
        <3> QED BY <2>1, <3>1, BeginScanTypes DEF TickScan, TypeOK, rowVars, netVars, phoneVars, listVars
    <2>2. CASE WakeScan
        <3>1. Retryable \in SUBSET Retryable
            OBVIOUS
        <3> QED BY <2>2, <3>1, BeginScanTypes DEF WakeScan, TypeOK, rowVars, phoneVars, listVars
    <2>3. CASE WorkerAttempt
        <3>1. downlink' \in [Commands -> Nat] /\ sends' \in [Commands -> Nat]
            BY <2>3, CopyTypes DEF WorkerAttempt, TypeOK
        <3>2. worker' \in WorkerStates
            BY <2>3 DEF WorkerAttempt, WorkerStates
        <3> QED BY <2>3, <3>1, <3>2 DEF WorkerAttempt, TypeOK, rowVars, phoneVars, listVars
    <2>4. CASE WorkerRecord
        <3>1. PICK c \in batch :
                /\ \/ /\ \E s \in LiveStatuses : RecordAttempt(c, snapshot[c], s)
                      /\ UNCHANGED faults
                   \/ Fault("db") /\ UNCHANGED <<status, attempts, due>>
                /\ batch' = batch \ {c}
                /\ snapshot' = [snapshot EXCEPT ![c] = 0]
            BY <2>4 DEF WorkerRecord, LiveStatuses
        <3>2. c \in Commands /\ snapshot[c] \in 0..(MaxAttempts - 1)
            BY DEF TypeOK
        <3>3. /\ status' \in [Commands -> Statuses]
              /\ attempts' \in [Commands -> 0..MaxAttempts]
              /\ due' \in [Commands -> BOOLEAN]
              /\ faults' \in 0..MaxFaults
            BY <3>1, <3>2, RecordAttemptTypes, FaultTypes DEF TypeOK
        <3>4. /\ snapshot \in [Commands -> 0..(MaxAttempts - 1)]
              /\ batch \in SUBSET Commands
              /\ 0 \in 0..(MaxAttempts - 1)
            BY BoundsAssumption DEF TypeOK
        <3>5. snapshot' \in [Commands -> 0..(MaxAttempts - 1)] /\ batch' \in SUBSET Commands
            BY <3>1, <3>2, <3>4
        <3>6. worker' \in WorkerStates
            BY <2>4 DEF WorkerRecord, WorkerStates
        <3> QED BY <2>4, <3>3, <3>5, <3>6 DEF WorkerRecord, TypeOK, netVars, phoneVars, listVars
    <2>5. CASE WorkerFinish
        <3>1. faults' \in 0..MaxFaults
            BY <2>5, FaultTypes DEF WorkerFinish, TypeOK
        <3>2. status' \in [Commands -> Statuses]
            BY <2>5 DEF WorkerFinish, TypeOK, Statuses
        <3> QED BY <2>5, <3>1, <3>2 DEF WorkerFinish, TypeOK, netVars, phoneVars, listVars, WorkerStates
    <2> QED BY <1>2, <2>1, <2>2, <2>3, <2>4, <2>5 DEF WorkerNext
<1>3. ASSUME NEW c \in Commands, TimeNext(c) PROVE TypeOK'
    <2>1. CASE RetryDue(c)
        BY <2>1 DEF RetryDue, TypeOK, workerVars, netVars, phoneVars, listVars
    <2>2. CASE TTLPasses(c)
        BY <2>2, FaultTypes DEF TTLPasses, TypeOK, workerVars, netVars, phoneVars, listVars
    <2> QED BY <1>3, <2>1, <2>2 DEF TimeNext
<1>4. ASSUME NEW c \in Commands, AckArrives(c) PROVE TypeOK'
    <2>1. faults' \in 0..MaxFaults
        BY <1>4, FaultTypes DEF AckArrives, TypeOK
    <2>2. status' \in [Commands -> Statuses]
        BY <1>4 DEF AckArrives, TypeOK, Statuses
    <2> QED BY <1>4, <2>1, <2>2 DEF AckArrives, TypeOK, workerVars, phoneVars, listVars
<1>5. CASE NetNext
    <2>1. CASE Connect
        BY <2>1 DEF Connect, TypeOK, rowVars, workerVars, phoneVars, listVars
    <2>2. CASE Disconnect
        BY <2>2 DEF Disconnect, TypeOK, rowVars, workerVars, phoneVars, listVars
    <2>3. ASSUME NEW c \in Commands, LoseCopy(c) PROVE TypeOK'
        <3>1. faults' \in 0..MaxFaults
            BY <2>3, FaultTypes DEF LoseCopy
        <3>2. downlink' \in [Commands -> Nat]
            BY <2>3, CopyTypes DEF LoseCopy
        <3> QED BY <2>3, <3>1, <3>2 DEF LoseCopy, TypeOK, rowVars, workerVars, phoneVars, listVars
    <2>4. ASSUME NEW c \in Commands, DuplicateCopy(c) PROVE TypeOK'
        <3>1. faults' \in 0..MaxFaults
            BY <2>4, FaultTypes DEF DuplicateCopy
        <3>2. downlink' \in [Commands -> Nat]
            BY <2>4, CopyTypes DEF DuplicateCopy
        <3> QED BY <2>4, <3>1, <3>2 DEF DuplicateCopy, TypeOK, rowVars, workerVars, phoneVars, listVars
    <2> QED BY <1>5, <2>1, <2>2, <2>3, <2>4 DEF NetNext
<1>6. CASE ServerCrash
    <2>1. faults' \in 0..MaxFaults
        BY <1>6, FaultTypes DEF ServerCrash
    <2>2. sender' \in [Commands -> SenderStates]
        BY <1>6 DEF ServerCrash, SenderStates
    <2>3. /\ downlink' \in [Commands -> Nat] /\ snapshot' \in [Commands -> 0..(MaxAttempts - 1)]
          /\ worker' \in WorkerStates
        BY <1>6 DEF ServerCrash, WorkerStates
    <2> QED BY <1>6, <2>1, <2>2, <2>3 DEF ServerCrash, TypeOK, rowVars, phoneVars, listVars
<1>7. CASE PhoneNext
    <2>1. ASSUME NEW r \in Readers, ReaderNext(r) PROVE TypeOK'
        BY <2>1, ReaderTypes
    <2>2. ASSUME NEW c \in Commands, ConfirmArrives(c) PROVE TypeOK'
        BY <2>2 DEF ConfirmArrives, TypeOK, rowVars, workerVars, listVars
    <2>3. ASSUME NEW c \in Commands, PhoneEvictAck(c) PROVE TypeOK'
        BY <2>3, FaultTypes DEF PhoneEvictAck, TypeOK, rowVars, workerVars, netVars, listVars
    <2>4. CASE PhoneFlush
        BY <2>4 DEF PhoneFlush, TypeOK, rowVars, workerVars, phoneVars, listVars
    <2>5. CASE PhoneCrash
        BY <2>5, FaultTypes DEF PhoneCrash, TypeOK, Stages, rowVars, workerVars
    <2> QED BY <1>7, <2>1, <2>2, <2>3, <2>4, <2>5 DEF PhoneNext
<1>8. CASE UNCHANGED vars
    BY <1>8 DEF vars, rowVars, workerVars, netVars, phoneVars, listVars, TypeOK
<1> QED BY <1>1, <1>2, <1>3, <1>4, <1>5, <1>6, <1>7, <1>8 DEF Next

-----------------------------------------------------------------------------
(* The other parts of the inductive invariant, one lemma each.              *)

LEMMA RestInit == Init => NoRowBeforeCreate /\ StageMatchesHandling /\ AcksComeFromClaims
BY DEF Init, NoRowBeforeCreate, StageMatchesHandling, AcksComeFromClaims, PhoneTraces, TakenStages

\* What one step can do to a row and to its sender: a row changes when it is
\* live, or when its own sender creates it; it becomes acknowledged only by an ack.
BeforeCreate == {"idle", "superseded"}

RowChange(c) ==
    /\ sender'[c] \in BeforeCreate => sender[c] \in BeforeCreate
    /\ \/ status'[c] = status[c]
       \/ c \in Live
       \/ sender[c] = "superseded" /\ sender'[c] = "created" /\ status'[c] = "queued"
    /\ status'[c] = "acknowledged" => status[c] = "acknowledged" \/ c \in uplink
    /\ status'[c] = "none" => status[c] = "none"

LEMMA RowChanges ==
    ASSUME TypeOK, [Next]_vars, NEW c \in Commands
    PROVE  RowChange(c)
<1>0. status \in [Commands -> Statuses] /\ sender \in [Commands -> SenderStates]
    BY DEF TypeOK
<1>a. ASSUME UNCHANGED <<status, sender>> PROVE RowChange(c)
    BY <1>a DEF RowChange
<1>b. ASSUME NEW d \in Commands, NEW seen, NEW new \in LiveStatuses, RecordAttempt(d, seen, new)
      PROVE  status'[c] = status[c] \/ (c \in Live /\ status'[c] \in LiveStatuses)
    BY <1>0, <1>b DEF RecordAttempt
<1>1. ASSUME NEW d \in Commands, SenderNext(d) PROVE RowChange(c)
    <2>1. CASE SendSupersede(d)
        <3>1. Superseded(d) \subseteq Live
            BY DEF Superseded
        <3> QED BY <1>0, <2>1, <3>1 DEF SendSupersede, RowChange, BeforeCreate
    <2>2. CASE SendCreate(d)
        BY <1>0, <2>2 DEF SendCreate, RowChange, BeforeCreate
    <2>3. CASE SendAttempt(d)
        BY <1>0, <2>3 DEF SendAttempt, rowVars, RowChange, BeforeCreate
    <2>4. CASE SendRecord(d)
        <3>1. status'[c] = status[c] \/ (c \in Live /\ status'[c] \in LiveStatuses)
            BY <1>b, <2>4 DEF SendRecord, LiveStatuses
        <3> QED BY <1>0, <2>4, <3>1 DEF SendRecord, RowChange, BeforeCreate, LiveStatuses
    <2>5. CASE SendDbError(d)
        BY <1>0, <2>5 DEF SendDbError, rowVars, RowChange, BeforeCreate
    <2> QED BY <1>1, <2>1, <2>2, <2>3, <2>4, <2>5 DEF SenderNext
<1>2. CASE WorkerNext
    <2>1. CASE TickScan \/ WakeScan \/ WorkerAttempt
        BY <1>a, <2>1 DEF TickScan, WakeScan, WorkerAttempt, rowVars
    <2>2. CASE WorkerRecord
        <3>1. PICK d \in batch : \/ \E new \in LiveStatuses : RecordAttempt(d, snapshot[d], new)
                                 \/ UNCHANGED status
            BY <2>2 DEF WorkerRecord, LiveStatuses
        <3>2. d \in Commands
            BY DEF TypeOK
        <3>3. status'[c] = status[c] \/ (c \in Live /\ status'[c] \in LiveStatuses)
            BY <1>b, <3>1, <3>2
        <3> QED BY <2>2, <3>3 DEF WorkerRecord, RowChange, LiveStatuses
    <2>3. CASE WorkerFinish
        BY <1>0, <2>3 DEF WorkerFinish, Exhausted, RowChange
    <2> QED BY <1>2, <2>1, <2>2, <2>3 DEF WorkerNext
<1>3. ASSUME NEW d \in Commands, TimeNext(d) PROVE RowChange(c)
    BY <1>a, <1>3 DEF TimeNext, RetryDue, TTLPasses
<1>4. ASSUME NEW d \in Commands, AckArrives(d) PROVE RowChange(c)
    BY <1>0, <1>4 DEF AckArrives, RowChange
<1>5. CASE NetNext
    BY <1>a, <1>5 DEF NetNext, Connect, Disconnect, LoseCopy, DuplicateCopy, rowVars
<1>6. CASE ServerCrash
    BY <1>0, <1>6 DEF ServerCrash, rowVars, RowChange, BeforeCreate
<1>7. CASE PhoneNext
    BY <1>a, <1>7 DEF PhoneNext, ReaderNext, PhoneReceive, PhoneLoad, PhoneTest, PhoneDuplicate,
                      PhoneInsert, PhonePut, PhoneAck, PhoneExecute, PhoneFlush,
                      ConfirmArrives, PhoneEvictAck, PhoneCrash, rowVars
<1>8. CASE UNCHANGED vars
    BY <1>a, <1>8 DEF vars, rowVars
<1> QED BY <1>1, <1>2, <1>3, <1>4, <1>5, <1>6, <1>7, <1>8 DEF Next

LEMMA NoRowStep ==
    TypeOK /\ NoRowBeforeCreate /\ [Next]_vars => NoRowBeforeCreate'
<1> SUFFICES ASSUME TypeOK, NoRowBeforeCreate, [Next]_vars,
                    NEW c \in Commands, sender'[c] \in BeforeCreate
             PROVE  status'[c] = "none"
    BY DEF NoRowBeforeCreate, BeforeCreate
<1>1. RowChange(c)
    BY RowChanges
<1>2. status[c] = "none"
    BY <1>1 DEF RowChange, NoRowBeforeCreate, BeforeCreate
<1> QED BY <1>1, <1>2 DEF RowChange, Live, LiveStatuses, BeforeCreate

\* What one step can do to the phone: only its own actions touch it, and nothing
\* else adds an ack to those on their way.
PhoneUntouched == UNCHANGED phoneVars /\ uplink' \subseteq uplink

LEMMA PhoneChanges ==
    ASSUME TypeOK, [Next]_vars
    PROVE  PhoneNext \/ PhoneUntouched
<1>1. ASSUME NEW d \in Commands, SenderNext(d) PROVE PhoneUntouched
    BY <1>1 DEF SenderNext, SendSupersede, SendCreate, SendAttempt, SendRecord, SendDbError, netVars, PhoneUntouched
<1>2. CASE WorkerNext
    BY <1>2 DEF WorkerNext, TickScan, WakeScan, WorkerAttempt, WorkerRecord, WorkerFinish, netVars, PhoneUntouched
<1>3. ASSUME NEW d \in Commands, TimeNext(d) PROVE PhoneUntouched
    BY <1>3 DEF TimeNext, RetryDue, TTLPasses, netVars, PhoneUntouched
<1>4. ASSUME NEW d \in Commands, AckArrives(d) PROVE PhoneUntouched
    BY <1>4 DEF AckArrives, PhoneUntouched
<1>5. CASE NetNext
    BY <1>5 DEF NetNext, Connect, Disconnect, LoseCopy, DuplicateCopy, PhoneUntouched
<1>6. CASE ServerCrash
    BY <1>6 DEF ServerCrash, PhoneUntouched
<1>7. CASE UNCHANGED vars
    BY <1>7 DEF vars, netVars, PhoneUntouched
<1> QED BY <1>1, <1>2, <1>3, <1>4, <1>5, <1>6, <1>7 DEF Next

LEMMA StageStep ==
    TypeOK /\ StageMatchesHandling /\ [Next]_vars => StageMatchesHandling'
<1> SUFFICES ASSUME TypeOK, StageMatchesHandling, [Next]_vars PROVE StageMatchesHandling'
    OBVIOUS
<1>1. CASE PhoneUntouched
    BY <1>1 DEF PhoneUntouched, phoneVars, listVars, StageMatchesHandling
<1>2. CASE PhoneNext
    <2>0. /\ handling \in [Readers -> Commands \cup {NoCommand}] /\ stage \in [Readers -> Stages]
        BY DEF TypeOK
    <2>1. ASSUME NEW r \in Readers, NEW c \in Commands, PhoneReceive(r, c) PROVE StageMatchesHandling'
        BY <2>0, <2>1, CommandsAssumption DEF PhoneReceive, StageMatchesHandling
    <2>2. ASSUME NEW r \in Readers, PhoneDuplicate(r) \/ PhoneExecute(r) PROVE StageMatchesHandling'
        BY <2>0, <2>2 DEF PhoneDuplicate, PhoneExecute, StageMatchesHandling
    <2>3. ASSUME NEW r \in Readers,
                 PhoneLoad(r) \/ PhoneTest(r) \/ PhoneInsert(r) \/ PhonePut(r) \/ PhoneAck(r)
          PROVE  StageMatchesHandling'
        BY <2>0, <2>3 DEF PhoneLoad, PhoneTest, PhoneInsert, PhonePut, PhoneAck, StageMatchesHandling
    <2>4. CASE PhoneCrash
        BY <2>4 DEF PhoneCrash, StageMatchesHandling
    <2>5. ASSUME UNCHANGED <<stage, handling>> PROVE StageMatchesHandling'
        BY <2>5 DEF StageMatchesHandling
    <2> QED BY <1>2, <2>1, <2>2, <2>3, <2>4, <2>5
            DEF PhoneNext, ReaderNext, PhoneFlush, ConfirmArrives, PhoneEvictAck, phoneVars, listVars
<1> QED BY <1>1, <1>2, PhoneChanges

\* A command once claimed stays claimed; PhoneInsert adds the one in hand.
LEMMA ClaimsGrow ==
    ASSUME TypeOK, [Next]_vars, NEW c \in Commands, c \in Claimed
    PROVE  c \in Claimed'
<1>0. claims \in [Commands -> Nat]
    BY DEF TypeOK
<1>1. CASE PhoneUntouched
    BY <1>1 DEF PhoneUntouched, phoneVars, listVars, Claimed
<1>2. CASE PhoneNext
    <2>1. ASSUME NEW r \in Readers, PhoneInsert(r) PROVE c \in Claimed'
        BY <1>0, <2>1 DEF PhoneInsert, Claimed
    <2>2. ASSUME UNCHANGED claims PROVE c \in Claimed'
        BY <2>2 DEF Claimed
    <2> QED BY <1>2, <2>1, <2>2
            DEF PhoneNext, ReaderNext, PhoneReceive, PhoneLoad, PhoneTest, PhoneDuplicate, PhonePut,
                PhoneAck, PhoneExecute, PhoneFlush, ConfirmArrives, PhoneEvictAck, PhoneCrash, phoneVars, listVars
<1> QED BY <1>1, <1>2, PhoneChanges

LEMMA PhoneTracesStep ==
    ASSUME TypeOK, StageMatchesHandling, PhoneTraces, [Next]_vars
    PROVE  PhoneTraces'
<1>0. /\ Claimed \subseteq Claimed'
      /\ handling \in [Readers -> Commands \cup {NoCommand}] /\ stage \in [Readers -> Stages]
      /\ encoded \in [Readers -> SUBSET Commands] /\ claims \in [Commands -> Nat]
      /\ history \in SUBSET Commands
    BY ClaimsGrow DEF Claimed, TypeOK
<1>a. ASSUME NEW c \in Claimed, QueueAck(c) PROVE outbox' \subseteq Claimed /\ uplink' \subseteq Claimed
    BY <1>a DEF QueueAck, FlushedUplink, PhoneTraces
<1>1. CASE PhoneUntouched
    BY <1>0, <1>1 DEF PhoneUntouched, phoneVars, listVars, PhoneTraces
<1>2. ASSUME NEW r \in Readers, NEW c \in Commands, PhoneReceive(r, c) PROVE PhoneTraces'
    BY <1>0, <1>2 DEF PhoneReceive, TakenStages, PhoneTraces
<1>3. ASSUME NEW r \in Readers, PhoneLoad(r) \/ PhoneTest(r) PROVE PhoneTraces'
    BY <1>0, <1>3 DEF PhoneLoad, PhoneTest, listVars, netVars, TakenStages, PhoneTraces
<1>4. ASSUME NEW r \in Readers, PhoneDuplicate(r) PROVE PhoneTraces'
    <2>1. handling[r] \in Claimed
        BY <1>4 DEF PhoneDuplicate, PhoneTraces
    <2>2. outbox' \subseteq Claimed /\ uplink' \subseteq Claimed
        BY <1>4, <1>a, <2>1 DEF PhoneDuplicate
    <2> QED BY <1>0, <1>4, <2>2 DEF PhoneDuplicate, listVars, TakenStages, PhoneTraces
<1>5. ASSUME NEW r \in Readers, PhoneInsert(r) PROVE PhoneTraces'
    <2>1. handling[r] \in Commands
        BY <1>0, <1>5 DEF PhoneInsert, StageMatchesHandling
    <2>2. handling[r] \in Claimed'
        BY <1>0, <1>5, <2>1 DEF PhoneInsert, Claimed
    <2>3. history' \subseteq Claimed'
        BY <1>0, <1>5, <2>1, <2>2, ExtendedFacts DEF PhoneInsert, PhoneTraces
    <2> QED BY <1>0, <1>5, <2>2, <2>3 DEF PhoneInsert, netVars, TakenStages, PhoneTraces
<1>6. ASSUME NEW r \in Readers, PhonePut(r) PROVE PhoneTraces'
    BY <1>0, <1>6 DEF PhonePut, netVars, TakenStages, PhoneTraces
<1>7. ASSUME NEW r \in Readers, PhoneAck(r) PROVE PhoneTraces'
    <2>1. handling[r] \in Claimed
        BY <1>7 DEF PhoneAck, PhoneTraces, TakenStages
    <2>2. outbox' \subseteq Claimed /\ uplink' \subseteq Claimed
        BY <1>7, <1>a, <2>1 DEF PhoneAck
    <2> QED BY <1>0, <1>7, <2>2 DEF PhoneAck, listVars, TakenStages, PhoneTraces
<1>8. ASSUME NEW r \in Readers, PhoneExecute(r) PROVE PhoneTraces'
    BY <1>0, <1>8 DEF PhoneExecute, listVars, netVars, TakenStages, PhoneTraces
<1>9. CASE PhoneFlush
    BY <1>0, <1>9 DEF PhoneFlush, phoneVars, listVars, PhoneTraces
<1>10. CASE PhoneCrash
    BY <1>0, <1>10 DEF PhoneCrash, TakenStages, PhoneTraces
<1>11. ASSUME NEW c \in Commands, ConfirmArrives(c) \/ PhoneEvictAck(c) PROVE PhoneTraces'
    BY <1>0, <1>11 DEF ConfirmArrives, PhoneEvictAck, netVars, listVars, PhoneTraces
<1> QED BY <1>1, <1>2, <1>3, <1>4, <1>5, <1>6, <1>7, <1>8, <1>9, <1>10, <1>11, PhoneChanges
        DEF PhoneNext, ReaderNext

LEMMA AcksStep ==
    DeliveryInv /\ [Next]_vars => AcksComeFromClaims'
<1> SUFFICES ASSUME DeliveryInv, [Next]_vars PROVE AcksComeFromClaims'
    OBVIOUS
<1>0. TypeOK /\ StageMatchesHandling /\ AcksComeFromClaims
    BY DEF DeliveryInv
<1>1. PhoneTraces'
    BY <1>0, PhoneTracesStep DEF AcksComeFromClaims
<1>2. ASSUME NEW c \in Commands, status'[c] = "acknowledged" PROVE c \in Claimed'
    <2>1. RowChange(c)
        BY <1>0, RowChanges
    <2>2. c \in Claimed
        BY <1>0, <1>2, <2>1 DEF RowChange, AcksComeFromClaims, PhoneTraces
    <2> QED BY <1>0, <2>2, ClaimsGrow
<1> QED BY <1>1, <1>2 DEF AcksComeFromClaims

\* The inductive invariant behind the first three theorems.
LEMMA DeliveryInvariance == Spec => []DeliveryInv
<1>1. Init => DeliveryInv
    BY TypeInit, RestInit DEF DeliveryInv
<1>2. DeliveryInv /\ [Next]_vars => DeliveryInv'
    BY TypeStep, NoRowStep, StageStep, AcksStep DEF DeliveryInv
<1> QED BY <1>1, <1>2, PTL DEF Spec

-----------------------------------------------------------------------------
(* Theorems.                                                                *)

\* Every variable keeps its type; in particular no stale snapshot is ever at the
\* attempt limit, so the worker never meets the unguarded updates of
\* attemptCommandDelivery (delivery.go:172-188).
THEOREM TypeCorrect == Spec => []TypeOK
BY DeliveryInvariance, PTL DEF DeliveryInv

\* A row is acknowledged only for a command the phone has claimed, whatever is
\* lost, duplicated, retried from a stale copy, or crashes.
THEOREM AcknowledgementsAreHonest == Spec => []AcknowledgedWasClaimed
<1>1. DeliveryInv => AcknowledgedWasClaimed
    BY DEF DeliveryInv, AcksComeFromClaims, AcknowledgedWasClaimed, Claimed
<1> QED BY <1>1, DeliveryInvariance, PTL

\* Rows leave acknowledged and failed in no step: the writes of the sender, the
\* worker's stale copies and late acks are all guarded, and a row is created once.
THEOREM TerminalRowsAreFinal == Spec => TerminalIsFinal
<1>1. DeliveryInv /\ [Next]_vars => [\A c \in Commands : c \in Terminal => status'[c] = status[c]]_vars
    <2> SUFFICES ASSUME DeliveryInv, [Next]_vars, NEW c \in Commands, c \in Terminal
                 PROVE  status'[c] = status[c]
        OBVIOUS
    <2>1. RowChange(c)
        BY RowChanges DEF DeliveryInv
    <2>2. c \notin Live /\ sender[c] # "superseded"
        BY DEF DeliveryInv, NoRowBeforeCreate, Terminal, Live, LiveStatuses
    <2> QED BY <2>1, <2>2 DEF RowChange
<1> QED BY <1>1, DeliveryInvariance, PTL DEF Spec, TerminalIsFinal

-----------------------------------------------------------------------------
(* At most one run per command.                                             *)

\* A list that misses one of the commands has room for it.
LEMMA NoEviction ==
    ASSUME NEW list \in SUBSET Commands, NEW c \in Commands \ list, Cardinality(Commands) <= MaxHistory
    PROVE  Extended(list, c) = {list \cup {c}}
<1>1. IsFiniteSet(list) /\ list \cup {c} \in SUBSET Commands
    BY FS_Subset, CommandsAssumption
<1>2. Cardinality(list \cup {c}) = Cardinality(list) + 1
    BY <1>1, FS_AddElement
<1>3. Cardinality(list \cup {c}) <= Cardinality(Commands)
    BY <1>1, FS_Subset, CommandsAssumption
<1>4. Cardinality(list) \in Nat /\ Cardinality(Commands) \in Nat
    BY <1>1, FS_CardinalityType, CommandsAssumption
<1>5. Cardinality(list) < MaxHistory
    BY <1>2, <1>3, <1>4, BoundsAssumption
<1> QED BY <1>5 DEF Extended

\* Once forgetful, always forgetful.
LEMMA ForgetfulStays == ASSUME TypeOK, [Next]_vars, forgetful PROVE forgetful'
<1>1. CASE PhoneUntouched
    BY <1>1 DEF PhoneUntouched, phoneVars, listVars
<1>2. CASE PhoneNext
    BY <1>2 DEF PhoneNext, ReaderNext, PhoneReceive, PhoneLoad, PhoneTest, PhoneDuplicate, PhoneInsert,
                PhonePut, PhoneAck, PhoneExecute, PhoneFlush, ConfirmArrives, PhoneEvictAck, PhoneCrash,
                phoneVars, listVars
<1> QED BY <1>1, <1>2, PhoneChanges

\* A step of a reader keeps the lists in agreement, and the runs with them.
LEMMA ReaderKeeps ==
    ASSUME Cardinality(Commands) <= MaxHistory, DeliveryInv, ListsAgree, RunsAreStored,
           NEW r \in Readers, ReaderNext(r), ~forgetful, ~forgetful'
    PROVE  ListsAgree' /\ RunsAreStored'
<1>0. /\ handling \in [Readers -> Commands \cup {NoCommand}] /\ stage \in [Readers -> Stages]
      /\ encoded \in [Readers -> SUBSET Commands] /\ execs \in [Commands -> Nat]
      /\ history \in SUBSET Commands /\ stored \in SUBSET Commands
      /\ loaded \in BOOLEAN
    BY DEF DeliveryInv, TypeOK
<1>h. stage[r] # "none" => handling[r] \in Commands
    BY <1>0 DEF DeliveryInv, StageMatchesHandling
<1>1. ASSUME NEW c \in Commands, PhoneReceive(r, c) PROVE ListsAgree' /\ RunsAreStored'
    <2>1. /\ Claiming = {} /\ stage[r] = "none" /\ loaded'
          /\ handling' = [handling EXCEPT ![r] = c]
          /\ stage' = [stage EXCEPT ![r] = IF loaded THEN "test" ELSE "load"]
          /\ UNCHANGED <<history, stored, encoded, execs>>
        BY <1>1 DEF PhoneReceive, Idle
    <2>2. Claiming' = {r} /\ \A s \in Readers : s # r => stage'[s] = stage[s] /\ handling'[s] = handling[s]
        BY <1>0, <2>1 DEF Claiming, ClaimStages
    <2>3. stage'[r] \in {"load", "test"} /\ (stage'[r] = "load" <=> ~loaded)
        BY <1>0, <2>1
    <2>4. \A s \in Readers : stage[s] \notin {"load", "put"}
        BY <2>1 DEF Claiming, ClaimStages
    <2>5. loaded => history = stored
        BY <2>4 DEF ListsAgree
    <2>6. ListsAgree'
        BY <2>1, <2>2, <2>3, <2>5 DEF ListsAgree
    <2>7. RunsAreStored'
        BY <2>1, <2>2, <2>3 DEF RunsAreStored, RunStages
    <2> QED BY <2>6, <2>7
\* The other steps start from a stage, and no other reader is claiming.
<1> DEFINE Moves(to) ==
        /\ stage' = [stage EXCEPT ![r] = to]
        /\ UNCHANGED <<handling, execs, loaded>>
<1>a. ASSUME r \in Claiming
      PROVE  /\ loaded
             /\ \A s \in Readers : s # r => stage[s] \notin ClaimStages
             /\ stage[r] \notin {"load", "put"} => history = stored
    BY <1>a DEF ListsAgree, Claiming, ClaimStages
<1>2. CASE PhoneLoad(r)
    <2>1. Moves("test") /\ UNCHANGED <<stored, encoded>> /\ stage[r] = "load" /\ r \in Claiming
        BY <1>2 DEF PhoneLoad, Claiming, ClaimStages
    <2>2. history = {} /\ history' = stored
        BY <1>2, <2>1 DEF PhoneLoad, ListsAgree
    <2>3. \A s \in Readers : /\ s # r => stage'[s] = stage[s] /\ stage'[s] \notin ClaimStages
                             /\ stage'[s] \in RunStages => stage[s] \in RunStages
        BY <1>0, <1>a, <2>1 DEF RunStages
    <2>4. ListsAgree'
        BY <1>0, <1>a, <2>1, <2>2, <2>3 DEF ListsAgree, Claiming
    <2> QED BY <2>1, <2>3, <2>4 DEF RunsAreStored
<1>3. CASE PhoneTest(r)
    <2>1. /\ Moves("insert") /\ UNCHANGED <<history, stored, encoded>>
          /\ stage[r] = "test" /\ r \in Claiming /\ handling[r] \notin history
        BY <1>3 DEF PhoneTest, listVars, Claiming, ClaimStages
    <2>2. \A s \in Readers : /\ s # r => stage'[s] = stage[s] /\ stage'[s] \notin ClaimStages
                             /\ stage'[s] \in RunStages => stage[s] \in RunStages
        BY <1>0, <1>a, <2>1 DEF RunStages
    <2>3. ListsAgree'
        BY <1>0, <1>a, <2>1, <2>2 DEF ListsAgree, Claiming
    <2> QED BY <2>1, <2>2, <2>3 DEF RunsAreStored
<1>4. CASE PhoneDuplicate(r) \/ PhoneExecute(r)
    <2>1. /\ stage' = [stage EXCEPT ![r] = "none"] /\ handling' = [handling EXCEPT ![r] = NoCommand]
          /\ UNCHANGED <<loaded, history, stored, encoded>>
          /\ stage[r] \in {"test", "acked"}
        BY <1>4 DEF PhoneDuplicate, PhoneExecute, listVars
    <2>2. \A s \in Readers : /\ s # r => stage'[s] = stage[s] /\ handling'[s] = handling[s]
                             /\ stage'[r] = "none"
        BY <1>0, <2>1
    <2>3. Claiming' = Claiming \ {r}
        BY <2>2 DEF Claiming, ClaimStages
    <2>4. ListsAgree'
        BY <2>1, <2>2, <2>3 DEF ListsAgree
    <2>5. CASE PhoneDuplicate(r)
        <3>1. UNCHANGED execs
            BY <2>5 DEF PhoneDuplicate
        <3> QED BY <2>1, <2>2, <2>4, <3>1 DEF RunsAreStored, RunStages
    <2>6. CASE PhoneExecute(r)
        <3>1. /\ handling[r] \in stored /\ execs[handling[r]] = 0 /\ stage[r] \in RunStages
              /\ handling[r] \in Commands
              /\ \A s \in Readers : stage[s] \in RunStages /\ handling[s] = handling[r] => s = r
            BY <1>h, <2>6 DEF PhoneExecute, RunsAreStored, RunStages
        <3>2. /\ execs'[handling[r]] = 1
              /\ \A c \in Commands : c # handling[r] => execs'[c] = execs[c]
            BY <1>0, <2>6, <3>1 DEF PhoneExecute
        <3>3. \A s \in Readers : stage'[s] \in RunStages =>
                 s # r /\ stage[s] \in RunStages /\ handling'[s] = handling[s] /\ handling[s] # handling[r]
            BY <2>2, <3>1 DEF RunStages
        <3>4. \A s \in Readers : stage[s] \in RunStages => handling[s] \in Commands
            BY <1>0 DEF DeliveryInv, StageMatchesHandling, RunStages
        <3>5. RunsAreStored'
            BY <2>1, <3>1, <3>2, <3>3, <3>4 DEF RunsAreStored
        <3> QED BY <2>4, <3>5
    <2> QED BY <1>4, <2>5, <2>6
<1>5. CASE PhoneInsert(r)
    <2> DEFINE c == handling[r]
    <2>1. /\ Moves("put") /\ UNCHANGED stored /\ history' \in Extended(history, c)
          /\ encoded' = [encoded EXCEPT ![r] = history']
          /\ stage[r] = "insert" /\ r \in Claiming
        BY <1>5 DEF PhoneInsert, Claiming, ClaimStages
    <2>2. history = stored /\ c \notin history /\ c \in Commands
        BY <1>a, <1>h, <2>1 DEF ListsAgree
    <2>3. history' = stored \cup {c}
        BY <1>0, <2>1, <2>2, NoEviction
    <2>4. \A s \in Readers : /\ s # r => stage'[s] = stage[s] /\ stage'[s] \notin ClaimStages
                             /\ stage'[s] \in RunStages => stage[s] \in RunStages
                             /\ stage'[r] = "put"
        BY <1>0, <1>a, <2>1 DEF RunStages
    <2>5. Claiming' = {r} /\ encoded'[r] = history'
        BY <1>0, <2>1, <2>4 DEF Claiming, ClaimStages
    <2>6. ListsAgree'
        BY <1>a, <2>1, <2>2, <2>3, <2>4, <2>5 DEF ListsAgree
    <2> QED BY <2>1, <2>4, <2>6 DEF RunsAreStored
<1>6. CASE PhonePut(r)
    <2> DEFINE c == handling[r]
    <2>1. /\ Moves("claimed") /\ UNCHANGED history /\ stored' = encoded[r]
          /\ encoded' = [encoded EXCEPT ![r] = {}]
          /\ stage[r] = "put" /\ r \in Claiming
        BY <1>6 DEF PhonePut, Claiming, ClaimStages
    <2>2. c \notin stored /\ stored' = stored \cup {c} /\ history = stored' /\ c \in Commands
        BY <1>h, <2>1 DEF ListsAgree
    <2>3. \A s \in Readers : /\ s # r => stage'[s] = stage[s] /\ stage'[s] \notin ClaimStages
                             /\ stage'[r] = "claimed"
        BY <1>0, <1>a, <2>1
    <2>4. Claiming' = {}
        BY <2>3 DEF Claiming, ClaimStages
    <2>5. ListsAgree'
        BY <1>a, <2>1, <2>2, <2>3, <2>4 DEF ListsAgree
    <2>6. execs[c] = 0
        BY <1>0, <2>2 DEF RunsAreStored
    <2>7. \A s \in Readers : s # r /\ stage'[s] \in RunStages =>
             stage[s] \in RunStages /\ handling[s] \in stored /\ handling[s] # c
        BY <2>2, <2>3 DEF RunsAreStored
    <2>8. RunsAreStored'
        BY <2>1, <2>2, <2>3, <2>6, <2>7 DEF RunsAreStored
    <2> QED BY <2>5, <2>8
<1>7. CASE PhoneAck(r)
    <2>1. Moves("acked") /\ UNCHANGED <<history, stored, encoded>> /\ stage[r] = "claimed"
        BY <1>7 DEF PhoneAck, listVars
    <2>2. \A s \in Readers : /\ s # r => stage'[s] = stage[s]
                             /\ (stage'[s] \in RunStages) <=> (stage[s] \in RunStages)
                             /\ (stage'[s] \in ClaimStages) <=> (stage[s] \in ClaimStages)
                             /\ stage'[r] = "acked"
        BY <1>0, <2>1 DEF RunStages, ClaimStages
    <2>3. Claiming' = Claiming /\ r \notin Claiming
        BY <2>1, <2>2 DEF Claiming, ClaimStages
    <2>4. ListsAgree'
        BY <2>1, <2>2, <2>3 DEF ListsAgree
    <2> QED BY <2>1, <2>2, <2>4 DEF RunsAreStored
<1> QED BY <1>1, <1>2, <1>3, <1>4, <1>5, <1>6, <1>7 DEF ReaderNext

LEMMA HistoryStep ==
    ASSUME Cardinality(Commands) <= MaxHistory, DeliveryInv, HistoryCoversExecs, [Next]_vars
    PROVE  HistoryCoversExecs'
<1> SUFFICES ASSUME ~forgetful' PROVE (ListsAgree /\ RunsAreStored)'
    BY DEF HistoryCoversExecs
<1>0. TypeOK /\ ~forgetful /\ ListsAgree /\ RunsAreStored
    BY ForgetfulStays DEF DeliveryInv, HistoryCoversExecs
<1>1. ASSUME UNCHANGED <<listVars, handling, stage, execs>> PROVE (ListsAgree /\ RunsAreStored)'
    BY <1>0, <1>1 DEF listVars, ListsAgree, RunsAreStored, Claiming
<1>2. ASSUME NEW r \in Readers, ReaderNext(r) PROVE (ListsAgree /\ RunsAreStored)'
    BY <1>0, <1>2, ReaderKeeps
<1>3. CASE PhoneCrash
    <2>1. /\ ~loaded' /\ history' = {} /\ UNCHANGED <<stored, execs>>
          /\ \A r \in Readers : stage'[r] = "none"
        BY <1>3 DEF PhoneCrash
    <2>2. Claiming' = {}
        BY <2>1 DEF Claiming, ClaimStages
    <2> QED BY <1>0, <2>1, <2>2 DEF ListsAgree, RunsAreStored, RunStages
<1>4. CASE PhoneUntouched
    BY <1>1, <1>4 DEF PhoneUntouched, phoneVars, listVars
<1> QED BY <1>0, <1>1, <1>2, <1>3, <1>4, PhoneChanges
        DEF PhoneNext, PhoneFlush, ConfirmArrives, PhoneEvictAck, phoneVars

\* A list with room for every command, written to storage before the ack and read back
\* by the next process, keeps the phone from running a command twice, through any
\* number of resends, duplicates and restarts of either side, at any point of a claim;
\* unless a write or a read of the list failed or two claims overlapped.
\* (main.js:469-515)
THEOREM AtMostOnce ==
    ASSUME Cardinality(Commands) <= MaxHistory
    PROVE  Spec => []ExecutedAtMostOnce
<1>1. Init => HistoryCoversExecs
    BY DEF Init, HistoryCoversExecs, ListsAgree, RunsAreStored, RunStages, Claiming, ClaimStages
<1>2. DeliveryInv /\ HistoryCoversExecs /\ [Next]_vars => HistoryCoversExecs'
    BY HistoryStep
<1>3. HistoryCoversExecs => ExecutedAtMostOnce
    BY DEF HistoryCoversExecs, RunsAreStored, ExecutedAtMostOnce
<1> QED BY <1>1, <1>2, <1>3, DeliveryInvariance, PTL DEF Spec

-----------------------------------------------------------------------------
(* How many copies are sent. The worker is the only one to count upwards    *)
(* from what the table holds; the sender's first write may set the count    *)
(* back to one, once.                                                       *)

\* A copy that its sender, or the worker, has sent and not recorded yet.
Uncounted(c) == IF sender[c] = "accepted" THEN 1 ELSE 0
InFlight(c)  == IF worker = "accepted" /\ Current(c) THEN 1 ELSE 0

\* How far the count of a row may have come: a row that is final is not counted on.
Counted(c) == IF c \in Live THEN attempts[c] ELSE MaxAttempts

\* Before the sender's write the worker's copy of the count is the one in the
\* table; after it neither is more than MaxAttempts behind.
Budget(c) ==
    /\ sender[c] # "returned" =>
        /\ c \in batch => /\ snapshot[c] = attempts[c]
                          /\ sends[c] <= attempts[c] + Uncounted(c) + InFlight(c) + faults
        /\ c \notin batch => sends[c] <= Counted(c) + Uncounted(c) + faults
    /\ sender[c] = "returned" =>
        /\ c \in batch => /\ sends[c] <= MaxAttempts + snapshot[c] + InFlight(c) + faults
                          /\ sends[c] <= MaxAttempts + attempts[c] + InFlight(c) + faults
        /\ c \notin batch => sends[c] <= MaxAttempts + Counted(c) + faults

Created == {c \in Commands : status[c] # "none"}

\* The worker serves one row at a time: no two rows have the same id.
RowsAreOrdered == \A c \in Created :
    /\ rowId[c] <= Cardinality(Created)
    /\ \A d \in Created : rowId[c] = rowId[d] => c = d

BudgetInv ==
    /\ worker = "waiting" => batch = {}
    /\ batch \subseteq Created
    /\ RowsAreOrdered
    /\ \A c \in Commands : sender[c] \in BeforeCreate => sends[c] = 0
    /\ \A c \in Commands : Budget(c)

LEMMA Numbers ==
    ASSUME TypeOK, NEW c \in Commands
    PROVE  /\ sends[c] \in Nat /\ faults \in Nat
           /\ attempts[c] \in Nat /\ attempts[c] <= MaxAttempts
           /\ snapshot[c] \in Nat /\ snapshot[c] + 1 <= MaxAttempts
           /\ MaxAttempts \in Nat /\ MaxAttempts >= 1
           /\ Uncounted(c) \in {0, 1} /\ InFlight(c) \in {0, 1}
           /\ Counted(c) \in Nat /\ Counted(c) <= MaxAttempts /\ attempts[c] <= Counted(c)
BY BoundsAssumption DEF TypeOK, Uncounted, InFlight, Counted

LEMMA CreatedIsFinite == IsFiniteSet(Created) /\ Cardinality(Created) \in Nat
<1>1. Created \in SUBSET Commands
    BY DEF Created
<1> QED BY <1>1, FS_Subset, FS_CardinalityType, CommandsAssumption

LEMMA OneCurrent ==
    ASSUME TypeOK, BudgetInv, NEW c \in batch, Current(c), NEW d \in Commands, Current(d)
    PROVE  c = d
<1>1. c \in Created /\ d \in Created /\ rowId[c] <= rowId[d] /\ rowId[d] <= rowId[c]
    BY DEF BudgetInv, Current
<1>2. rowId[c] \in Nat /\ rowId[d] \in Nat
    BY <1>1 DEF TypeOK, Created
<1> QED BY <1>1, <1>2 DEF BudgetInv, RowsAreOrdered

\* Steps in which no copy is sent or counted: rows may become final and faults
\* may happen.
Settling ==
    /\ UNCHANGED <<attempts, rowId, batch, snapshot, sends>>
    /\ worker' = worker \/ (worker = "next" /\ batch = {} /\ worker' = "waiting")
    /\ faults' \in Nat /\ faults <= faults'
    /\ \A c \in Commands :
        /\ sender'[c] = sender[c] \/ (sender[c] = "idle" /\ sender'[c] = "superseded")
        /\ \/ status'[c] = status[c]
           \/ c \in Live /\ status'[c] \in {"acknowledged", "failed"}

LEMMA SettlingKeeps == ASSUME TypeOK, BudgetInv, Settling PROVE BudgetInv'
<1>1. Created' = Created
    BY DEF Settling, Created, Live, LiveStatuses
<1>2. RowsAreOrdered'
    BY <1>1 DEF BudgetInv, RowsAreOrdered, Settling
<1>3. ASSUME NEW c \in Commands PROVE Budget(c)'
    <2>1. InFlight(c)' = InFlight(c)
        BY DEF Settling, InFlight, Current
    <2>2. Uncounted(c)' = Uncounted(c) /\ (sender'[c] = "returned" <=> sender[c] = "returned")
        BY DEF Settling, Uncounted
    <2>3. Counted(c)' \in Nat /\ Counted(c) <= Counted(c)'
        BY Numbers DEF Settling, Counted, Live, LiveStatuses
    <2>4. Budget(c) /\ UNCHANGED <<attempts, batch, snapshot, sends>> /\ faults' \in Nat /\ faults <= faults'
        BY DEF BudgetInv, Settling
    <2> QED BY <2>1, <2>2, <2>3, <2>4, Numbers DEF Budget
<1>4. \A c \in Commands : sender'[c] \in BeforeCreate => sends'[c] = 0
    BY DEF BudgetInv, Settling, BeforeCreate
<1> QED BY <1>1, <1>2, <1>3, <1>4 DEF BudgetInv, Settling

LEMMA FaultGrows ==
    ASSUME TypeOK, NEW kind, Fault(kind)
    PROVE  faults' \in Nat /\ faults' = faults + 1
BY BoundsAssumption DEF TypeOK, Fault

LEMMA SettlingSteps ==
    ASSUME TypeOK,
           \/ \E c \in Commands : SendSupersede(c) \/ TimeNext(c) \/ AckArrives(c)
           \/ WorkerFinish \/ NetNext \/ PhoneNext \/ UNCHANGED vars
    PROVE  Settling
<1>0. faults \in Nat /\ status \in [Commands -> Statuses] /\ sender \in [Commands -> SenderStates]
    BY BoundsAssumption DEF TypeOK
<1>a. ASSUME UNCHANGED <<attempts, rowId, batch, snapshot, sends, worker, sender, status>>,
             UNCHANGED faults \/ \E kind \in AllFaultKinds : Fault(kind)
      PROVE  Settling
    BY <1>0, <1>a, FaultGrows DEF Settling
<1>1. ASSUME NEW c \in Commands, SendSupersede(c) PROVE Settling
    <2>1. Superseded(c) \subseteq Live
        BY DEF Superseded
    <2> QED BY <1>0, <1>1, <2>1 DEF SendSupersede, Settling, workerVars
<1>2. ASSUME NEW c \in Commands, TimeNext(c) PROVE Settling
    BY <1>2, <1>a DEF TimeNext, RetryDue, TTLPasses, workerVars, AllFaultKinds
<1>3. ASSUME NEW c \in Commands, AckArrives(c) PROVE Settling
    <2>1. faults' \in Nat /\ faults <= faults'
        BY <1>0, <1>3, FaultGrows DEF AckArrives
    <2> QED BY <1>0, <1>3, <2>1 DEF AckArrives, Settling, workerVars
<1>4. CASE WorkerFinish
    <2>1. faults' \in Nat /\ faults <= faults'
        BY <1>0, <1>4, FaultGrows DEF WorkerFinish
    <2> QED BY <1>0, <1>4, <2>1 DEF WorkerFinish, Settling, Exhausted
<1>5. CASE NetNext
    BY <1>5, <1>a DEF NetNext, Connect, Disconnect, LoseCopy, DuplicateCopy, rowVars, workerVars, AllFaultKinds
<1>6. CASE PhoneNext
    <2>1. UNCHANGED <<rowVars, sender, workerVars, sends>>
        BY <1>6 DEF PhoneNext, ReaderNext, PhoneReceive, PhoneLoad, PhoneTest, PhoneDuplicate,
                    PhoneInsert, PhonePut, PhoneAck, PhoneExecute, PhoneFlush,
                    ConfirmArrives, PhoneEvictAck, PhoneCrash
    <2>2. UNCHANGED faults \/ \E kind \in AllFaultKinds : Fault(kind)
        BY <1>6 DEF PhoneNext, ReaderNext, PhoneReceive, PhoneLoad, PhoneTest, PhoneDuplicate,
                    PhoneInsert, PhonePut, PhoneAck, PhoneExecute, PhoneFlush,
                    ConfirmArrives, PhoneEvictAck, PhoneCrash, AllFaultKinds
    <2> QED BY <2>1, <2>2, <1>a DEF rowVars, workerVars
<1>7. CASE UNCHANGED vars
    BY <1>7, <1>a DEF vars, rowVars, workerVars
<1> QED BY <1>1, <1>2, <1>3, <1>4, <1>5, <1>6, <1>7

LEMMA CreateKeeps ==
    ASSUME TypeOK, NoRowBeforeCreate, BudgetInv, NEW c \in Commands, SendCreate(c)
    PROVE  BudgetInv'
<1>1. /\ sender[c] = "superseded" /\ status[c] = "none" /\ sends[c] = 0 /\ c \notin Created /\ c \notin batch
      /\ sender'[c] = "created" /\ status'[c] = "queued"
      /\ \A d \in Commands : d # c => sender'[d] = sender[d] /\ status'[d] = status[d] /\ rowId'[d] = rowId[d]
      /\ rowId'[c] = 1 + Cardinality(Created)
      /\ UNCHANGED <<attempts, worker, batch, snapshot, sends, faults>>
    BY DEF SendCreate, NoRowBeforeCreate, BudgetInv, BeforeCreate, Created, TypeOK, workerVars
<1>2. Created' = Created \cup {c}
    BY <1>1 DEF Created
<1>3. Cardinality(Created') = 1 + Cardinality(Created) /\ Cardinality(Created) \in Nat
    <2>1. Cardinality(Created \cup {c}) = Cardinality(Created) + 1
        BY <1>1, FS_AddElement, CreatedIsFinite
    <2> QED BY <1>2, <2>1, CreatedIsFinite
<1>4. RowsAreOrdered'
    <2>1. \A d \in Created : d # c /\ rowId'[d] = rowId[d] /\ rowId[d] <= Cardinality(Created) /\ rowId[d] \in Nat
        BY <1>1 DEF BudgetInv, RowsAreOrdered, Created, TypeOK
    <2>2. \A d, e \in Created : rowId[d] = rowId[e] => d = e
        BY DEF BudgetInv, RowsAreOrdered
    <2> QED BY <1>1, <1>2, <1>3, <2>1, <2>2 DEF RowsAreOrdered
<1>5. ASSUME NEW d \in Commands PROVE Budget(d)'
    <2>1. CASE d = c
        BY <1>1, <2>1, Numbers DEF Budget, Counted, Uncounted, Live, LiveStatuses
    <2>2. CASE d # c
        <3>1. InFlight(d)' = InFlight(d)
            <4>1. c \notin batch /\ \A e \in batch : e \in Commands
                BY <1>1 DEF TypeOK
            <4>2. \A e \in batch : rowId'[e] = rowId[e]
                BY <1>1, <4>1
            <4> QED BY <1>1, <2>2, <4>2 DEF InFlight, Current
        <3>2. Counted(d)' = Counted(d) /\ Uncounted(d)' = Uncounted(d)
            BY <1>1, <2>2 DEF Counted, Uncounted, Live
        <3>3. Budget(d)
            BY DEF BudgetInv
        <3> QED BY <1>1, <2>2, <3>1, <3>2, <3>3 DEF Budget
    <2> QED BY <2>1, <2>2
<1>6. \A d \in Commands : sender'[d] \in BeforeCreate => sends'[d] = 0
    BY <1>1 DEF BudgetInv, BeforeCreate
<1> QED BY <1>1, <1>2, <1>4, <1>5, <1>6 DEF BudgetInv

LEMMA SenderKeeps ==
    ASSUME TypeOK, BudgetInv, NEW c \in Commands,
           SendAttempt(c) \/ SendRecord(c) \/ SendDbError(c)
    PROVE  BudgetInv'
<1>1. /\ \A d \in Commands : d # c => /\ sender'[d] = sender[d] /\ status'[d] = status[d]
                                      /\ attempts'[d] = attempts[d] /\ sends'[d] = sends[d]
      /\ UNCHANGED <<rowId, worker, batch, snapshot>>
      /\ sender'[c] \notin BeforeCreate
      /\ (status'[c] = "none") <=> (status[c] = "none")
    BY DEF SendAttempt, SendRecord, SendDbError, RecordAttempt, Transmit, Refuse, TypeOK, BeforeCreate,
           rowVars, workerVars, Live, LiveStatuses
<1>2. faults' \in Nat /\ faults <= faults'
    BY FaultGrows, Numbers DEF SendAttempt, SendRecord, SendDbError
<1>3. Created' = Created
    BY <1>1 DEF Created
<1>4. RowsAreOrdered'
    BY <1>1, <1>3 DEF BudgetInv, RowsAreOrdered
<1>5. ASSUME NEW d \in Commands PROVE Budget(d)'
    <2>0. InFlight(d)' = InFlight(d) /\ Budget(d)
        BY <1>1 DEF InFlight, Current, BudgetInv
    <2>1. CASE d # c
        <3>1. Counted(d)' = Counted(d) /\ Uncounted(d)' = Uncounted(d)
            BY <1>1, <2>1 DEF Counted, Uncounted, Live
        <3> QED BY <1>1, <1>2, <2>0, <2>1, <3>1, Numbers DEF Budget
    <2>2. CASE d = c /\ SendAttempt(c)
        <3>1. /\ sender[c] = "created" /\ UNCHANGED <<attempts, batch, snapshot, faults, status>>
              /\ \/ sender'[c] = "accepted" /\ sends'[c] = sends[c] + 1
                 \/ sender'[c] = "refused" /\ sends'[c] = sends[c]
            BY <2>2 DEF SendAttempt, Transmit, Refuse, TypeOK, rowVars, workerVars
        <3>2. Counted(c)' = Counted(c)
            BY <3>1 DEF Counted, Live
        <3>3. sends'[c] - sends[c] = Uncounted(c)' - Uncounted(c) /\ Uncounted(c)' \in {0, 1}
            BY <3>1, Numbers DEF Uncounted
        <3> QED BY <2>0, <2>2, <3>1, <3>2, <3>3, Numbers DEF Budget
    <2>3. CASE d = c /\ SendRecord(c)
        <3>1. /\ sender[c] # "returned" /\ sender'[c] = "returned"
              /\ UNCHANGED <<batch, snapshot, faults, sends>>
              /\ \/ c \in Live /\ attempts'[c] = 1
                 \/ c \notin Live /\ attempts'[c] = attempts[c] /\ status'[c] = status[c]
            BY <2>3 DEF SendRecord, RecordAttempt, TypeOK, workerVars
        <3>2. c \in Live => Counted(c) = attempts[c]
            BY DEF Counted
        <3>3. Counted(c)' \in Nat /\ Counted(c)' >= 1
            BY <2>3, <3>1, Numbers DEF Counted, Live
        <3>4. Uncounted(c) <= MaxAttempts
            BY Numbers
        <3>5. CASE c \in batch
            BY <2>0, <2>3, <3>1, <3>5, Numbers DEF Budget
        <3>6. CASE c \notin batch
            <4>1. sends[c] <= Counted(c) + Uncounted(c) + faults
                BY <2>0, <2>3, <3>1, <3>6 DEF Budget
            <4>2. sends[c] <= MaxAttempts + 1 + faults
                BY <4>1, Numbers
            <4>3. sends'[c] <= MaxAttempts + Counted(c)' + faults'
                BY <3>1, <3>3, <4>2, Numbers
            <4> QED BY <2>3, <3>1, <3>6, <4>3 DEF Budget
        <3> QED BY <3>5, <3>6
    <2>4. CASE d = c /\ SendDbError(c)
        <3>1. /\ sender[c] # "returned" /\ sender'[c] = "returned" /\ faults' = faults + 1
              /\ UNCHANGED <<attempts, batch, snapshot, sends, status>>
            BY <2>4, FaultGrows DEF SendDbError, TypeOK, rowVars, workerVars
        <3>2. Counted(c)' = Counted(c)
            BY <3>1 DEF Counted, Live
        <3> QED BY <2>0, <2>4, <3>1, <3>2, Numbers DEF Budget
    <2> QED BY <2>1, <2>2, <2>3, <2>4
<1>6. \A d \in Commands : sender'[d] \in BeforeCreate => sends'[d] = 0
    BY <1>1 DEF BudgetInv
<1> QED BY <1>1, <1>3, <1>4, <1>5, <1>6 DEF BudgetInv

LEMMA ScanKeeps == ASSUME TypeOK, BudgetInv, TickScan \/ WakeScan PROVE BudgetInv'
<1>1. /\ batch' \subseteq Live /\ worker' = "next" /\ batch = {}
      /\ \A c \in batch' : snapshot'[c] = attempts[c]
      /\ UNCHANGED <<status, attempts, rowId, sender, sends, faults>>
    BY DEF TickScan, WakeScan, BeginScan, FirstRows, Retryable, rowVars, BudgetInv, Live
<1>2. Created' = Created /\ Live \subseteq Created
    BY <1>1 DEF Created, Live, LiveStatuses
<1>3. ASSUME NEW c \in Commands PROVE Budget(c)'
    <2>1. Uncounted(c)' = Uncounted(c) /\ Counted(c)' = Counted(c) /\ InFlight(c)' = 0
        BY <1>1 DEF Uncounted, Counted, Live, InFlight
    <2>2. Budget(c) /\ c \notin batch
        BY <1>1 DEF BudgetInv
    <2>3. c \in batch' => Counted(c) = attempts[c]
        BY <1>1 DEF Counted
    <2> QED BY <1>1, <2>1, <2>2, <2>3, Numbers DEF Budget
<1> QED BY <1>1, <1>2, <1>3 DEF BudgetInv, RowsAreOrdered

LEMMA WorkerAttemptKeeps ==
    ASSUME TypeOK, NoRowBeforeCreate, BudgetInv, WorkerAttempt
    PROVE  BudgetInv'
<1>1. PICK c \in batch :
        /\ Current(c)
        /\ \/ Transmit(c) /\ worker' = "accepted"
           \/ Refuse /\ worker' = "refused"
    BY DEF WorkerAttempt
<1>2. worker = "next" /\ UNCHANGED <<status, attempts, rowId, sender, batch, snapshot, faults>> /\ c \in Commands
    BY DEF WorkerAttempt, rowVars, TypeOK
<1>3. /\ \/ worker' = "accepted" /\ sends'[c] = sends[c] + 1
         \/ worker' = "refused" /\ sends'[c] = sends[c]
      /\ \A d \in Commands : d # c => sends'[d] = sends[d]
    BY <1>1, <1>2 DEF Transmit, Refuse, TypeOK
<1>4. ASSUME NEW d \in Commands PROVE Budget(d)'
    <2>1. Uncounted(d)' = Uncounted(d) /\ Counted(d)' = Counted(d) /\ Budget(d)
        BY <1>2 DEF Uncounted, Counted, Live, BudgetInv
    <2>2. InFlight(d) = 0
        BY <1>2 DEF InFlight
    <2>3. Current(d)' <=> Current(d)
        BY <1>2 DEF Current
    <2>4. sends'[d] = sends[d] + InFlight(d)' /\ InFlight(d)' \in {0, 1}
        <3>1. CASE d = c
            BY <1>1, <1>3, <2>3, <3>1, Numbers DEF InFlight
        <3>2. CASE d # c
            <4>1. ~Current(d)
                BY <1>1, <3>2, OneCurrent
            <4> QED BY <1>3, <2>3, <3>2, <4>1, Numbers DEF InFlight
        <3> QED BY <3>1, <3>2
    <2>5. InFlight(d)' = 1 => d \in batch
        BY <2>3 DEF InFlight, Current
    <2> QED BY <1>2, <2>1, <2>2, <2>4, <2>5, Numbers DEF Budget
<1>5. \A d \in Commands : sender'[d] \in BeforeCreate => sends'[d] = 0
    <2>1. sender[c] \notin BeforeCreate
        BY <1>2 DEF NoRowBeforeCreate, BeforeCreate, BudgetInv, Created
    <2> QED BY <1>2, <1>3, <2>1 DEF BudgetInv
<1> QED BY <1>2, <1>3, <1>4, <1>5 DEF BudgetInv, RowsAreOrdered, Created

LEMMA WorkerRecordKeeps == ASSUME TypeOK, BudgetInv, WorkerRecord PROVE BudgetInv'
<1>1. PICK c \in batch :
        /\ Current(c)
        /\ \/ /\ \/ worker = "accepted" /\ RecordAttempt(c, snapshot[c], "sent")
                 \/ worker = "refused" /\ RecordAttempt(c, snapshot[c], "queued")
              /\ UNCHANGED faults
           \/ /\ worker \in {"accepted", "refused"}
              /\ Fault("db") /\ UNCHANGED <<status, attempts, due>>
        /\ batch' = batch \ {c}
        /\ snapshot' = [snapshot EXCEPT ![c] = 0]
    BY DEF WorkerRecord
<1>2. /\ worker' = "next" /\ UNCHANGED <<rowId, sender, sends>> /\ c \in Commands
      /\ \A d \in Commands : d # c => snapshot'[d] = snapshot[d]
    BY <1>1 DEF WorkerRecord, TypeOK
<1> DEFINE Recorded ==
        /\ \A d \in Commands : d # c => status'[d] = status[d] /\ attempts'[d] = attempts[d]
        /\ (status'[c] = "none") <=> (status[c] = "none")
        /\ (c \in Live) <=> (status'[c] \in LiveStatuses)
        /\ \/ faults' = faults /\ (IF c \in Live THEN attempts'[c] = snapshot[c] + 1 ELSE attempts'[c] = attempts[c])
           \/ faults' = faults + 1 /\ attempts'[c] = attempts[c]
<1>3. Recorded
    <2>1. ASSUME NEW new \in LiveStatuses, RecordAttempt(c, snapshot[c], new), UNCHANGED faults PROVE Recorded
        BY <1>2, <2>1 DEF RecordAttempt, TypeOK, Live, LiveStatuses
    <2>2. ASSUME Fault("db"), UNCHANGED <<status, attempts>> PROVE Recorded
        BY <1>2, <2>2, FaultGrows DEF Live
    <2> QED BY <1>1, <2>1, <2>2 DEF LiveStatuses
<1>4. Created' = Created
    BY <1>2, <1>3 DEF Created
<1>5. ASSUME NEW d \in Commands PROVE Budget(d)'
    <2>1. Uncounted(d)' = Uncounted(d) /\ InFlight(d)' = 0 /\ Budget(d)
        BY <1>2 DEF Uncounted, InFlight, BudgetInv
    <2>2. CASE d # c
        <3>1. InFlight(d) = 0
            <4>1. ~Current(d)
                BY <1>1, <2>2, OneCurrent
            <4> QED BY <4>1 DEF InFlight
        <3>2. Counted(d)' = Counted(d)
            BY <1>3, <2>2 DEF Counted, Live
        <3>3. faults' \in Nat /\ faults <= faults'
            BY <1>3, Numbers
        <3> QED BY <1>1, <1>2, <1>3, <2>1, <2>2, <3>1, <3>2, <3>3, Numbers DEF Budget
    <2>3. CASE d = c
        <3>1. InFlight(c) \in {0, 1} /\ c \in batch /\ c \notin batch'
            BY <1>1, <1>2, Numbers
        <3>2. Counted(c)' = (IF c \in Live THEN attempts'[c] ELSE MaxAttempts)
            BY <1>3 DEF Counted, Live
        <3>3. CASE sender[c] # "returned"
            <4>1. snapshot[c] = attempts[c] /\ sends[c] <= attempts[c] + Uncounted(c) + InFlight(c) + faults
                BY <2>1, <2>3, <3>1, <3>3 DEF Budget
            <4>2. sends'[c] <= Counted(c)' + Uncounted(c)' + faults'
                BY <1>2, <1>3, <2>1, <2>3, <3>1, <3>2, <4>1, Numbers
            <4> QED BY <1>2, <2>3, <3>1, <3>3, <4>2 DEF Budget
        <3>4. CASE sender[c] = "returned"
            <4>1. /\ sends[c] <= MaxAttempts + snapshot[c] + InFlight(c) + faults
                  /\ sends[c] <= MaxAttempts + attempts[c] + InFlight(c) + faults
                BY <2>1, <2>3, <3>1, <3>4 DEF Budget
            <4>2. sends'[c] <= MaxAttempts + Counted(c)' + faults'
                BY <1>2, <1>3, <3>1, <3>2, <4>1, Numbers
            <4> QED BY <1>2, <2>3, <3>1, <3>4, <4>2 DEF Budget
        <3> QED BY <3>3, <3>4
    <2> QED BY <2>2, <2>3
<1>6. RowsAreOrdered'
    BY <1>2, <1>4 DEF BudgetInv, RowsAreOrdered
<1> QED BY <1>1, <1>2, <1>4, <1>5, <1>6 DEF BudgetInv

LEMMA CrashKeeps == ASSUME TypeOK, BudgetInv, ServerCrash PROVE BudgetInv'
<1>1. /\ batch' = {} /\ worker' = "waiting" /\ faults' = faults + 1
      /\ \A c \in Commands : sender'[c] = (IF sender[c] = "idle" THEN "idle" ELSE "returned")
      /\ UNCHANGED <<status, attempts, rowId, sends>>
    BY FaultGrows DEF ServerCrash, rowVars
<1>2. ASSUME NEW c \in Commands PROVE Budget(c)'
    <2>1. Counted(c)' = Counted(c) /\ Budget(c) /\ InFlight(c) \in {0, 1} /\ Uncounted(c) \in {0, 1}
        BY <1>1, Numbers DEF Counted, Live, BudgetInv
    <2>2. CASE sender[c] = "idle"
        <3>1. sends[c] = 0 /\ sender'[c] = "idle" /\ sender[c] # "returned"
            BY <1>1, <2>2 DEF BudgetInv, BeforeCreate
        <3>2. Uncounted(c)' = 0
            BY <3>1 DEF Uncounted
        <3> QED BY <1>1, <2>1, <3>1, <3>2, Numbers DEF Budget
    <2>3. CASE sender[c] # "idle"
        <3>1. sender'[c] = "returned"
            BY <1>1, <2>3
        <3>2. sends[c] <= MaxAttempts + Counted(c) + faults + 1
            <4>1. CASE sender[c] = "returned"
                BY <2>1, <4>1, Numbers DEF Budget
            <4>2. CASE sender[c] # "returned"
                BY <2>1, <4>2, Numbers DEF Budget
            <4> QED BY <4>1, <4>2
        <3> QED BY <1>1, <2>1, <3>1, <3>2, Numbers DEF Budget
    <2> QED BY <2>2, <2>3
<1>3. \A c \in Commands : sender'[c] \in BeforeCreate => sends'[c] = 0
    BY <1>1 DEF BudgetInv, BeforeCreate
<1> QED BY <1>1, <1>2, <1>3 DEF BudgetInv, RowsAreOrdered, Created

LEMMA BudgetInit == Init => BudgetInv
<1> SUFFICES ASSUME Init PROVE BudgetInv
    OBVIOUS
<1>1. TypeOK /\ Created = {} /\ batch = {} /\ faults = 0
    BY TypeInit DEF Init, Created
<1>2. \A c \in Commands : sends[c] = 0 /\ sender[c] = "idle"
    BY DEF Init
<1>3. ASSUME NEW c \in Commands PROVE Budget(c)
    BY <1>1, <1>2, Numbers DEF Budget
<1> QED BY <1>1, <1>2, <1>3 DEF BudgetInv, RowsAreOrdered

LEMMA BudgetStep == DeliveryInv /\ BudgetInv /\ [Next]_vars => BudgetInv'
<1> SUFFICES ASSUME DeliveryInv, BudgetInv, [Next]_vars PROVE BudgetInv'
    OBVIOUS
<1>1. TypeOK /\ NoRowBeforeCreate
    BY DEF DeliveryInv
<1>2. ASSUME NEW c \in Commands, SendCreate(c) PROVE BudgetInv'
    BY <1>1, <1>2, CreateKeeps
<1>3. ASSUME NEW c \in Commands, SendAttempt(c) \/ SendRecord(c) \/ SendDbError(c) PROVE BudgetInv'
    BY <1>1, <1>3, SenderKeeps
<1>4. CASE TickScan \/ WakeScan
    BY <1>1, <1>4, ScanKeeps
<1>5. CASE WorkerAttempt \/ WorkerRecord \/ ServerCrash
    BY <1>1, <1>5, WorkerAttemptKeeps, WorkerRecordKeeps, CrashKeeps
<1>6. ASSUME \/ \E c \in Commands : SendSupersede(c) \/ TimeNext(c) \/ AckArrives(c)
             \/ WorkerFinish \/ NetNext \/ PhoneNext \/ UNCHANGED vars
      PROVE  BudgetInv'
    BY <1>1, <1>6, SettlingSteps, SettlingKeeps
<1> QED BY <1>2, <1>3, <1>4, <1>5, <1>6, Zenon DEF Next, SenderNext, WorkerNext

\* However the sender and the worker write over each other's counts from stale
\* copies of a row, a command is handed to the hub at most twice as often as it may
\* be attempted, and once more for each crash or failed write. (delivery.go:172-188)
THEOREM SendsAreBounded == Spec => []SendsBounded
<1>1. DeliveryInv /\ BudgetInv => SendsBounded
    <2> SUFFICES ASSUME DeliveryInv, BudgetInv, NEW c \in Commands
                 PROVE  sends[c] <= 2 * MaxAttempts + faults
        BY DEF SendsBounded
    <2>1. Budget(c) /\ TypeOK
        BY DEF DeliveryInv, BudgetInv
    <2>2. c \in batch \/ InFlight(c) = 0
        BY DEF InFlight, Current
    <2>3. CASE sender[c] = "returned"
        BY <2>1, <2>2, <2>3, Numbers DEF Budget
    <2>4. CASE sender[c] # "returned"
        BY <2>1, <2>2, <2>4, Numbers DEF Budget
    <2> QED BY <2>3, <2>4
<1> QED BY <1>1, BudgetInit, BudgetStep, DeliveryInvariance, PTL DEF Spec

-----------------------------------------------------------------------------
(* One run of a task at a time, unless sends crossed.                       *)

\* Between forgetting the other runs' rows and creating its own, a sender meets a new
\* row of another run only if the two sends crossed.
OthersAreCrossed == \A c \in Commands :
    sender[c] = "superseded" =>
        /\ \A d \in Commands : sender[d] = "superseded" => c = d \/ {c, d} \in crossed
        /\ \A d \in Superseded(c) : {c, d} \in crossed

LEMMA OnlySupersedeEnters ==
    ASSUME TypeOK, [Next]_vars, NEW c \in Commands, sender'[c] = "superseded", sender[c] # "superseded"
    PROVE  SendSupersede(c)
<1>0. sender \in [Commands -> SenderStates]
    BY DEF TypeOK
<1>1. ASSUME NEW d \in Commands, SendSupersede(d) PROVE SendSupersede(c)
    <2>1. c = d
        BY <1>0, <1>1 DEF SendSupersede
    <2> QED BY <1>1, <2>1
<1>2. ASSUME NEW d \in Commands, SendCreate(d) \/ SendAttempt(d) \/ SendRecord(d) \/ SendDbError(d) PROVE FALSE
    BY <1>0, <1>2 DEF SendCreate, SendAttempt, SendRecord, SendDbError
<1>3. CASE ServerCrash
    BY <1>0, <1>3 DEF ServerCrash
<1>4. CASE WorkerNext
    BY <1>4 DEF WorkerNext, TickScan, WakeScan, WorkerAttempt, WorkerRecord, WorkerFinish
<1>5. ASSUME NEW d \in Commands, TimeNext(d) \/ AckArrives(d) PROVE FALSE
    BY <1>5 DEF TimeNext, RetryDue, TTLPasses, AckArrives
<1>6. CASE NetNext
    BY <1>6 DEF NetNext, Connect, Disconnect, LoseCopy, DuplicateCopy
<1>7. CASE PhoneNext
    BY <1>7 DEF PhoneNext, ReaderNext, PhoneReceive, PhoneLoad, PhoneTest, PhoneDuplicate,
                PhoneInsert, PhonePut, PhoneAck, PhoneExecute, PhoneFlush,
                ConfirmArrives, PhoneEvictAck, PhoneCrash
<1>8. CASE UNCHANGED vars
    BY <1>8 DEF vars
<1> QED BY <1>1, <1>2, <1>3, <1>4, <1>5, <1>6, <1>7, <1>8 DEF Next, SenderNext

LEMMA CrossedGrows == ASSUME [Next]_vars PROVE crossed \subseteq crossed'
<1>1. ASSUME NEW c \in Commands, SenderNext(c) PROVE crossed \subseteq crossed'
    BY <1>1 DEF SenderNext, SendSupersede, SendCreate, SendAttempt, SendRecord, SendDbError
<1>2. CASE WorkerNext
    BY <1>2 DEF WorkerNext, TickScan, WakeScan, WorkerAttempt, WorkerRecord, WorkerFinish
<1>3. ASSUME NEW c \in Commands, TimeNext(c) \/ AckArrives(c) PROVE crossed \subseteq crossed'
    BY <1>3 DEF TimeNext, RetryDue, TTLPasses, AckArrives
<1>4. CASE NetNext \/ ServerCrash
    BY <1>4 DEF NetNext, Connect, Disconnect, LoseCopy, DuplicateCopy, ServerCrash
<1>5. CASE PhoneNext
    BY <1>5 DEF PhoneNext, ReaderNext, PhoneReceive, PhoneLoad, PhoneTest, PhoneDuplicate, PhoneInsert,
                PhonePut, PhoneAck, PhoneExecute, PhoneFlush, ConfirmArrives, PhoneEvictAck, PhoneCrash
<1>6. CASE UNCHANGED vars
    BY <1>6 DEF vars
<1> QED BY <1>1, <1>2, <1>3, <1>4, <1>5, <1>6 DEF Next

LEMMA CrossedStep ==
    ASSUME DeliveryInv, OthersAreCrossed, SingleLiveRun, [Next]_vars
    PROVE  OthersAreCrossed' /\ SingleLiveRun'
<1>1. TypeOK /\ NoRowBeforeCreate /\ crossed \subseteq crossed'
    BY CrossedGrows DEF DeliveryInv
<1>2. \A d \in Commands : RowChange(d)
    BY <1>1, RowChanges
<1>3. \A d \in Live' : d \in Commands /\ (d \in Live \/ sender[d] = "superseded")
    BY <1>2 DEF Live, RowChange
<1>4. ASSUME NEW c \in Commands, SendSupersede(c)
      PROVE  /\ \A d \in Commands : sender[d] = "superseded" => {c, d} \in crossed'
             /\ \A d \in Superseded(c) : d \notin Live'
             /\ Live' \subseteq Live
    <2>1. /\ \A d \in Superseded(c) : status'[d] = "failed"
          /\ \A d \in Commands : status'[d] = status[d] \/ status'[d] = "failed"
        BY <1>1, <1>4 DEF SendSupersede, Superseded, Live
    <2>2. \A d \in Commands : sender[d] = "superseded" => {c, d} \in crossed'
        BY <1>4 DEF SendSupersede
    <2> QED BY <2>1, <2>2 DEF Live, LiveStatuses
<1>5. ASSUME NEW c \in Commands, sender'[c] = "superseded",
             NEW d \in Commands, sender'[d] = "superseded", c # d
      PROVE  {c, d} \in crossed'
    <2>1. CASE sender[c] = "superseded" /\ sender[d] = "superseded"
        BY <1>1, <1>5, <2>1 DEF OthersAreCrossed
    <2>2. CASE sender[c] # "superseded"
        <3>1. SendSupersede(c)
            BY <1>1, <1>5, <2>2, OnlySupersedeEnters
        <3>2. sender[d] = "superseded"
            BY <1>1, <1>5, <3>1 DEF SendSupersede, TypeOK
        <3> QED BY <1>4, <3>1, <3>2
    <2>3. CASE sender[d] # "superseded"
        <3>1. SendSupersede(d)
            BY <1>1, <1>5, <2>3, OnlySupersedeEnters
        <3>2. sender[c] = "superseded"
            BY <1>1, <1>5, <3>1 DEF SendSupersede, TypeOK
        <3>3. {d, c} \in crossed' /\ {d, c} = {c, d}
            BY <1>4, <3>1, <3>2
        <3> QED BY <3>3
    <2> QED BY <2>1, <2>2, <2>3
<1>6. ASSUME NEW c \in Commands, sender'[c] = "superseded", NEW d \in Superseded(c)'
      PROVE  {c, d} \in crossed'
    <2>1. /\ d \in Live' /\ d \in Commands /\ TaskOf[c] # NoTask /\ RunOf[c] # NoRun
          /\ TaskOf[d] = TaskOf[c] /\ RunOf[d] # RunOf[c]
        BY <1>3 DEF Superseded
    <2>2. d \in Live => d \in Superseded(c)
        BY <2>1 DEF Superseded
    <2>3. CASE sender[c] = "superseded"
        <3>1. d # c
            BY <2>1
        <3> QED BY <1>1, <1>3, <2>1, <2>2, <2>3, <3>1 DEF OthersAreCrossed
    <2>4. CASE sender[c] # "superseded"
        <3>1. SendSupersede(c)
            BY <1>1, <1>6, <2>4, OnlySupersedeEnters
        <3> QED BY <1>4, <2>1, <2>2, <3>1
    <2> QED BY <2>3, <2>4
<1>7. OthersAreCrossed'
    BY <1>5, <1>6 DEF OthersAreCrossed
<1>8. ASSUME NEW c \in Live', NEW d \in Live', TaskOf[c] = TaskOf[d], TaskOf[c] # NoTask,
             RunOf[c] # NoRun, RunOf[d] # NoRun, RunOf[c] # RunOf[d]
      PROVE  {c, d} \in crossed'
    <2>1. c \in Commands /\ d \in Commands /\ c # d
        BY <1>3, <1>8
    <2>2. CASE c \in Live /\ d \in Live
        BY <1>1, <1>8, <2>2 DEF SingleLiveRun
    <2>3. CASE sender[c] = "superseded"
        <3>1. d \in Live => d \in Superseded(c)
            BY <1>8, <2>1 DEF Superseded
        <3> QED BY <1>1, <1>3, <2>1, <2>3, <3>1 DEF OthersAreCrossed
    <2>4. CASE sender[d] = "superseded"
        <3>1. c \in Live => c \in Superseded(d)
            BY <1>8, <2>1 DEF Superseded
        <3>2. {d, c} \in crossed
            BY <1>3, <2>1, <2>4, <3>1 DEF OthersAreCrossed
        <3>3. {d, c} = {c, d}
            OBVIOUS
        <3> QED BY <1>1, <3>2, <3>3
    <2> QED BY <1>3, <2>2, <2>3, <2>4
<1>9. SingleLiveRun'
    BY <1>8 DEF SingleLiveRun
<1> QED BY <1>7, <1>9

\* delivery.go:127, README.md:23: two runs of a task have live rows together only if
\* their sends had both superseded before either had created its row, however many
\* sends overlap and whatever the worker, late acks and crashes do.
THEOREM OneLiveRun == Spec => []SingleLiveRun
<1>1. Init => OthersAreCrossed /\ SingleLiveRun
    BY DEF Init, OthersAreCrossed, SingleLiveRun, Live, LiveStatuses
<1>2. DeliveryInv /\ (OthersAreCrossed /\ SingleLiveRun) /\ [Next]_vars
        => (OthersAreCrossed /\ SingleLiveRun)'
    BY CrossedStep
<1> QED BY <1>1, <1>2, DeliveryInvariance, PTL DEF Spec
=============================================================================
