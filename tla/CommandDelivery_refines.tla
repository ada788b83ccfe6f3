----------------------- MODULE CommandDelivery_refines -----------------------
(***************************************************************************)
(* CommandDelivery implements DeliveryContract, for every set of commands, *)
(* every bound and every fault, as long as the phone's list has room for   *)
(* the commands.                                                           *)
(***************************************************************************)
EXTENDS CommandDelivery_proofs

\* Whoever holds or carries a command got it from the table.
InUse(c) ==
    \/ sender[c] \in {"created", "accepted", "refused"}
    \/ c \in batch
    \/ downlink[c] > 0
    \/ \E r \in Readers : handling[r] = c

CopiesHaveRows == \A c \in Commands : InUse(c) => status[c] # "none"

RunsWereClaimed == \A c \in Commands : execs[c] > 0 => c \in Claimed

LEMMA CopiesStep ==
    ASSUME TypeOK, CopiesHaveRows, [Next]_vars
    PROVE  CopiesHaveRows'
<1> SUFFICES ASSUME NEW c \in Commands, InUse(c)'
             PROVE  status'[c] # "none"
    BY DEF CopiesHaveRows
<1>0. /\ status \in [Commands -> Statuses] /\ sender \in [Commands -> SenderStates]
      /\ downlink \in [Commands -> Nat] /\ batch \subseteq Commands
    BY DEF TypeOK
<1>a. status'[c] = "none" => status[c] = "none"
    BY RowChanges DEF RowChange
<1>b. ASSUME InUse(c) PROVE status'[c] # "none"
    BY <1>a, <1>b DEF CopiesHaveRows
<1>c. ASSUME \/ sender'[c] \in {"idle", "superseded", "returned"}
             \/ sender'[c] = sender[c] \/ sender[c] \in {"created", "accepted", "refused"},
             batch' \subseteq batch, downlink'[c] > 0 => downlink[c] > 0,
             \A r \in Readers : handling'[r] = c => handling[r] = c
      PROVE  status'[c] # "none"
    BY <1>b, <1>c DEF InUse
<1>1. ASSUME NEW d \in Commands, SenderNext(d) PROVE status'[c] # "none"
    <2>1. CASE SendSupersede(d)
        BY <1>0, <1>c, <2>1 DEF SendSupersede, workerVars, netVars, phoneVars
    <2>2. CASE SendCreate(d)
        <3>1. CASE c = d
            BY <1>0, <2>2, <3>1 DEF SendCreate
        <3>2. CASE c # d
            BY <1>0, <1>c, <2>2, <3>2 DEF SendCreate, workerVars, netVars, phoneVars
        <3> QED BY <3>1, <3>2
    <2>3. CASE SendAttempt(d)
        <3>1. CASE c = d
            BY <1>b, <2>3, <3>1 DEF SendAttempt, InUse
        <3>2. CASE c # d
            BY <1>0, <1>c, <2>3, <3>2 DEF SendAttempt, Transmit, Refuse, workerVars, phoneVars
        <3> QED BY <3>1, <3>2
    <2>4. CASE SendRecord(d)
        BY <1>0, <1>c, <2>4 DEF SendRecord, workerVars, netVars, phoneVars
    <2>5. CASE SendDbError(d)
        BY <1>0, <1>c, <2>5 DEF SendDbError, workerVars, netVars, phoneVars
    <2> QED BY <1>1, <2>1, <2>2, <2>3, <2>4, <2>5 DEF SenderNext
<1>2. CASE WorkerNext
    <2>1. CASE TickScan \/ WakeScan
        <3>1. batch' \subseteq Live /\ UNCHANGED <<sender, downlink, handling>>
            BY <2>1 DEF TickScan, WakeScan, BeginScan, FirstRows, Retryable, netVars, phoneVars
        <3>2. CASE c \in batch'
            BY <1>a, <3>1, <3>2 DEF Live, LiveStatuses
        <3>3. CASE c \notin batch'
            BY <1>b, <3>1, <3>3 DEF InUse
        <3> QED BY <3>2, <3>3
    <2>2. CASE WorkerAttempt
        <3>1. CASE c \in batch
            BY <1>b, <3>1 DEF InUse
        <3>2. CASE c \notin batch
            BY <1>0, <1>c, <2>2, <3>2 DEF WorkerAttempt, Transmit, Refuse, phoneVars
        <3> QED BY <3>1, <3>2
    <2>3. CASE WorkerRecord
        BY <1>c, <2>3 DEF WorkerRecord, netVars, phoneVars
    <2>4. CASE WorkerFinish
        BY <1>c, <2>4 DEF WorkerFinish, netVars, phoneVars
    <2> QED BY <1>2, <2>1, <2>2, <2>3, <2>4 DEF WorkerNext
<1>3. ASSUME NEW d \in Commands, TimeNext(d) \/ AckArrives(d) PROVE status'[c] # "none"
    BY <1>c, <1>3 DEF TimeNext, RetryDue, TTLPasses, AckArrives, workerVars, netVars, phoneVars
<1>4. CASE NetNext
    <2>1. CASE Connect
        BY <1>c, <2>1 DEF Connect, workerVars, phoneVars
    <2>3. CASE Disconnect
        <3>1. downlink'[c] = 0
            BY <2>3 DEF Disconnect
        <3> QED BY <1>c, <2>3, <3>1 DEF Disconnect, workerVars, phoneVars
    <2>2. ASSUME NEW d \in Commands, LoseCopy(d) \/ DuplicateCopy(d) PROVE status'[c] # "none"
        BY <1>0, <1>c, <2>2 DEF LoseCopy, DuplicateCopy, workerVars, phoneVars
    <2> QED BY <1>4, <2>1, <2>2, <2>3 DEF NetNext
<1>5. CASE ServerCrash
    BY <1>0, <1>c, <1>5 DEF ServerCrash, phoneVars
<1>6. CASE PhoneNext
    <2>0. handling \in [Readers -> Commands \cup {NoCommand}] /\ c # NoCommand
        BY CommandsAssumption DEF TypeOK
    <2>1. UNCHANGED <<sender, batch>>
        BY <1>6 DEF PhoneNext, ReaderNext, PhoneReceive, PhoneLoad, PhoneTest, PhoneDuplicate,
                    PhoneInsert, PhonePut, PhoneAck, PhoneExecute, PhoneFlush,
                    ConfirmArrives, PhoneEvictAck, PhoneCrash, workerVars
    <2>2. ASSUME NEW r \in Readers, NEW d \in Commands, PhoneReceive(r, d) PROVE status'[c] # "none"
        <3>1. CASE c = d
            BY <1>b, <2>2, <3>1 DEF PhoneReceive, InUse
        <3>2. CASE c # d
            BY <1>0, <1>c, <2>0, <2>1, <2>2, <3>2 DEF PhoneReceive
        <3> QED BY <3>1, <3>2
    <2>3. ASSUME NEW r \in Readers, PhoneDuplicate(r) \/ PhoneExecute(r) PROVE status'[c] # "none"
        BY <1>0, <1>c, <2>0, <2>1, <2>3 DEF PhoneDuplicate, PhoneExecute, netVars
    <2>4. ASSUME UNCHANGED <<downlink, handling>> PROVE status'[c] # "none"
        BY <1>c, <2>1, <2>4
    <2>5. CASE PhoneCrash
        BY <1>0, <1>c, <2>0, <2>1, <2>5 DEF PhoneCrash
    <2> QED BY <1>6, <2>2, <2>3, <2>4, <2>5
            DEF PhoneNext, ReaderNext, PhoneLoad, PhoneTest, PhoneInsert, PhonePut, PhoneAck,
                PhoneFlush, ConfirmArrives, PhoneEvictAck, phoneVars, netVars
<1>7. CASE UNCHANGED vars
    BY <1>c, <1>7 DEF vars, workerVars, netVars, phoneVars
<1> QED BY <1>1, <1>2, <1>3, <1>4, <1>5, <1>6, <1>7 DEF Next

LEMMA RunsStep ==
    ASSUME DeliveryInv, RunsWereClaimed, [Next]_vars
    PROVE  RunsWereClaimed'
<1>0. TypeOK /\ StageMatchesHandling /\ AcksComeFromClaims
    BY DEF DeliveryInv
<1>1. Claimed \subseteq Claimed'
    BY <1>0, ClaimsGrow DEF Claimed
<1>2. ASSUME NEW r \in Readers, PhoneExecute(r) PROVE RunsWereClaimed'
    <2>1. /\ execs \in [Commands -> Nat] /\ handling[r] \in Claimed
          /\ execs' = [execs EXCEPT ![handling[r]] = @ + 1]
        BY <1>0, <1>2 DEF PhoneExecute, TypeOK, AcksComeFromClaims, PhoneTraces, TakenStages
    <2> QED BY <1>1, <2>1 DEF RunsWereClaimed
<1>3. ASSUME UNCHANGED execs PROVE RunsWereClaimed'
    BY <1>1, <1>3 DEF RunsWereClaimed
<1> QED BY <1>0, <1>2, <1>3, PhoneChanges
        DEF PhoneUntouched, PhoneNext, ReaderNext, PhoneReceive, PhoneLoad, PhoneTest, PhoneDuplicate,
            PhoneInsert, PhonePut, PhoneAck, PhoneFlush, ConfirmArrives, PhoneEvictAck, PhoneCrash, phoneVars

-----------------------------------------------------------------------------
(* Steps of the two sides.                                                  *)

RefinementInv ==
    /\ DeliveryInv /\ HistoryCoversExecs
    /\ CopiesHaveRows /\ RunsWereClaimed

\* A step of the server issues, gives up or acknowledges, or changes nothing a
\* caller sees.
LEMMA ServerStep ==
    ASSUME RefinementInv, [Next]_vars, PhoneUntouched
    PROVE  [Contract!Next]_(Contract!vars)
<1>0. /\ TypeOK /\ NoRowBeforeCreate /\ AcksComeFromClaims
      /\ status \in [Commands -> Statuses]
    BY DEF RefinementInv, DeliveryInv, TypeOK
<1>p. PhoneView' = PhoneView /\ forgetful' = forgetful
    BY DEF PhoneUntouched, phoneVars, listVars, PhoneView
<1>s. ASSUME ServerView' = ServerView PROVE UNCHANGED Contract!vars
    BY <1>p, <1>s DEF Contract!vars
<1>a. ASSUME UNCHANGED status PROVE UNCHANGED Contract!vars
    BY <1>s, <1>a DEF ServerView, Live
<1>r. ASSUME NEW d \in Commands, NEW seen, NEW new \in LiveStatuses, RecordAttempt(d, seen, new)
      PROVE  UNCHANGED Contract!vars
    <2>1. \A c \in Commands : \/ status'[c] = status[c]
                              \/ status[c] \in LiveStatuses /\ status'[c] \in LiveStatuses
        BY <1>0, <1>r DEF RecordAttempt, Live
    <2>2. ServerView' = ServerView
        BY <2>1 DEF ServerView, Live
    <2> QED BY <1>s, <2>2
<1>g. ASSUME NEW S \in SUBSET Live,
             status' = [c \in Commands |-> IF c \in S THEN "failed" ELSE status[c]]
      PROVE  Contract!Next
    <2>1. S \in SUBSET Commands /\ \A c \in S : ServerView[c] = "live"
        BY DEF ServerView, Live
    <2>2. ServerView' = [c \in Commands |-> IF c \in S THEN "failed" ELSE ServerView[c]]
        BY <1>g DEF ServerView, Live, LiveStatuses
    <2> QED BY <1>p, <2>1, <2>2 DEF Contract!Next, Contract!GiveUp
<1>1. ASSUME NEW c \in Commands, SenderNext(c) PROVE [Contract!Next]_(Contract!vars)
    <2>1. CASE SendSupersede(c)
        <3>1. Superseded(c) \in SUBSET Live
            BY DEF Superseded
        <3> QED BY <1>g, <2>1, <3>1 DEF SendSupersede
    <2>2. CASE SendCreate(c)
        <3>1. status[c] = "none" /\ status' = [status EXCEPT ![c] = "queued"]
            BY <1>0, <2>2 DEF SendCreate, NoRowBeforeCreate
        <3>2. ServerView[c] = "none" /\ ServerView' = [ServerView EXCEPT ![c] = "live"]
            BY <1>0, <3>1 DEF ServerView, Live, LiveStatuses
        <3> QED BY <1>p, <3>2 DEF Contract!Next, Contract!Issue
    <2>3. CASE SendAttempt(c) \/ SendDbError(c)
        BY <1>a, <2>3 DEF SendAttempt, SendDbError, rowVars
    <2>4. CASE SendRecord(c)
        BY <1>r, <2>4 DEF SendRecord, LiveStatuses
    <2> QED BY <1>1, <2>1, <2>2, <2>3, <2>4 DEF SenderNext
<1>2. CASE WorkerNext
    <2>1. CASE TickScan \/ WakeScan \/ WorkerAttempt
        BY <1>a, <2>1 DEF TickScan, WakeScan, WorkerAttempt, rowVars
    <2>2. CASE WorkerRecord
        <3>1. PICK d \in batch : \/ \E new \in LiveStatuses : RecordAttempt(d, snapshot[d], new)
                                 \/ UNCHANGED status
            BY <2>2 DEF WorkerRecord, LiveStatuses
        <3>2. d \in Commands
            BY <1>0 DEF TypeOK
        <3> QED BY <1>a, <1>r, <3>1, <3>2
    <2>3. CASE WorkerFinish
        <3>1. Exhausted \in SUBSET Live
            BY DEF Exhausted
        <3> QED BY <1>a, <1>g, <2>3, <3>1 DEF WorkerFinish
    <2> QED BY <1>2, <2>1, <2>2, <2>3 DEF WorkerNext
<1>3. ASSUME NEW c \in Commands, AckArrives(c) PROVE [Contract!Next]_(Contract!vars)
    <2>1. CASE c \in Live /\ status' = [status EXCEPT ![c] = "acknowledged"]
        <3>1. c \in Claimed
            BY <1>3, <1>0 DEF AckArrives, AcksComeFromClaims, PhoneTraces
        <3>2. PhoneView[c] # "new"
            <4>1. claims[c] \in Nat /\ execs[c] \in Nat /\ claims[c] > 0
                BY <1>0, <3>1 DEF TypeOK, Claimed
            <4>2. PhoneStage(execs[c], claims[c]) # "new"
                BY <4>1 DEF PhoneStage
            <4> QED BY <4>2 DEF PhoneView
        <3>3. ServerView[c] = "live" /\ ServerView' = [ServerView EXCEPT ![c] = "acknowledged"]
            BY <1>0, <2>1 DEF ServerView, Live, LiveStatuses
        <3> QED BY <1>p, <3>2, <3>3 DEF Contract!Next, Contract!Acknowledge
    <2> QED BY <1>3, <1>a, <2>1 DEF AckArrives
<1>4. ASSUME UNCHANGED status PROVE [Contract!Next]_(Contract!vars)
    BY <1>a, <1>4
<1>5. CASE NetNext \/ ServerCrash \/ PhoneNext \/ UNCHANGED vars
    <2>1. UNCHANGED status
        BY <1>5 DEF NetNext, Connect, Disconnect, LoseCopy, DuplicateCopy, ServerCrash, PhoneNext,
                    ReaderNext, PhoneReceive, PhoneLoad, PhoneTest, PhoneDuplicate, PhoneInsert,
                    PhonePut, PhoneAck, PhoneExecute, PhoneFlush, ConfirmArrives,
                    PhoneEvictAck, PhoneCrash, vars, rowVars
    <2> QED BY <1>4, <2>1
<1>6. ASSUME NEW c \in Commands, TimeNext(c) PROVE [Contract!Next]_(Contract!vars)
    BY <1>4, <1>6 DEF TimeNext, RetryDue, TTLPasses
<1> QED BY <1>1, <1>2, <1>3, <1>5, <1>6 DEF Next

\* The view of one command changes with its own counters only.
LEMMA OneViewChanges ==
    ASSUME NEW c \in Commands, NEW v, PhoneStage(execs'[c], claims'[c]) = v,
           \A d \in Commands : d # c => execs'[d] = execs[d] /\ claims'[d] = claims[d]
    PROVE  PhoneView' = [PhoneView EXCEPT ![c] = v]
<1>1. \A d \in Commands : /\ PhoneView[d] = PhoneStage(execs[d], claims[d])
                          /\ PhoneView'[d] = PhoneStage(execs'[d], claims'[d])
    BY DEF PhoneView
<1>2. \A d \in Commands : PhoneView'[d] = IF d = c THEN v ELSE PhoneView[d]
    BY <1>1
<1>3. PhoneView' = [d \in Commands |-> PhoneView'[d]] /\ DOMAIN PhoneView = Commands
    BY DEF PhoneView
<1> QED BY <1>2, <1>3

\* ... and not at all when its stage stays.
LEMMA NoViewChanges ==
    ASSUME NEW c \in Commands, PhoneStage(execs'[c], claims'[c]) = PhoneStage(execs[c], claims[c]),
           \A d \in Commands : d # c => execs'[d] = execs[d] /\ claims'[d] = claims[d]
    PROVE  PhoneView' = PhoneView
<1>1. \A d \in Commands : PhoneStage(execs'[d], claims'[d]) = PhoneStage(execs[d], claims[d])
    OBVIOUS
<1> QED BY <1>1 DEF PhoneView

\* A step of the phone takes, forgets or runs, or changes nothing a caller sees.
LEMMA PhoneStep ==
    ASSUME RefinementInv, HistoryCoversExecs', [Next]_vars, PhoneNext
    PROVE  [Contract!Next]_(Contract!vars)
<1>0. /\ TypeOK /\ StageMatchesHandling /\ AcksComeFromClaims
      /\ claims \in [Commands -> Nat] /\ execs \in [Commands -> Nat]
    BY DEF RefinementInv, DeliveryInv, TypeOK
<1>1. UNCHANGED status
    BY DEF PhoneNext, ReaderNext, PhoneReceive, PhoneLoad, PhoneTest, PhoneDuplicate, PhoneInsert,
           PhonePut, PhoneAck, PhoneExecute, PhoneFlush, ConfirmArrives, PhoneEvictAck, PhoneCrash, rowVars
<1>2. ServerView' = ServerView
    BY <1>1 DEF ServerView, Live
<1>3. ASSUME NEW r \in Readers, PhoneInsert(r) PROVE [Contract!Next]_(Contract!vars)
    <2> DEFINE c == handling[r]
    <2>0. c \in Commands
        BY <1>0, <1>3 DEF PhoneInsert, StageMatchesHandling, TypeOK
    <2>1. claims' = [claims EXCEPT ![c] = @ + 1] /\ UNCHANGED <<execs, forgetful>>
        BY <1>3 DEF PhoneInsert
    <2>4. status[c] # "none"
        BY <2>0 DEF RefinementInv, CopiesHaveRows, InUse
    <2> HIDE DEF c
    <2>2. /\ claims'[c] # 0
          /\ \A d \in Commands : d # c => execs'[d] = execs[d] /\ claims'[d] = claims[d]
        BY <1>0, <2>0, <2>1
    <2>3. PhoneView[c] = PhoneStage(execs[c], claims[c]) /\ execs'[c] = execs[c]
        BY <2>0, <2>1 DEF PhoneView
    <2>5. ServerView[c] # "none"
        BY <2>0, <2>4 DEF ServerView
    <2>6. CASE PhoneView[c] = "new"
        <3>1. PhoneStage(execs'[c], claims'[c]) = "taken"
            BY <2>2, <2>3, <2>6 DEF PhoneStage
        <3>2. PhoneView' = [PhoneView EXCEPT ![c] = "taken"]
            BY <2>0, <2>2, <3>1, OneViewChanges
        <3> QED BY <1>2, <2>0, <2>1, <2>5, <2>6, <3>2 DEF Contract!Next, Contract!Take
    <2>7. CASE PhoneView[c] # "new"
        <3>1. PhoneStage(execs'[c], claims'[c]) = PhoneStage(execs[c], claims[c])
            BY <2>2, <2>3, <2>7 DEF PhoneStage
        <3>2. PhoneView' = PhoneView
            BY <2>0, <2>2, <3>1, NoViewChanges
        <3> QED BY <1>2, <2>1, <3>2 DEF Contract!vars
    <2> QED BY <2>6, <2>7
<1>4. ASSUME NEW r \in Readers, PhoneExecute(r) PROVE [Contract!Next]_(Contract!vars)
    <2> DEFINE c == handling[r]
    <2>1. /\ c \in Claimed /\ c \in Commands
          /\ execs' = [execs EXCEPT ![c] = @ + 1]
          /\ UNCHANGED <<claims, forgetful>>
        BY <1>0, <1>4 DEF PhoneExecute, AcksComeFromClaims, PhoneTraces, TakenStages, Claimed
    <2> HIDE DEF c
    <2>2. /\ execs'[c] = execs[c] + 1 /\ execs[c] \in Nat /\ execs'[c] \in Nat
          /\ claims'[c] = claims[c] /\ claims[c] > 0 /\ claims[c] \in Nat
          /\ \A d \in Commands : d # c => execs'[d] = execs[d] /\ claims'[d] = claims[d]
        BY <1>0, <2>1 DEF Claimed
    <2>3. PhoneView[c] = PhoneStage(execs[c], claims[c])
        BY <2>1 DEF PhoneView
    <2>4. CASE execs[c] = 0
        <3>1. PhoneView[c] = "taken" /\ PhoneStage(execs'[c], claims'[c]) = "run"
            BY <2>2, <2>3, <2>4 DEF PhoneStage
        <3>2. PhoneView' = [PhoneView EXCEPT ![c] = "run"]
            BY <2>1, <2>2, <3>1, OneViewChanges
        <3> QED BY <1>2, <2>1, <3>1, <3>2 DEF Contract!Next, Contract!Run
    <2>5. CASE execs[c] = 1
        <3>1. PhoneView[c] = "run" /\ PhoneStage(execs'[c], claims'[c]) = "run again"
            BY <2>2, <2>3, <2>5 DEF PhoneStage
        <3>2. PhoneView' = [PhoneView EXCEPT ![c] = "run again"]
            BY <2>1, <2>2, <3>1, OneViewChanges
        <3>3. forgetful' /\ forgetful
            BY <2>1, <2>2, <2>5 DEF HistoryCoversExecs, RunsAreStored
        <3> QED BY <1>2, <2>1, <3>1, <3>2, <3>3 DEF Contract!Next, Contract!Run
    <2>6. CASE execs[c] > 1
        <3>3. execs[c] \notin {0, 1} /\ execs'[c] \notin {0, 1}
            BY <2>2, <2>6
        <3>1. PhoneStage(execs'[c], claims'[c]) = PhoneStage(execs[c], claims[c])
            BY <3>3 DEF PhoneStage
        <3>2. PhoneView' = PhoneView
            BY <2>1, <2>2, <3>1, NoViewChanges
        <3> QED BY <1>2, <2>1, <3>2 DEF Contract!vars
    <2> QED BY <2>2, <2>4, <2>5, <2>6
<1>5. ASSUME UNCHANGED <<claims, execs>>, forgetful' = forgetful \/ forgetful'
      PROVE  [Contract!Next]_(Contract!vars)
    <2>1. PhoneView' = PhoneView
        BY <1>5 DEF PhoneView
    <2>2. CASE forgetful' = forgetful
        BY <1>2, <2>1, <2>2 DEF Contract!vars
    <2>3. CASE forgetful' = TRUE
        BY <1>2, <2>1, <2>3 DEF Contract!Next, Contract!Forget
    <2>4. forgetful' \in BOOLEAN
        BY <1>0, TypeStep DEF TypeOK
    <2> QED BY <1>5, <2>2, <2>3, <2>4
<1>6. ASSUME NEW r \in Readers, NEW c \in Commands, PhoneReceive(r, c) PROVE [Contract!Next]_(Contract!vars)
    BY <1>5, <1>6 DEF PhoneReceive
<1>7. ASSUME NEW r \in Readers, PhoneLoad(r) \/ PhonePut(r) PROVE [Contract!Next]_(Contract!vars)
    <2>1. UNCHANGED <<claims, execs>>
        BY <1>7 DEF PhoneLoad, PhonePut
    <2>2. forgetful' = forgetful \/ forgetful'
        BY <1>0, <1>7 DEF PhoneLoad, PhonePut, TypeOK
    <2> QED BY <1>5, <2>1, <2>2
<1>8. ASSUME UNCHANGED <<claims, execs, forgetful>> PROVE [Contract!Next]_(Contract!vars)
    BY <1>5, <1>8
<1> QED BY <1>3, <1>4, <1>6, <1>7, <1>8
        DEF PhoneNext, ReaderNext, PhoneTest, PhoneDuplicate, PhoneAck, PhoneFlush, ConfirmArrives,
            PhoneEvictAck, PhoneCrash, phoneVars

\* Whatever is lost, duplicated, retried, overtaken or restarted, callers of
\* SendCommandWithDelivery see only the steps of the contract. (delivery.go, main.js:469-515)
THEOREM DeliveryImplementsContract ==
    ASSUME Cardinality(Commands) <= MaxHistory
    PROVE  Spec => ImplementsContract
<1>1. Init => Contract!Init
    <2>1. ASSUME Init PROVE ServerView = [c \in Commands |-> "none"]
        BY <2>1 DEF Init, ServerView, Live, LiveStatuses
    <2>2. ASSUME Init PROVE PhoneView = [c \in Commands |-> "new"]
        <3>1. PhoneView = [c \in Commands |-> PhoneStage(0, 0)]
            BY <2>2 DEF Init, PhoneView
        <3> QED BY <3>1 DEF PhoneStage
    <2> QED BY <2>1, <2>2 DEF Init, Contract!Init
<1>2. Init => HistoryCoversExecs /\ CopiesHaveRows /\ RunsWereClaimed
    BY CommandsAssumption DEF Init, HistoryCoversExecs, ListsAgree, RunsAreStored, RunStages, Claiming,
                              ClaimStages, CopiesHaveRows, InUse, RunsWereClaimed
<1>3. DeliveryInv /\ HistoryCoversExecs /\ [Next]_vars => HistoryCoversExecs'
    BY HistoryStep
<1>4. DeliveryInv /\ CopiesHaveRows /\ [Next]_vars => CopiesHaveRows'
    BY CopiesStep DEF DeliveryInv
<1>5. DeliveryInv /\ RunsWereClaimed /\ [Next]_vars => RunsWereClaimed'
    BY RunsStep
<1>6. RefinementInv /\ HistoryCoversExecs' /\ [Next]_vars => [Contract!Next]_(Contract!vars)
    BY ServerStep, PhoneStep, PhoneChanges DEF RefinementInv, DeliveryInv
<1> QED BY <1>1, <1>2, <1>3, <1>4, <1>5, <1>6, DeliveryInvariance, PTL
        DEF Spec, ImplementsContract, Contract!Spec, RefinementInv
=============================================================================
