--------------------------- MODULE Periphery_proofs ---------------------------
(***************************************************************************)
(* Proofs about the parts that stand beside the core, for any values of    *)
(* their constants: the lease of the phone's script, the phone's log, the  *)
(* limits of the automation script, the lengths of MQTT packets, and the   *)
(* types of all parts that MCPeriphery checks together.                    *)
(***************************************************************************)
EXTENDS MCPeriphery, ServerTables_proofs, FiniteSetTheorems, WellFoundedInduction, TLAPS

-----------------------------------------------------------------------------
(* RuntimeLease: at most one instance serves the phone, as long as nothing  *)
(* happened that the code does not exclude.                                 *)

\* The owner of the lease is the one that has written it and not given it up.
HolderOwns ==
    \A i \in Instances : Holds(i) => lease = i /\ fresh

\* Whoever is about to write the lease is alone with it.
WriterAlone ==
    \A i, j \in Instances : At(i, "write") /\ i # j => ~At(j, "write") /\ ~Holds(j)

AllLeased == \A i \in Instances : ~At(i, "running unleased")

\* OneInstance says nothing of leases that are written but not yet verified; this does.
LeaseInv == ~breach => HolderOwns /\ WriterAlone /\ AllLeased

-----------------------------------------------------------------------------
LEMMA TypeInit == Init => TypeOK
<1> SUFFICES ASSUME Init PROVE TypeOK
  OBVIOUS
<1>1. lease \in Instances \cup {Nobody} /\ fresh \in BOOLEAN /\ breach \in BOOLEAN
  BY Zenon DEF Init
<1>2. stage \in [Instances -> Stages] /\ stalls \in 0..MaxStalls
  BY InstancesAssumption DEF Init, Stages
<1>3. QED
  BY <1>1, <1>2 DEF TypeOK

LEMMA StallsBounded ==
    ASSUME stalls \in 0..MaxStalls, stalls' = stalls \/ Stall
    PROVE  stalls' \in 0..MaxStalls
<1>1. MaxStalls \in Nat
  BY InstancesAssumption
<1>2. QED
  BY <1>1 DEF Stall

LEMMA TypeNext == TypeOK /\ [Next]_leaseVars => TypeOK'
<1> SUFFICES ASSUME TypeOK, [Next]_leaseVars PROVE TypeOK'
  OBVIOUS
<1> USE InstancesAssumption DEF TypeOK, Stages, Goto, Stall
<1>1. ASSUME NEW i \in Instances, Start(i) \/ VerifyLease(i) \/ RefreshLease(i)
      PROVE  TypeOK'
  BY <1>1 DEF Start, VerifyLease, RefreshLease
<1>2. ASSUME NEW i \in Instances, ReadLease(i) PROVE TypeOK'
  <2>1. breach' \in BOOLEAN
    BY <1>2, Zenon DEF ReadLease
  <2>2. /\ stalls' = stalls \/ Stall
        /\ \E s \in Stages : Goto(i, s)
        /\ UNCHANGED <<lease, fresh>>
    <3>1. /\ stalls' = stalls \/ Stall
          /\ Goto(i, IF Refused(i) THEN "gone" ELSE "write") \/ Goto(i, "running unleased")
          /\ UNCHANGED <<lease, fresh>>
      BY <1>2, Zenon DEF ReadLease
    <3>2. QED
      BY <3>1
  <2>3. stage' \in [Instances -> Stages]
    BY <2>2
  <2>4. stalls' \in 0..MaxStalls
    BY <2>2, StallsBounded
  <2>5. QED
    BY <2>1, <2>2, <2>3, <2>4, Zenon
<1>3. ASSUME NEW i \in Instances, WriteLease(i) PROVE TypeOK'
  <2>1. breach' \in BOOLEAN /\ fresh' \in BOOLEAN
    BY <1>3, Zenon DEF WriteLease
  <2>2. /\ stalls' = stalls \/ Stall
        /\ Goto(i, "verify")
        /\ lease' = i \/ lease' = lease
    BY <1>3, Zenon DEF WriteLease
  <2>3. stage' \in [Instances -> Stages]
    BY <2>2
  <2>4. stalls' \in 0..MaxStalls
    BY <2>2, StallsBounded
  <2>5. QED
    BY <2>1, <2>2, <2>3, <2>4, Zenon
<1>4. ASSUME NEW i \in Instances, Stop(i) \/ ReleaseLease(i) \/ ClearLease(i) \/ Exit(i)
      PROVE  TypeOK'
  BY <1>4 DEF Stop, ReleaseLease, ClearLease, Exit
<1>5. CASE Lapse
  <2>1. breach' \in BOOLEAN /\ fresh' \in BOOLEAN
    BY <1>5, Zenon DEF Lapse
  <2>2. UNCHANGED <<lease, stage>> /\ (stalls' = stalls \/ Stall)
    BY <1>5, Zenon DEF Lapse
  <2>3. stage' \in [Instances -> Stages]
    BY <2>2
  <2>4. stalls' \in 0..MaxStalls
    BY <2>2, StallsBounded
  <2>5. QED
    BY <2>1, <2>2, <2>3, <2>4, Zenon
<1>6. CASE UNCHANGED leaseVars
  BY <1>6 DEF leaseVars
<1>7. QED
  BY <1>1, <1>2, <1>3, <1>4, <1>5, <1>6 DEF Next

\* The variables of the lease have their types (main.js:638).
THEOREM TypeCorrect == Spec => []TypeOK
BY TypeInit, TypeNext, PTL DEF Spec

-----------------------------------------------------------------------------
LEMMA LeaseInit == Init => LeaseInv
BY DEF Init, LeaseInv, HolderOwns, WriterAlone, AllLeased, Holds, At

\* What stage an instance is at after one of them went on.
LEMMA GotoStage ==
    ASSUME TypeOK, NEW i \in Instances, NEW s \in Stages, Goto(i, s)
    PROVE  \A j \in Instances : stage'[j] = IF j = i THEN s ELSE stage[j]
BY DEF TypeOK, Goto

\* A step of an instance that neither gets hold of the lease nor changes it.
LEMMA StepAside ==
    ASSUME TypeOK, LeaseInv, NEW i \in Instances, NEW s \in Stages, Goto(i, s),
           UNCHANGED <<lease, fresh, breach>>,
           s \in {"verify", "running", "releasing", "clearing"} => Holds(i),
           s \notin {"write", "running unleased"}
    PROVE  LeaseInv'
<1>1. \A j \in Instances : stage'[j] = IF j = i THEN s ELSE stage[j]
  BY GotoStage
<1>2. QED
  BY <1>1 DEF LeaseInv, HolderOwns, WriterAlone, AllLeased, Holds, At

LEMMA LeaseNext == TypeOK /\ LeaseInv /\ [Next]_leaseVars => LeaseInv'
<1> SUFFICES ASSUME TypeOK, LeaseInv, [Next]_leaseVars PROVE LeaseInv'
  OBVIOUS
<1> USE DEF Stages
<1>1. ASSUME NEW i \in Instances, Start(i) PROVE LeaseInv'
  BY <1>1, StepAside DEF Start
<1>2. ASSUME NEW i \in Instances, ReadLease(i) PROVE LeaseInv'
  <2>1. CASE Goto(i, "running unleased") /\ breach' = TRUE
    BY <2>1 DEF LeaseInv
  <2>2. CASE Refused(i) /\ Goto(i, "gone") /\ (breach' <=> breach)
    <3>1. \A j \in Instances : stage'[j] = IF j = i THEN "gone" ELSE stage[j]
      BY <2>2, GotoStage
    <3>2. QED
      BY <1>2, <2>2, <3>1
         DEF ReadLease, LeaseInv, HolderOwns, WriterAlone, AllLeased, Holds, At
  <2>3. CASE /\ ~Refused(i) /\ Goto(i, "write")
             /\ breach' <=> (breach \/ \E j \in Instances \ {i} : At(j, "write"))
    <3> SUFFICES ASSUME ~breach' PROVE HolderOwns' /\ WriterAlone' /\ AllLeased'
      BY DEF LeaseInv
    <3>1. \A j \in Instances : stage'[j] = IF j = i THEN "write" ELSE stage[j]
      BY <2>3, GotoStage
    <3>2. HolderOwns /\ WriterAlone /\ AllLeased /\ \A j \in Instances \ {i} : ~At(j, "write")
      BY <2>3 DEF LeaseInv
    <3>3. \A j \in Instances \ {i} : ~Holds(j)
      BY <3>2, <2>3, InstancesAssumption DEF HolderOwns, Refused
    <3>4. QED
      BY <1>2, <3>1, <3>2, <3>3 DEF ReadLease, HolderOwns, WriterAlone, AllLeased, Holds, At
  <2>4. QED
    BY <1>2, <2>1, <2>2, <2>3 DEF ReadLease
<1>3. ASSUME NEW i \in Instances, WriteLease(i) PROVE LeaseInv'
  <2> SUFFICES ASSUME ~breach' PROVE HolderOwns' /\ WriterAlone' /\ AllLeased'
    BY DEF LeaseInv
  <2>1. ~breach /\ lease' = i /\ fresh' = TRUE /\ At(i, "write")
    BY <1>3 DEF WriteLease
  <2>2. \A j \in Instances : stage'[j] = IF j = i THEN "verify" ELSE stage[j]
    BY <1>3, GotoStage DEF WriteLease
  <2>3. \A j \in Instances \ {i} : ~At(j, "write") /\ ~Holds(j)
    BY <2>1 DEF LeaseInv, WriterAlone
  <2>4. QED
    BY <2>1, <2>2, <2>3 DEF LeaseInv, HolderOwns, WriterAlone, AllLeased, Holds, At
<1>4. ASSUME NEW i \in Instances, VerifyLease(i) PROVE LeaseInv'
  <2>1. Holds(i)
    BY <1>4 DEF VerifyLease, Holds, At
  <2>2. QED
    BY <1>4, <2>1, StepAside DEF VerifyLease
<1>5. ASSUME NEW i \in Instances, RefreshLease(i) PROVE LeaseInv'
  BY <1>5 DEF RefreshLease, LeaseInv, HolderOwns, WriterAlone, AllLeased, Holds, At
<1>6. ASSUME NEW i \in Instances, Stop(i) PROVE LeaseInv'
  <2>1. CASE At(i, "running") /\ Goto(i, "releasing")
    <3>1. Holds(i)
      BY <2>1 DEF Holds, At
    <3>2. QED
      BY <1>6, <2>1, <3>1, StepAside DEF Stop
  <2>2. CASE Goto(i, "closing")
    BY <1>6, <2>2, StepAside DEF Stop
  <2>3. QED
    BY <1>6, <2>1, <2>2 DEF Stop
<1>7. ASSUME NEW i \in Instances, ReleaseLease(i) PROVE LeaseInv'
  <2>1. Holds(i)
    BY <1>7 DEF ReleaseLease, Holds, At
  <2>2. QED
    BY <1>7, <2>1, StepAside DEF ReleaseLease
<1>8. ASSUME NEW i \in Instances, ClearLease(i) PROVE LeaseInv'
  <2> SUFFICES ASSUME ~breach' PROVE HolderOwns' /\ WriterAlone' /\ AllLeased'
    BY DEF LeaseInv
  <2>1. ~breach /\ Holds(i)
    BY <1>8 DEF ClearLease, Holds, At
  <2>2. \A j \in Instances : stage'[j] = IF j = i THEN "closing" ELSE stage[j]
    BY <1>8, GotoStage DEF ClearLease
  <2>3. \A j \in Instances \ {i} : ~Holds(j)
    BY <2>1 DEF LeaseInv, HolderOwns
  <2>4. QED
    BY <2>1, <2>2, <2>3 DEF LeaseInv, HolderOwns, WriterAlone, AllLeased, Holds, At
<1>9. ASSUME NEW i \in Instances, Exit(i) PROVE LeaseInv'
  BY <1>9, StepAside DEF Exit
<1>10. CASE Lapse
  <2> SUFFICES ASSUME ~breach' PROVE HolderOwns' /\ WriterAlone' /\ AllLeased'
    BY DEF LeaseInv
  <2>1. ~breach /\ stage' = stage /\ \A i \in Instances : i = lease => ~Holds(i)
    BY <1>10 DEF Lapse
  <2>2. \A i \in Instances : ~Holds(i)
    BY <2>1 DEF LeaseInv, HolderOwns
  <2>3. QED
    BY <2>1, <2>2 DEF LeaseInv, HolderOwns, WriterAlone, AllLeased, Holds, At
<1>11. CASE UNCHANGED leaseVars
  BY <1>11 DEF leaseVars, LeaseInv, HolderOwns, WriterAlone, AllLeased, Holds, At
<1>12. QED
  BY <1>1, <1>2, <1>3, <1>4, <1>5, <1>6, <1>7, <1>8, <1>9, <1>10, <1>11 DEF Next

LEMMA LeaseServes == LeaseInv => OneInstance
BY DEF LeaseInv, OneInstance, HolderOwns, AllLeased, Holds, Serves, At

\* main.js:638: two instances of the script never serve the phone at a time, unless one of
\* them has given its lease up and is closing, they were between reading the lease and
\* writing it together, the timer of one was held up for the whole TTL, or the storage
\* failed.
THEOREM OneInstanceServes == Spec => []OneInstance
<1>1. Init => TypeOK /\ LeaseInv
  BY TypeInit, LeaseInit
<1>2. TypeOK /\ LeaseInv /\ [Next]_leaseVars => (TypeOK /\ LeaseInv)'
  BY TypeNext, LeaseNext
<1>3. QED
  BY <1>1, <1>2, LeaseServes, PTL DEF Spec

-----------------------------------------------------------------------------
(* LogQueue: entries that leave the phone's queue.                          *)

\* The front of a sequence and the rest of it.
LEMMA FrontAndRest ==
    ASSUME NEW S, NEW q \in Seq(S), NEW n \in Nat
    PROVE  /\ Log!FirstOf(q, n) \in Seq(S)
           /\ Len(Log!FirstOf(q, n)) = IF n < Len(q) THEN n ELSE Len(q)
           /\ \A i \in 1..Len(Log!FirstOf(q, n)) : Log!FirstOf(q, n)[i] = q[i]
           /\ Log!Without(q, n) \in Seq(S)
           /\ Len(Log!Without(q, n)) = IF n < Len(q) THEN Len(q) - n ELSE 0
           /\ \A i \in 1..Len(Log!Without(q, n)) : Log!Without(q, n)[i] = q[i + n]
<1> DEFINE m == IF n < Len(q) THEN n ELSE Len(q)
<1>1. Len(q) \in Nat /\ m \in Nat /\ m <= Len(q)
    OBVIOUS
<1>2. Log!FirstOf(q, n) = SubSeq(q, 1, m) /\ Log!Without(q, n) = SubSeq(q, n + 1, Len(q))
    BY DEF Log!FirstOf, Log!Without
<1>3. \A i \in 1..Len(q) : q[i] \in S
    OBVIOUS
<1>4. /\ SubSeq(q, 1, m) \in Seq(S) /\ Len(SubSeq(q, 1, m)) = m
      /\ \A i \in 1..m : SubSeq(q, 1, m)[i] = q[i]
    <2> HIDE DEF m
    <2> QED BY <1>1, <1>3
<1>5. /\ SubSeq(q, n + 1, Len(q)) \in Seq(S)
      /\ Len(SubSeq(q, n + 1, Len(q))) = IF n < Len(q) THEN Len(q) - n ELSE 0
      /\ \A i \in 1..Len(SubSeq(q, n + 1, Len(q))) : SubSeq(q, n + 1, Len(q))[i] = q[i + n]
    BY <1>1, <1>3
<1> QED BY <1>2, <1>4, <1>5

\* As sets of entries: nothing is lost between the two.
LEMMA NothingBetween ==
    ASSUME NEW S, NEW q \in Seq(S), NEW n \in Nat
    PROVE  /\ Log!Entries(q) \subseteq S
           /\ Log!Entries(q) = Log!Entries(Log!FirstOf(q, n)) \cup Log!Entries(Log!Without(q, n))
<1> DEFINE a == Log!FirstOf(q, n)
           b == Log!Without(q, n)
<1>1. /\ a \in Seq(S) /\ Len(a) = (IF n < Len(q) THEN n ELSE Len(q)) /\ \A i \in 1..Len(a) : a[i] = q[i]
      /\ b \in Seq(S) /\ Len(b) = (IF n < Len(q) THEN Len(q) - n ELSE 0) /\ \A i \in 1..Len(b) : b[i] = q[i + n]
    BY FrontAndRest
<1> HIDE DEF a, b
<1>2. DOMAIN a = 1..Len(a) /\ DOMAIN b = 1..Len(b) /\ DOMAIN q = 1..Len(q)
    BY <1>1
<1>3. Log!Entries(q) \subseteq S
    BY DEF Log!Entries
<1>4. Log!Entries(a) \subseteq Log!Entries(q) /\ Log!Entries(b) \subseteq Log!Entries(q)
    <2>1. ASSUME NEW i \in 1..Len(a) PROVE a[i] \in Log!Entries(q)
        <3>1. i \in 1..Len(q) /\ a[i] = q[i]
            BY <2>1, <1>1
        <3> QED BY <3>1, <1>2 DEF Log!Entries
    <2>2. ASSUME NEW i \in 1..Len(b) PROVE b[i] \in Log!Entries(q)
        <3>1. i + n \in 1..Len(q) /\ b[i] = q[i + n]
            BY <2>2, <1>1
        <3> QED BY <3>1, <1>2 DEF Log!Entries
    <2> QED BY <1>2, <2>1, <2>2 DEF Log!Entries
<1>5. ASSUME NEW i \in 1..Len(q) PROVE q[i] \in Log!Entries(a) \cup Log!Entries(b)
    <2>1. CASE i <= Len(a)
        <3>1. i \in 1..Len(a) /\ q[i] = a[i]
            BY <2>1, <1>1
        <3> QED BY <3>1, <1>2 DEF Log!Entries
    <2>2. CASE i > Len(a)
        <3>1. n < Len(q) /\ i - n \in 1..Len(b) /\ q[i] = b[i - n]
            BY <2>2, <1>1
        <3> QED BY <3>1, <1>2 DEF Log!Entries
    <2> QED BY <2>1, <2>2, <1>1
<1>6. Log!Entries(q) \subseteq Log!Entries(a) \cup Log!Entries(b)
    BY <1>2, <1>5 DEF Log!Entries
<1> QED BY <1>3, <1>4, <1>6 DEF a, b

LEMMA EntriesOfAppend ==
    ASSUME NEW S, NEW q \in Seq(S), NEW e \in S
    PROVE  /\ Append(q, e) \in Seq(S) /\ Len(Append(q, e)) = Len(q) + 1
           /\ \A i \in 1..Len(q) : Append(q, e)[i] = q[i]
           /\ Log!Entries(Append(q, e)) = Log!Entries(q) \cup {e}
<1> DEFINE a == Append(q, e)
<1>1. a \in Seq(S) /\ Len(a) = Len(q) + 1 /\ (\A i \in 1..Len(q) : a[i] = q[i]) /\ a[Len(q) + 1] = e
    OBVIOUS
<1>2. DOMAIN a = 1..(Len(q) + 1) /\ DOMAIN q = 1..Len(q) /\ Len(q) \in Nat
    BY <1>1
<1> HIDE DEF a
<1>3. Log!Entries(a) = Log!Entries(q) \cup {e}
    BY <1>1, <1>2 DEF Log!Entries
<1> QED BY <1>1, <1>3 DEF a

\* What the phone's queue holds has been logged.
LogTypes ==
    /\ gLogQueue \in Seq(1..logged) /\ Len(gLogQueue) <= QueueLimit
    /\ batch \in [Log!Flushers -> Seq(1..logged)] /\ \A f \in Log!Flushers : Len(batch[f]) <= BatchLimit
    /\ passed \in [Log!Flushers -> BOOLEAN]
    /\ logged \in 0..MaxEntries /\ sent \subseteq 1..logged /\ evicted \subseteq 1..logged
    /\ raced \in BOOLEAN

\* A batch that has passed sendWS was sent.
PassedIsSent == \A f \in Log!Flushers :
    passed[f] => Log!Flushing(f) /\ Log!Entries(batch[f]) \subseteq sent

\* Without a race there is one flush at a time, and its batch is still the front of the queue.
FlushAlone == \A f, g \in Log!Flushers : Log!Flushing(f) /\ Log!Flushing(g) => f = g
FrontIsBatch == \A f \in Log!Flushers :
    /\ Len(batch[f]) <= Len(gLogQueue)
    /\ \A i \in 1..Len(batch[f]) : batch[f][i] = gLogQueue[i]

LogInv == LogTypes /\ PassedIsSent /\ (~raced => FlushAlone /\ FrontIsBatch) /\ Log!LogsAreSent

LEMMA LargerSeq ==
    ASSUME NEW S, NEW T, S \subseteq T, NEW q \in Seq(S)
    PROVE  q \in Seq(T)
<1>1. Len(q) \in Nat /\ DOMAIN q = 1..Len(q) /\ \A i \in 1..Len(q) : q[i] \in T
    OBVIOUS
<1>2. q \in [1..Len(q) -> T]
    BY <1>1
<1> QED BY <1>1, <1>2

LEMMA LogStarts == Log!Init => LogInv
<1> SUFFICES ASSUME Log!Init PROVE LogInv
    OBVIOUS
<1> USE DEF Log!Init
<1>1. gLogQueue \in Seq(1..logged) /\ Len(gLogQueue) <= QueueLimit
    BY LogBounds DEF Log!QueueAssumption
<1>2. /\ batch \in [Log!Flushers -> Seq(1..logged)]
      /\ \A f \in Log!Flushers : batch[f] = <<>> /\ Len(batch[f]) <= BatchLimit
    BY LogBounds DEF Log!QueueAssumption
<1>3. passed \in [Log!Flushers -> BOOLEAN]
    BY Zenon
<1>4. logged \in 0..MaxEntries /\ sent \subseteq 1..logged /\ evicted \subseteq 1..logged
    BY LogBounds DEF Log!QueueAssumption
<1>5. raced \in BOOLEAN
    BY Zenon
<1>6. LogTypes
    BY <1>1, <1>2, <1>3, <1>4, <1>5, Zenon DEF LogTypes
<1>7. PassedIsSent /\ FlushAlone
    BY <1>2 DEF PassedIsSent, FlushAlone, Log!Flushing
<1>8. FrontIsBatch
    BY <1>2 DEF FrontIsBatch
<1>9. Log!LogsAreSent
    BY DEF Log!LogsAreSent, Log!Entries
<1> QED BY <1>6, <1>7, <1>8, <1>9 DEF LogInv

\* An entry is appended; in a full queue the first one makes room.
LEMMA CloudLogStep ==
    ASSUME LogInv, Log!CloudLog
    PROVE  LogInv'
<1> USE DEF LogInv, LogTypes
<1> DEFINE excess == IF Len(gLogQueue) >= QueueLimit THEN 1 ELSE 0
           rest == Log!Without(gLogQueue, excess)
           gone == Log!Entries(Log!FirstOf(gLogQueue, excess))
<1>0. /\ logged \in Nat /\ logged' = logged + 1 /\ logged < MaxEntries /\ excess \in Nat
      /\ gLogQueue' = Append(rest, logged') /\ evicted' = evicted \cup gone
      /\ raced' = (raced \/ (excess = 1 /\ \E f \in Log!Flushers : Log!Flushing(f)))
      /\ UNCHANGED <<batch, passed, sent>>
    BY DEF Log!CloudLog
<1>1. /\ gLogQueue \in Seq(1..logged) /\ 1..logged \subseteq 1..logged'
      /\ Len(gLogQueue) \in Nat /\ QueueLimit \in Nat \ {0}
    BY <1>0, LogBounds DEF Log!QueueAssumption
<1>o. excess \in {0, 1} /\ (excess = 0 => Len(gLogQueue) < QueueLimit)
    BY <1>1
<1> HIDE DEF excess
<1>2. /\ rest \in Seq(1..logged)
      /\ Len(rest) = (IF excess < Len(gLogQueue) THEN Len(gLogQueue) - excess ELSE 0)
      /\ \A i \in 1..Len(rest) : rest[i] = gLogQueue[i + excess]
    <2> DEFINE S == 1..logged
               q == gLogQueue
    <2>1. q \in Seq(S) /\ excess \in Nat
        BY <1>0, <1>1
    <2> HIDE DEF S, q
    <2>2. /\ Log!Without(q, excess) \in Seq(S)
          /\ Len(Log!Without(q, excess)) = (IF excess < Len(q) THEN Len(q) - excess ELSE 0)
          /\ \A i \in 1..Len(Log!Without(q, excess)) : Log!Without(q, excess)[i] = q[i + excess]
        BY <2>1, FrontAndRest
    <2> QED BY <2>2 DEF S, q
<1>3. gone \subseteq 1..logged /\ Log!Entries(gLogQueue) = gone \cup Log!Entries(rest)
    BY <1>0, <1>1, NothingBetween
<1> HIDE DEF rest, gone
<1>4. rest \in Seq(1..logged')
    BY <1>1, <1>2, LargerSeq
<1>5. /\ gLogQueue' \in Seq(1..logged') /\ Len(gLogQueue') = Len(rest) + 1
      /\ \A i \in 1..Len(rest) : gLogQueue'[i] = rest[i]
      /\ Log!Entries(gLogQueue') = Log!Entries(rest) \cup {logged'}
    <2>1. logged' \in 1..logged'
        BY <1>0
    <2> DEFINE S == 1..logged'
               e == logged'
    <2>2. rest \in Seq(S) /\ e \in S /\ gLogQueue' = Append(rest, e)
        BY <2>1, <1>4, <1>0
    <2> HIDE DEF S, e
    <2>3. /\ Append(rest, e) \in Seq(S) /\ Len(Append(rest, e)) = Len(rest) + 1
          /\ \A i \in 1..Len(rest) : Append(rest, e)[i] = rest[i]
          /\ Log!Entries(Append(rest, e)) = Log!Entries(rest) \cup {e}
        BY <2>2, EntriesOfAppend
    <2>4. /\ gLogQueue' \in Seq(S) /\ Len(gLogQueue') = Len(rest) + 1
          /\ \A i \in 1..Len(rest) : gLogQueue'[i] = rest[i]
          /\ Log!Entries(gLogQueue') = Log!Entries(rest) \cup {e}
        BY <2>2, <2>3
    <2> QED BY <2>4 DEF S, e
<1>6. Len(gLogQueue') <= QueueLimit
    BY <1>o, <1>1, <1>2, <1>5
<1>7. /\ batch' \in [Log!Flushers -> Seq(1..logged')]
      /\ \A f \in Log!Flushers : Len(batch'[f]) <= BatchLimit
    <2>1. \A f \in Log!Flushers : batch[f] \in Seq(1..logged')
        BY <1>1, LargerSeq
    <2> QED BY <2>1, <1>0
<1>8. raced' \in BOOLEAN /\ passed' \in [Log!Flushers -> BOOLEAN]
    BY <1>0, Zenon
<1>9. logged' \in 0..MaxEntries /\ sent' \subseteq 1..logged' /\ evicted' \subseteq 1..logged'
    <2>1. logged' \in 0..MaxEntries
        BY <1>0, LogBounds DEF Log!QueueAssumption
    <2>2. sent' \subseteq 1..logged' /\ evicted' \subseteq 1..logged'
        BY <1>0, <1>1, <1>3
    <2> QED BY <2>1, <2>2
<1>10. LogTypes'
    BY <1>5, <1>6, <1>7, <1>8, <1>9
<1>11. PassedIsSent'
    BY <1>0 DEF PassedIsSent, Log!Flushing
<1>12. ASSUME ~raced' PROVE FlushAlone' /\ FrontIsBatch' /\ Log!LogsAreSent'
    <2>1. ~raced /\ (excess = 0 \/ \A f \in Log!Flushers : ~Log!Flushing(f))
        BY <1>12, <1>0, <1>o
    <2>2. FlushAlone'
        BY <2>1, <1>0 DEF FlushAlone, Log!Flushing
    <2>3. FrontIsBatch'
        <3>1. CASE excess = 0
            <4>1. Len(rest) = Len(gLogQueue) /\ \A i \in 1..Len(rest) : rest[i] = gLogQueue[i]
                BY <3>1, <1>1, <1>2
            <4>2. \A f \in Log!Flushers : Len(batch[f]) \in Nat
                OBVIOUS
            <4> QED BY <4>1, <4>2, <2>1, <1>0, <1>5 DEF FrontIsBatch
        <3>2. CASE \A f \in Log!Flushers : ~Log!Flushing(f)
            <4>1. \A f \in Log!Flushers : Len(batch'[f]) = 0
                BY <3>2, <1>0 DEF Log!Flushing
            <4>2. Len(gLogQueue') \in Nat
                BY <1>2, <1>5
            <4> QED BY <4>1, <4>2 DEF FrontIsBatch
        <3> QED BY <2>1, <3>1, <3>2
    <2>4. 1..logged' = 1..logged \cup {logged'}
        BY <1>0
    <2>5. 1..logged = Log!Entries(gLogQueue) \cup sent \cup evicted
        BY <2>1 DEF Log!LogsAreSent
    <2>6. 1..logged' = Log!Entries(gLogQueue)' \cup sent' \cup evicted'
        <3>1. Log!Entries(gLogQueue)' = Log!Entries(rest) \cup {logged'}
            BY <1>5 DEF Log!Entries
        <3> HIDE DEF LogInv, LogTypes
        <3> QED BY <3>1, <2>4, <2>5, <1>0, <1>3
    <2> QED BY <2>2, <2>3, <2>6 DEF Log!LogsAreSent
<1>13. Log!LogsAreSent'
    BY <1>12 DEF Log!LogsAreSent
<1> QED BY <1>10, <1>11, <1>12, <1>13

\* The front of the queue is copied.
LEMMA BeginFlushStep ==
    ASSUME LogInv, NEW f \in Log!Flushers, Log!BeginFlush(f)
    PROVE  LogInv'
<1> USE DEF LogInv, LogTypes
<1> DEFINE b == Log!FirstOf(gLogQueue, BatchLimit)
<1>0. /\ ~Log!Flushing(f) /\ gLogQueue # <<>> /\ batch' = [batch EXCEPT ![f] = b]
      /\ raced' = (raced \/ \E g \in Log!Flushers : Log!Flushing(g))
      /\ UNCHANGED <<gLogQueue, passed, logged, sent, evicted>>
    BY DEF Log!BeginFlush
<1>1. BatchLimit \in Nat \ {0} /\ Len(gLogQueue) \in Nat
    BY LogBounds DEF Log!QueueAssumption
<1>2. /\ b \in Seq(1..logged) /\ Len(b) <= BatchLimit /\ Len(b) <= Len(gLogQueue) /\ Len(b) \in Nat
      /\ \A i \in 1..Len(b) : b[i] = gLogQueue[i]
    <2> DEFINE S == 1..logged
               q == gLogQueue
    <2>1. q \in Seq(S) /\ BatchLimit \in Nat /\ Len(q) \in Nat
        BY <1>1
    <2> HIDE DEF S, q
    <2>2. /\ Log!FirstOf(q, BatchLimit) \in Seq(S)
          /\ Len(Log!FirstOf(q, BatchLimit)) = (IF BatchLimit < Len(q) THEN BatchLimit ELSE Len(q))
          /\ \A i \in 1..Len(Log!FirstOf(q, BatchLimit)) : Log!FirstOf(q, BatchLimit)[i] = q[i]
        BY <2>1, FrontAndRest
    <2>3. /\ Len(Log!FirstOf(q, BatchLimit)) <= BatchLimit /\ Len(Log!FirstOf(q, BatchLimit)) <= Len(q)
          /\ Len(Log!FirstOf(q, BatchLimit)) \in Nat
        BY <2>1, <2>2
    <2> QED BY <2>2, <2>3 DEF S, q
<1> HIDE DEF b
<1>3. batch'[f] = b /\ \A g \in Log!Flushers : g # f => batch'[g] = batch[g]
    BY <1>0
<1>4. batch' \in [Log!Flushers -> Seq(1..logged')] /\ \A g \in Log!Flushers : Len(batch'[g]) <= BatchLimit
    BY <1>0, <1>2, <1>3
<1>5. raced' \in BOOLEAN /\ passed' \in [Log!Flushers -> BOOLEAN]
    BY <1>0, Zenon
<1>6. LogTypes'
    BY <1>0, <1>4, <1>5
<1>7. PassedIsSent'
    <2>1. ~passed[f]
        BY <1>0 DEF PassedIsSent
    <2> QED BY <2>1, <1>0, <1>3 DEF PassedIsSent, Log!Flushing
<1>8. ASSUME ~raced' PROVE FlushAlone' /\ FrontIsBatch'
    <2>1. ~raced /\ \A g \in Log!Flushers : batch[g] = <<>>
        BY <1>8, <1>0 DEF Log!Flushing
    <2>2. \A g \in Log!Flushers : g # f => batch'[g] = <<>>
        BY <2>1, <1>3
    <2>3. FlushAlone'
        BY <2>2 DEF FlushAlone, Log!Flushing
    <2>4. \A g \in Log!Flushers : g # f => Len(batch'[g]) = 0
        BY <2>2
    <2>5. FrontIsBatch'
        BY <2>4, <1>0, <1>1, <1>2, <1>3 DEF FrontIsBatch
    <2> QED BY <2>3, <2>5
<1>9. Log!LogsAreSent'
    BY <1>0 DEF Log!LogsAreSent
<1> QED BY <1>6, <1>7, <1>8, <1>9

\* The copy is sent, or there is no connection and the flush is given up.
LEMMA SendBatchStep ==
    ASSUME LogInv, NEW f \in Log!Flushers, Log!SendBatch(f)
    PROVE  LogInv'
<1> USE DEF LogInv, LogTypes
<1>0. /\ Log!Flushing(f) /\ ~passed[f] /\ UNCHANGED <<gLogQueue, logged, evicted, raced>>
      /\ \/ passed' = [passed EXCEPT ![f] = TRUE] /\ sent' = sent \cup Log!Entries(batch[f]) /\ UNCHANGED batch
         \/ batch' = [batch EXCEPT ![f] = <<>>] /\ UNCHANGED <<passed, sent>>
    BY DEF Log!SendBatch
<1>1. Log!Entries(batch[f]) \subseteq 1..logged
    BY DEF Log!Entries
<1>2. Log!LogsAreSent'
    <2>1. 1..logged = Log!Entries(gLogQueue) \cup sent \cup evicted
              => 1..logged = Log!Entries(gLogQueue) \cup sent' \cup evicted
        <3> HIDE DEF LogInv, LogTypes
        <3> QED BY <1>0, <1>1
    <2>2. Log!Entries(gLogQueue)' = Log!Entries(gLogQueue) /\ logged' = logged /\ evicted' = evicted /\ raced' = raced
        BY <1>0 DEF Log!Entries
    <2> QED BY <2>1, <2>2 DEF Log!LogsAreSent
<1>3. CASE passed' = [passed EXCEPT ![f] = TRUE] /\ sent' = sent \cup Log!Entries(batch[f]) /\ UNCHANGED batch
    <2>1. passed' \in [Log!Flushers -> BOOLEAN]
        BY <1>3, Zenon
    <2>2. LogTypes'
        BY <1>0, <1>1, <1>3, <2>1
    <2>3. PassedIsSent'
        BY <1>0, <1>3 DEF PassedIsSent, Log!Flushing, Log!Entries
    <2>4. ~raced' => FlushAlone' /\ FrontIsBatch'
        BY <1>0, <1>3 DEF FlushAlone, FrontIsBatch, Log!Flushing
    <2> QED BY <2>2, <2>3, <2>4, <1>2
<1>4. CASE batch' = [batch EXCEPT ![f] = <<>>] /\ UNCHANGED <<passed, sent>>
    <2>1. /\ batch'[f] = <<>> /\ Len(batch'[f]) = 0 /\ <<>> \in Seq(1..logged)
          /\ \A g \in Log!Flushers : g # f => batch'[g] = batch[g]
        BY <1>4
    <2>2. LogTypes'
        <3>1. \A g \in Log!Flushers : Len(batch'[g]) <= BatchLimit
            BY <2>1, LogBounds DEF Log!QueueAssumption
        <3> QED BY <1>0, <1>4, <2>1, <3>1
    <2>3. PassedIsSent'
        BY <1>0, <1>4, <2>1 DEF PassedIsSent, Log!Flushing, Log!Entries
    <2>4. ~raced' => FlushAlone' /\ FrontIsBatch'
        <3>1. Len(gLogQueue) \in Nat
            OBVIOUS
        <3> QED BY <1>0, <1>4, <2>1, <3>1 DEF FlushAlone, FrontIsBatch, Log!Flushing
    <2> QED BY <2>2, <2>3, <2>4, <1>2
<1> QED BY <1>0, <1>3, <1>4

\* As many entries as were sent leave the queue; without a race they are the ones.
LEMMA EndFlushStep ==
    ASSUME LogInv, NEW f \in Log!Flushers, Log!EndFlush(f)
    PROVE  LogInv'
<1> USE DEF LogInv, LogTypes
<1> DEFINE b == batch[f]
           n == Len(b)
           rest == Log!Without(gLogQueue, n)
           gone == Log!Entries(Log!FirstOf(gLogQueue, n))
<1>0. /\ Log!Flushing(f) /\ passed[f] /\ gLogQueue' = rest
      /\ batch' = [batch EXCEPT ![f] = <<>>] /\ passed' = [passed EXCEPT ![f] = FALSE]
      /\ UNCHANGED <<logged, sent, evicted, raced>>
    BY DEF Log!EndFlush, Log!Removed
<1>1. n \in Nat /\ Len(gLogQueue) \in Nat /\ b \in Seq(1..logged) /\ DOMAIN b = 1..n
    OBVIOUS
<1>2. /\ rest \in Seq(1..logged) /\ Len(rest) <= Len(gLogQueue)
      /\ Log!Entries(gLogQueue) = gone \cup Log!Entries(rest)
      /\ ~raced => gone \subseteq Log!Entries(b)
    <2> DEFINE S == 1..logged
               q == gLogQueue
    <2>1. q \in Seq(S) /\ n \in Nat /\ Len(q) \in Nat
        BY <1>1
    <2>2. ~raced => n <= Len(q) /\ \A i \in 1..n : b[i] = q[i]
        BY DEF FrontIsBatch
    <2> HIDE DEF S, q, n
    <2>3. /\ Log!Without(q, n) \in Seq(S)
          /\ Len(Log!Without(q, n)) = (IF n < Len(q) THEN Len(q) - n ELSE 0)
          /\ Log!FirstOf(q, n) \in Seq(S)
          /\ Len(Log!FirstOf(q, n)) = (IF n < Len(q) THEN n ELSE Len(q))
          /\ \A i \in 1..Len(Log!FirstOf(q, n)) : Log!FirstOf(q, n)[i] = q[i]
        BY <2>1, FrontAndRest
    <2>4. Len(Log!Without(q, n)) <= Len(q)
        BY <2>1, <2>3
    <2>5. Log!Entries(q) = Log!Entries(Log!FirstOf(q, n)) \cup Log!Entries(Log!Without(q, n))
        BY <2>1, NothingBetween
    <2>6. ASSUME ~raced PROVE Log!Entries(Log!FirstOf(q, n)) \subseteq Log!Entries(b)
        <3> DEFINE front == Log!FirstOf(q, n)
        <3>1. /\ DOMAIN front = 1..n /\ DOMAIN b = 1..n /\ \A i \in 1..n : front[i] = b[i]
            <4>1. Len(front) = n /\ DOMAIN front = 1..Len(front)
                BY <2>6, <2>1, <2>2, <2>3
            <4> QED BY <4>1, <2>6, <2>2, <2>3, <1>1
        <3> HIDE DEF front, b
        <3>2. Log!Entries(front) \subseteq Log!Entries(b)
            BY <3>1 DEF Log!Entries
        <3> QED BY <3>2 DEF front
    <2> QED BY <2>3, <2>4, <2>5, <2>6 DEF S, q
<1>3. Log!Entries(b) \subseteq sent
    BY <1>0 DEF PassedIsSent
<1> HIDE DEF b, n, rest, gone
<1>4. /\ batch'[f] = <<>> /\ Len(batch'[f]) = 0 /\ <<>> \in Seq(1..logged)
      /\ \A g \in Log!Flushers : g # f => batch'[g] = batch[g]
    BY <1>0
<1>5. passed' \in [Log!Flushers -> BOOLEAN]
    BY <1>0, Zenon
<1>6. LogTypes'
    <2>1. \A g \in Log!Flushers : Len(batch'[g]) <= BatchLimit
        BY <1>4, LogBounds DEF Log!QueueAssumption
    <2>2. Len(gLogQueue') <= QueueLimit /\ gLogQueue' \in Seq(1..logged')
        <3>1. Len(rest) \in Nat /\ QueueLimit \in Nat
            BY <1>2, LogBounds DEF Log!QueueAssumption
        <3> QED BY <3>1, <1>0, <1>1, <1>2
    <2>3. batch' \in [Log!Flushers -> Seq(1..logged')]
        BY <1>0, <1>4
    <2> QED BY <1>0, <1>5, <2>1, <2>2, <2>3
<1>7. PassedIsSent'
    BY <1>0, <1>4 DEF PassedIsSent, Log!Flushing, Log!Entries
<1>8. ASSUME ~raced' PROVE FlushAlone' /\ FrontIsBatch'
    <2>1. ~raced
        BY <1>8, <1>0
    <2>2. \A g \in Log!Flushers : g # f => batch[g] = <<>>
        BY <2>1, <1>0 DEF FlushAlone, Log!Flushing
    <2>3. \A g \in Log!Flushers : batch'[g] = <<>> /\ Len(batch'[g]) = 0
        BY <2>2, <1>4
    <2>4. Len(gLogQueue') \in Nat
        BY <1>0, <1>2
    <2> QED BY <2>3, <2>4 DEF FlushAlone, FrontIsBatch, Log!Flushing
<1>9. Log!LogsAreSent'
    <2>1. ASSUME ~raced
          PROVE  1..logged = Log!Entries(gLogQueue) \cup sent \cup evicted
                     => 1..logged = Log!Entries(rest) \cup sent \cup evicted
        BY <2>1, <1>2, <1>3, Zenon
    <2>2. Log!Entries(gLogQueue)' = Log!Entries(rest)
        BY <1>0 DEF Log!Entries
    <2> QED BY <2>1, <2>2, <1>0 DEF Log!LogsAreSent
<1> QED BY <1>6, <1>7, <1>8, <1>9

LEMMA LogStep == LogInv /\ [Log!Next]_Log!logVars => LogInv'
<1> SUFFICES ASSUME LogInv, [Log!Next]_Log!logVars PROVE LogInv'
    OBVIOUS
<1>1. CASE UNCHANGED Log!logVars
    BY <1>1 DEF Log!logVars, LogInv, LogTypes, PassedIsSent, FlushAlone, FrontIsBatch, Log!LogsAreSent, Log!Flushing,
                Log!Entries
<1>2. CASE Log!Next
    BY <1>2, CloudLogStep, BeginFlushStep, SendBatchStep, EndFlushStep DEF Log!Next
<1> QED BY <1>1, <1>2

\* main.js:601 (flushCloudLogs): for any sizes of the queue and of a batch, an entry leaves
\* the queue only when it was sent or the queue was full, as long as two flushes do not
\* overlap and none is under way when an entry is shifted out.
THEOREM LogEntriesAreSent == Log!Spec => []LogsAreSent
<1>1. LogInv => LogsAreSent
    BY DEF LogInv, LogsAreSent
<1> QED BY <1>1, LogStep, LogStarts, PTL DEF Log!Spec

LEMMA LogTypesFollow == LogInv => Log!TypeOK
<1> SUFFICES ASSUME LogInv PROVE Log!TypeOK
    OBVIOUS
<1>1. logged \in 0..MaxEntries /\ 1..logged \subseteq 1..MaxEntries
    BY LogBounds DEF LogInv, LogTypes, Log!QueueAssumption
<1>2. gLogQueue \in Seq(1..MaxEntries)
    <2> DEFINE S == 1..logged
               T == 1..MaxEntries
    <2>1. S \subseteq T /\ gLogQueue \in Seq(S)
        BY <1>1 DEF LogInv, LogTypes
    <2> HIDE DEF S, T
    <2>2. gLogQueue \in Seq(T)
        BY <2>1, LargerSeq
    <2> QED BY <2>2 DEF T
<1>3. ASSUME NEW f \in Log!Flushers PROVE batch[f] \in Seq(1..MaxEntries) /\ Len(batch[f]) <= BatchLimit
    <2> DEFINE S == 1..logged
               T == 1..MaxEntries
               b == batch[f]
    <2>1. S \subseteq T /\ b \in Seq(S) /\ Len(b) <= BatchLimit
        BY <1>1 DEF LogInv, LogTypes
    <2> HIDE DEF S, T, b
    <2>2. b \in Seq(T)
        BY <2>1, LargerSeq
    <2> QED BY <2>1, <2>2 DEF T, b
<1>4. raced \in BOOLEAN
    BY Zenon DEF LogInv, LogTypes
<1> QED BY <1>2, <1>3, <1>4 DEF LogInv, LogTypes, Log!TypeOK

LEMMA LogTypeCorrect == Log!Spec => []Log!TypeOK
BY LogTypesFollow, LogStep, LogStarts, PTL DEF Log!Spec

-----------------------------------------------------------------------------
(* AutomationLoop: how often a script may visit.                            *)

\* A visit has begun that is not counted yet.
Uncounted(k) == IF at = Loop!Made(k) THEN 1 ELSE 0

\* A visit is begun, outside of the mode "all" already approached, below the limit only.
BelowLimit == \A k \in Loop!Visits :
    (at = Loop!Made(k) \/ (at = k /\ mode # "all")) => count[k] < most[k]

\* What the visits made amount to beyond what storage says, and beyond what the running
\* script says: neither bound is inductive alone.
StoredTallies == \A k \in Loop!Visits :
    made[k] <= stored[k] + most[k] * forgets + faults + Uncounted(k)
CountedTallies == at # "off" => \A k \in Loop!Visits :
    made[k] <= count[k] + most[k] * forgets + faults + Uncounted(k)

LoopInv == Loop!TypeOK /\ BelowLimit /\ StoredTallies /\ CountedTallies

\* The ranges that the arithmetic needs.
LEMMA LoopRanges ==
    ASSUME Loop!TypeOK, NEW k \in Loop!Visits
    PROVE  /\ most[k] \in Nat /\ count[k] \in Nat /\ stored[k] \in Nat /\ made[k] \in Nat
           /\ count[k] <= most[k] /\ stored[k] <= most[k]
           /\ forgets \in Nat /\ faults \in Nat /\ most[k] * forgets \in Nat
           /\ most[k] * (forgets + 1) = most[k] * forgets + most[k]
<1>1. Limit \in Nat /\ MaxFaults \in Nat
    BY LoopBounds DEF Loop!LoopAssumption
<1>2. /\ most[k] \in Nat /\ count[k] \in Nat /\ stored[k] \in Nat /\ made[k] \in Nat
      /\ count[k] <= most[k] /\ stored[k] <= most[k]
      /\ forgets \in Nat /\ faults \in Nat
    BY <1>1 DEF Loop!TypeOK
<1>3. \A m, n \in Nat : m * n \in Nat /\ m * (n + 1) = m * n + m
    OBVIOUS
<1> QED BY <1>2, <1>3

LEMMA LoopPoints ==
    /\ Loop!Visits = {"live", "keyword"}
    /\ Loop!Made("live") = "live made" /\ Loop!Made("keyword") = "keyword made"
BY DEF Loop!Visits, Loop!Made

LEMMA LoopStarts == Loop!Init => LoopInv
<1> SUFFICES ASSUME Loop!Init PROVE LoopInv
    OBVIOUS
<1> USE DEF Loop!Init
<1>1. /\ {Limit, MaxStarts, MaxFaults} \subseteq Nat
    BY LoopBounds DEF Loop!LoopAssumption
<1>2. mode \in Loop!Modes /\ limited \in BOOLEAN /\ over \in BOOLEAN /\ night \in BOOLEAN
    BY Zenon
<1>3. most \in [Loop!Visits -> 0..Limit]
    BY <1>1
<1>4. /\ count \in [Loop!Visits -> Nat] /\ stored \in [Loop!Visits -> Nat] /\ made \in [Loop!Visits -> Nat]
      /\ \A k \in Loop!Visits : count[k] = 0 /\ stored[k] = 0 /\ made[k] = 0
    BY DEF Loop!None
<1>5. at \in Loop!Points /\ noHomeCount \in 0..(Loop!MaxNoHomeRetry - 1) /\ today \subseteq Loop!Visits
    BY DEF Loop!Points, Loop!MaxNoHomeRetry
<1>6. starts \in 0..MaxStarts /\ faults \in 0..MaxFaults /\ forgets \in 0..MaxFaults
    BY <1>1
<1>7. \A k \in Loop!Visits : count[k] <= most[k] /\ stored[k] <= most[k]
    BY <1>1, <1>3, <1>4
<1>8. Loop!TypeOK
    BY <1>2, <1>3, <1>4, <1>5, <1>6, <1>7, Zenon DEF Loop!TypeOK
<1>9. BelowLimit
    BY LoopPoints DEF BelowLimit
<1>10. StoredTallies
    BY <1>4, <1>8, LoopRanges DEF StoredTallies, Uncounted
<1> QED BY <1>8, <1>9, <1>10 DEF LoopInv, CountedTallies

\* The flags of the loop, and the script's setup.
LoopFlags == limited \in BOOLEAN /\ over \in BOOLEAN /\ night \in BOOLEAN

LEMMA LoopFlagsStep ==
    ASSUME LoopFlags, Loop!Next
    PROVE  LoopFlags' /\ UNCHANGED <<mode, limited, most>>
<1>1. CASE Loop!Start
    BY <1>1, Zenon DEF LoopFlags, Loop!Start, Loop!setup, Loop!clock
<1>2. CASE Loop!Top
    BY <1>2, Zenon DEF LoopFlags, Loop!Top, Loop!Ends, Loop!setup
<1>3. CASE Loop!Page
    BY <1>3, Zenon DEF LoopFlags, Loop!Page, Loop!setup, Loop!clock
<1>4. CASE \E k \in Loop!Visits : Loop!Visit(k)
    BY <1>4, Zenon DEF LoopFlags, Loop!Visit, Loop!setup, Loop!clock
<1>5. CASE \E k \in Loop!Visits : Loop!Count(k)
    BY <1>5, Zenon DEF LoopFlags, Loop!Count, Loop!setup, Loop!clock
<1>6. CASE Loop!Kill
    BY <1>6, Zenon DEF LoopFlags, Loop!Kill, Loop!Ends, Loop!setup
<1>7. CASE Loop!TimeIsUp \/ Loop!Evening \/ Loop!Morning
    BY <1>7, Zenon DEF LoopFlags, Loop!TimeIsUp, Loop!Evening, Loop!Morning, Loop!setup
<1> QED BY <1>1, <1>2, <1>3, <1>4, <1>5, <1>6, <1>7, Zenon DEF Loop!Next, Loop!LoopStep

\* The numbers.
LoopNumbers ==
    /\ at \in Loop!Points /\ noHomeCount \in 0..(Loop!MaxNoHomeRetry - 1) /\ today \subseteq Loop!Visits
    /\ count \in [Loop!Visits -> Nat] /\ stored \in [Loop!Visits -> Nat] /\ made \in [Loop!Visits -> Nat]
    /\ \A k \in Loop!Visits : count[k] <= most[k] /\ stored[k] <= most[k]
    /\ starts \in 0..MaxStarts /\ faults \in 0..MaxFaults /\ forgets \in 0..MaxFaults

LoopSetup == mode \in Loop!Modes /\ most \in [Loop!Visits -> 0..Limit]

LEMMA LoopParts == Loop!TypeOK <=> LoopFlags /\ LoopSetup /\ LoopNumbers
BY Zenon DEF Loop!TypeOK, LoopFlags, LoopSetup, LoopNumbers

Tallies == BelowLimit /\ StoredTallies /\ CountedTallies

\* The counters a start may begin with.
LEMMA StartStep ==
    ASSUME LoopInv, Loop!Start, UNCHANGED <<mode, limited, most>>
    PROVE  LoopNumbers' /\ Tallies'
<1>0. /\ at = "off" /\ at' = "top" /\ starts' = starts + 1 /\ starts < MaxStarts
      /\ UNCHANGED <<stored, noHomeCount, made, today, faults>>
      /\ \/ count' = stored /\ UNCHANGED forgets
         \/ /\ faults + forgets < MaxFaults /\ forgets' = forgets + 1
            /\ count' \in {Loop!None, [stored EXCEPT !["keyword"] = 0]}
    BY DEF Loop!Start, Loop!Fault, Loop!tallies
<1>1. LoopNumbers /\ {Limit, MaxStarts, MaxFaults} \subseteq Nat /\ most \in [Loop!Visits -> 0..Limit]
    BY LoopParts, LoopBounds DEF LoopInv, LoopSetup, Loop!LoopAssumption
<1>2. count' \in [Loop!Visits -> Nat] /\ \A k \in Loop!Visits : count'[k] = stored[k] \/ count'[k] = 0
    <2>1. CASE count' = stored
        BY <2>1, <1>1 DEF LoopNumbers
    <2>2. CASE count' = Loop!None
        BY <2>2 DEF Loop!None
    <2>3. CASE count' = [stored EXCEPT !["keyword"] = 0]
        BY <2>3, <1>1 DEF LoopNumbers
    <2> QED BY <1>0, <2>1, <2>2, <2>3
<1>3. LoopNumbers'
    <2>1. \A k \in Loop!Visits : count'[k] <= most'[k] /\ stored'[k] <= most'[k]
        BY <1>0, <1>1, <1>2 DEF LoopNumbers
    <2>2. starts' \in 0..MaxStarts /\ faults' \in 0..MaxFaults /\ forgets' \in 0..MaxFaults
        BY <1>0, <1>1 DEF LoopNumbers
    <2>3. at' \in Loop!Points
        BY <1>0 DEF Loop!Points
    <2> QED BY <1>0, <1>1, <1>2, <2>1, <2>2, <2>3 DEF LoopNumbers
<1>4. BelowLimit'
    BY <1>0, LoopPoints DEF BelowLimit
<1>5. ASSUME NEW k \in Loop!Visits
      PROVE  /\ made'[k] <= stored'[k] + most'[k] * forgets' + faults' + Uncounted(k)'
             /\ made'[k] <= count'[k] + most'[k] * forgets' + faults' + Uncounted(k)'
    <2> DEFINE m == most[k] * forgets
    <2>1. /\ m \in Nat /\ most[k] * (forgets + 1) = m + most[k] /\ most[k] \in Nat /\ stored[k] \in Nat
          /\ made[k] \in Nat /\ stored[k] <= most[k] /\ faults \in Nat
        BY LoopRanges DEF LoopInv
    <2>2. Uncounted(k) = 0 /\ Uncounted(k)' = 0
        BY <1>0, LoopPoints DEF Uncounted
    <2>3. made[k] <= stored[k] + m + faults
        <3>1. made[k] <= stored[k] + m + faults + Uncounted(k)
            BY DEF LoopInv, StoredTallies
        <3> QED BY <3>1, <2>1, <2>2
    <2>4. count'[k] \in Nat
        BY <1>2
    <2>5. CASE count' = stored /\ UNCHANGED forgets
        <3>1. most'[k] * forgets' = m /\ count'[k] = stored[k] /\ stored'[k] = stored[k] /\ made'[k] = made[k] /\ faults' = faults
            BY <2>5, <1>0
        <3> HIDE DEF m
        <3> QED BY <3>1, <2>1, <2>2, <2>3
    <2>6. CASE forgets' = forgets + 1
        <3>1. most'[k] * forgets' = m + most[k] /\ stored'[k] = stored[k] /\ made'[k] = made[k] /\ faults' = faults
            BY <2>6, <2>1, <1>0
        <3> HIDE DEF m
        <3> QED BY <3>1, <2>1, <2>2, <2>3, <2>4
    <2> QED BY <1>0, <2>5, <2>6
<1> QED BY <1>3, <1>4, <1>5 DEF Tallies, StoredTallies, CountedTallies

\* A step without a visit, a count or a start: what a visit that is given up does not
\* add to the counters, it adds to the faults.
LEMMA TalliesKept ==
    ASSUME LoopInv, UNCHANGED <<most, made, stored, forgets>>, faults' \in Nat,
           at # "off", at' = "off" \/ count' = count,
           \A k \in Loop!Visits : Uncounted(k) + faults <= Uncounted(k)' + faults'
    PROVE  StoredTallies' /\ CountedTallies'
<1>1. ASSUME NEW k \in Loop!Visits
      PROVE  /\ made'[k] <= stored'[k] + most'[k] * forgets' + faults' + Uncounted(k)'
             /\ at' # "off" => made'[k] <= count'[k] + most'[k] * forgets' + faults' + Uncounted(k)'
    <2> DEFINE m == most[k] * forgets
    <2>1. m \in Nat /\ stored[k] \in Nat /\ made[k] \in Nat /\ count[k] \in Nat /\ faults \in Nat
        BY LoopRanges DEF LoopInv
    <2>2. Uncounted(k) \in {0, 1} /\ Uncounted(k)' \in {0, 1}
        BY DEF Uncounted
    <2>3. made[k] <= stored[k] + m + faults + Uncounted(k) /\ made[k] <= count[k] + m + faults + Uncounted(k)
        BY DEF LoopInv, StoredTallies, CountedTallies
    <2>4. most'[k] * forgets' = m
        OBVIOUS
    <2>5. Uncounted(k) + faults <= Uncounted(k)' + faults'
        OBVIOUS
    <2> DEFINE u == Uncounted(k)
               v == Uncounted(k)'
    <2>6. /\ u \in {0, 1} /\ v \in {0, 1} /\ u + faults <= v + faults'
          /\ made[k] <= stored[k] + m + faults + u /\ made[k] <= count[k] + m + faults + u
        BY <2>2, <2>3, <2>5
    <2> HIDE DEF m
    <2> DEFINE n == made[k]
               s == stored[k]
               c == count[k]
               f == faults'
    <2>7. made'[k] = n /\ stored'[k] = s /\ (at' # "off" => count'[k] = c)
        OBVIOUS
    <2>8. n <= s + m + f + v /\ n <= c + m + f + v
        <3>1. n \in Nat /\ s \in Nat /\ c \in Nat /\ f \in Nat /\ m \in Nat /\ faults \in Nat
            BY <2>1
        <3>2. u \in {0, 1} /\ v \in {0, 1} /\ u + faults <= v + f /\ n <= s + m + faults + u
                  /\ n <= c + m + faults + u
            BY <2>6
        <3> HIDE DEF n, s, c, f
        <3> QED BY <3>1, <3>2
    <2> QED BY <2>4, <2>7, <2>8
<1> QED BY <1>1 DEF StoredTallies, CountedTallies

\* A step of the loop, or of the world, that makes no visit and counts none.
LEMMA LoopQuietStep ==
    ASSUME LoopInv, UNCHANGED <<mode, limited, most>>,
           Loop!Top \/ Loop!Page \/ Loop!Kill \/ Loop!TimeIsUp
    PROVE  LoopNumbers' /\ Tallies'
<1>1. LoopNumbers /\ MaxStarts \in Nat /\ MaxFaults \in Nat /\ most \in [Loop!Visits -> 0..Limit]
    BY LoopParts, LoopBounds DEF LoopInv, LoopSetup, Loop!LoopAssumption
<1>2. /\ at # "off" /\ UNCHANGED <<made, stored, forgets, starts, today>>
      /\ (at' = "off" /\ count' = Loop!None) \/ count' = count
      /\ noHomeCount' \in 0..(Loop!MaxNoHomeRetry - 1)
    <2>1. CASE Loop!Top
        BY <2>1, <1>1 DEF Loop!Top, Loop!Ends, Loop!tallies, Loop!history, LoopNumbers, Loop!MaxNoHomeRetry
    <2>2. CASE Loop!Page
        BY <2>2, <1>1 DEF Loop!Page, Loop!tallies, Loop!history, LoopNumbers, Loop!MaxNoHomeRetry
    <2>3. CASE Loop!Kill
        BY <2>3, <1>1 DEF Loop!Kill, Loop!Ends, Loop!tallies, Loop!MaxNoHomeRetry
    <2>4. CASE Loop!TimeIsUp
        BY <2>4, <1>1 DEF Loop!TimeIsUp, Loop!tallies, Loop!history, LoopNumbers
    <2> QED BY <2>1, <2>2, <2>3, <2>4
<1>3. at' \in Loop!Points
    <2>1. CASE Loop!Top \/ Loop!Page
        BY <2>1, LoopPoints DEF Loop!Top, Loop!Page, Loop!Ends, Loop!Points
    <2>2. CASE Loop!Kill
        BY <2>2 DEF Loop!Kill, Loop!Ends, Loop!Points
    <2>3. CASE Loop!TimeIsUp
        BY <2>3, <1>1 DEF Loop!TimeIsUp, LoopNumbers
    <2> QED BY <2>1, <2>2, <2>3
<1>4. /\ faults' \in 0..MaxFaults
      /\ \A k \in Loop!Visits : Uncounted(k) + faults <= Uncounted(k)' + faults'
    <2>0. faults \in 0..MaxFaults /\ faults \in Nat /\ forgets \in Nat
        BY <1>1 DEF LoopNumbers
    <2>1. CASE Loop!Top \/ Loop!Page
        <3>1. at \in {"top", "page"} /\ at' \in {"off", "top", "page", "live", "keyword"} /\ UNCHANGED faults
            BY <2>1, LoopPoints DEF Loop!Top, Loop!Page, Loop!Ends, Loop!history
        <3>2. \A k \in Loop!Visits : Uncounted(k) = 0 /\ Uncounted(k)' = 0
            BY <3>1, LoopPoints DEF Uncounted
        <3> QED BY <3>1, <3>2, <2>0
    <2>2. CASE Loop!Kill
        <3>1. at' = "off" /\ \A k \in Loop!Visits : Uncounted(k)' = 0
            BY <2>2, LoopPoints DEF Loop!Kill, Loop!Ends, Uncounted
        <3>2. CASE \E k \in Loop!Visits : at = Loop!Made(k)
            <4>1. faults' = faults + 1 /\ faults + forgets < MaxFaults
                BY <2>2, <3>2 DEF Loop!Kill, Loop!Fault
            <4>2. \A k \in Loop!Visits : Uncounted(k) \in {0, 1}
                BY DEF Uncounted
            <4> QED BY <4>1, <4>2, <3>1, <2>0, <1>1
        <3>3. CASE ~\E k \in Loop!Visits : at = Loop!Made(k)
            <4>1. faults' = faults /\ \A k \in Loop!Visits : Uncounted(k) = 0
                BY <2>2, <3>3 DEF Loop!Kill, Uncounted
            <4> QED BY <4>1, <3>1, <2>0
        <3> QED BY <3>2, <3>3
    <2>3. CASE Loop!TimeIsUp
        <3>1. at' = at /\ faults' = faults
            BY <2>3 DEF Loop!TimeIsUp, Loop!history
        <3> QED BY <3>1, <2>0 DEF Uncounted
    <2> QED BY <2>1, <2>2, <2>3
<1>5. LoopNumbers'
    <2>1. count' \in [Loop!Visits -> Nat] /\ \A k \in Loop!Visits : count'[k] <= most[k]
        BY <1>1, <1>2 DEF LoopNumbers, Loop!None
    <2> QED BY <1>1, <1>2, <1>3, <1>4, <2>1 DEF LoopNumbers
<1>6. BelowLimit'
    <2>1. CASE Loop!Top
        <3>1. CASE at' = "off" \/ at' = "page"
            BY <3>1, LoopPoints DEF BelowLimit
        <3>2. CASE mode \in Loop!Visits /\ at' = mode /\ count' = count /\ ~Loop!Exhausted(mode)
            <4>1. count[mode] < most[mode]
                BY <3>2, <1>1 DEF Loop!Exhausted, LoopNumbers
            <4>2. \A k \in Loop!Visits : at' # Loop!Made(k) /\ (at' = k => k = mode)
                BY <3>2, LoopPoints
            <4> QED BY <4>1, <4>2, <3>2 DEF BelowLimit
        <3> QED BY <2>1, <3>1, <3>2 DEF Loop!Top, Loop!Ends
    <2>2. CASE Loop!Page
        BY <2>2, LoopPoints DEF BelowLimit, Loop!Page
    <2>3. CASE Loop!Kill
        BY <2>3, LoopPoints DEF BelowLimit, Loop!Kill, Loop!Ends
    <2>4. CASE Loop!TimeIsUp
        BY <2>4 DEF BelowLimit, Loop!TimeIsUp, LoopInv
    <2> QED BY <2>1, <2>2, <2>3, <2>4
<1>7. faults' \in Nat
    BY <1>1, <1>4
<1>8. StoredTallies' /\ CountedTallies'
    BY <1>2, <1>4, <1>7, TalliesKept
<1> QED BY <1>5, <1>6, <1>8 DEF Tallies

\* Nights change nothing but the days.
LEMMA NightStep ==
    ASSUME LoopInv, UNCHANGED <<mode, limited, most>>, Loop!Evening \/ Loop!Morning
    PROVE  LoopNumbers' /\ Tallies'
<1>1. /\ UNCHANGED <<at, count, stored, noHomeCount, made, starts, faults, forgets>>
      /\ today' = today \/ today' = {}
    BY DEF Loop!Evening, Loop!Morning, Loop!tallies, Loop!history
<1>2. LoopNumbers
    BY LoopParts DEF LoopInv
<1>3. LoopNumbers'
    BY <1>1, <1>2 DEF LoopNumbers
<1> QED BY <1>1, <1>3 DEF LoopInv, Tallies, BelowLimit, StoredTallies, CountedTallies, Uncounted

\* A visit is begun below the limit, and is not counted yet.
LEMMA VisitStep ==
    ASSUME LoopInv, UNCHANGED <<mode, limited, most>>, NEW k \in Loop!Visits, Loop!Visit(k)
    PROVE  LoopNumbers' /\ Tallies'
<1>1. LoopNumbers
    BY LoopParts DEF LoopInv
<1>2. /\ at = k /\ UNCHANGED <<count, stored, noHomeCount, starts, faults, forgets>>
      /\ \/ /\ mode = "all" => ~Loop!Exhausted(k)
            /\ at' = Loop!Made(k) /\ made' = [made EXCEPT ![k] = @ + 1] /\ today' = today \cup {k}
         \/ at' = Loop!AfterVisit(k) /\ made' = made /\ today' = today
    BY DEF Loop!Visit, Loop!history, Loop!tallies
<1>3. \A j \in Loop!Visits : Uncounted(j) = 0 /\ at # Loop!Made(j)
    BY <1>2, LoopPoints DEF Uncounted
<1>4. CASE at' = Loop!AfterVisit(k) /\ made' = made /\ today' = today
    <2>1. at' \in {"keyword", "top"} /\ (at' = "keyword" => mode = "all")
        BY <1>4, LoopPoints DEF Loop!AfterVisit
    <2>2. LoopNumbers'
        BY <1>1, <1>2, <1>4, <2>1 DEF LoopNumbers, Loop!Points
    <2>3. BelowLimit'
        BY <2>1, LoopPoints DEF BelowLimit
    <2>4. \A j \in Loop!Visits : Uncounted(j)' = 0
        BY <2>1, LoopPoints DEF Uncounted
    <2>5. faults \in Nat
        BY LoopRanges DEF LoopInv
    <2>6. at # "off"
        BY <1>2, LoopPoints
    <2>7. \A j \in Loop!Visits : Uncounted(j) + faults <= Uncounted(j)' + faults'
        BY <1>2, <1>3, <2>4, <2>5
    <2>8. StoredTallies' /\ CountedTallies'
        <3>1. UNCHANGED <<most, made, stored, forgets>> /\ faults' \in Nat /\ count' = count
            BY <1>2, <1>4, <2>5
        <3> QED BY <3>1, <2>6, <2>7, TalliesKept
    <2> QED BY <2>2, <2>3, <2>8 DEF Tallies
<1>5. CASE /\ mode = "all" => ~Loop!Exhausted(k)
           /\ at' = Loop!Made(k) /\ made' = [made EXCEPT ![k] = @ + 1] /\ today' = today \cup {k}
    <2>1. made' \in [Loop!Visits -> Nat] /\ made'[k] = made[k] + 1
          /\ \A j \in Loop!Visits : j # k => made'[j] = made[j]
        BY <1>5, <1>1 DEF LoopNumbers
    <2>2. at' \in Loop!Points /\ at' # "off" /\ \A j \in Loop!Visits : at' # j /\ (at' = Loop!Made(j) => j = k)
        BY <1>5, LoopPoints DEF Loop!Points
    <2>3. LoopNumbers'
        BY <1>1, <1>2, <1>5, <2>1, <2>2 DEF LoopNumbers
    <2>4. count[k] < most[k]
        <3>1. CASE mode = "all"
            <4>1. ~(count[k] >= most[k])
                BY <3>1, <1>5 DEF Loop!Exhausted
            <4>2. count[k] \in Nat /\ most[k] \in Nat
                BY LoopRanges DEF LoopInv
            <4> QED BY <4>1, <4>2
        <3>2. CASE mode # "all"
            BY <3>2, <1>2 DEF LoopInv, BelowLimit
        <3> QED BY <3>1, <3>2
    <2>5. BelowLimit'
        BY <2>2, <2>4, <1>2 DEF BelowLimit
    <2>6. Uncounted(k)' = 1 /\ \A j \in Loop!Visits : j # k => Uncounted(j)' = 0
        BY <1>5, <2>2 DEF Uncounted
    <2>7. at # "off"
        BY <1>2, LoopPoints
    <2>8. ASSUME NEW j \in Loop!Visits
          PROVE  /\ made'[j] <= stored'[j] + most'[j] * forgets' + faults' + Uncounted(j)'
                 /\ made'[j] <= count'[j] + most'[j] * forgets' + faults' + Uncounted(j)'
        <3> DEFINE m == most[j] * forgets
                   n == made[j]
                   s == stored[j]
                   c == count[j]
        <3>1. /\ m \in Nat /\ s \in Nat /\ n \in Nat /\ c \in Nat /\ faults \in Nat
              /\ most'[j] * forgets' = m /\ stored'[j] = s /\ count'[j] = c /\ faults' = faults
            BY LoopRanges, <1>2 DEF LoopInv
        <3>2. n <= s + m + faults + Uncounted(j) /\ n <= c + m + faults + Uncounted(j)
            BY <2>7 DEF LoopInv, StoredTallies, CountedTallies
        <3>3. Uncounted(j) = 0
            BY <1>3
        <3>4. made'[j] = n + Uncounted(j)' /\ Uncounted(j)' \in {0, 1}
            BY <2>1, <2>6, <3>1
        <3> DEFINE u == Uncounted(j)'
        <3>5. n <= s + m + faults /\ n <= c + m + faults
            <4> HIDE DEF m, n, s, c
            <4> QED BY <3>1, <3>2, <3>3
        <3>6. u \in {0, 1} /\ made'[j] = n + u
            BY <3>4
        <3>7. n + u <= s + m + faults + u /\ n + u <= c + m + faults + u
            <4> HIDE DEF m, n, s, c, u
            <4> QED BY <3>1, <3>5, <3>6
        <3> HIDE DEF m, n, s, c
        <3> QED BY <3>1, <3>6, <3>7
    <2> QED BY <2>3, <2>5, <2>8 DEF Tallies, StoredTallies, CountedTallies
<1> QED BY <1>2, <1>4, <1>5

\* The visit is counted, in memory and, unless the storage fails, there.
LEMMA CountStep ==
    ASSUME LoopInv, UNCHANGED <<mode, limited, most>>, NEW k \in Loop!Visits, Loop!Count(k)
    PROVE  LoopNumbers' /\ Tallies'
<1>1. LoopNumbers /\ MaxFaults \in Nat
    BY LoopParts, LoopBounds DEF LoopInv, Loop!LoopAssumption
<1>2. /\ at = Loop!Made(k) /\ count' = [count EXCEPT ![k] = @ + 1] /\ at' = Loop!AfterVisit(k)
      /\ \/ stored' = [stored EXCEPT ![k] = count'[k]] /\ UNCHANGED faults
         \/ faults + forgets < MaxFaults /\ faults' = faults + 1 /\ UNCHANGED stored
      /\ UNCHANGED <<noHomeCount, made, today, starts, forgets>>
    BY DEF Loop!Count, Loop!Counts, Loop!Saves, Loop!Fault, Loop!tallies
<1>3. /\ count' \in [Loop!Visits -> Nat] /\ count'[k] = count[k] + 1
      /\ \A j \in Loop!Visits : j # k => count'[j] = count[j]
    BY <1>1, <1>2 DEF LoopNumbers
<1>4. at' \in {"keyword", "top"} /\ (at' = "keyword" => mode = "all") /\ at # "off"
    BY <1>2, LoopPoints DEF Loop!AfterVisit
<1>5. count[k] < most[k]
    BY <1>2 DEF LoopInv, BelowLimit
<1>6. /\ Uncounted(k) = 1 /\ \A j \in Loop!Visits : j # k => Uncounted(j) = 0
      /\ \A j \in Loop!Visits : Uncounted(j)' = 0
    BY <1>2, <1>4, LoopPoints DEF Uncounted
<1>7. \A j \in Loop!Visits : count'[j] <= most'[j]
    <2>1. count'[k] <= most[k]
        <3>1. count[k] \in Nat /\ most[k] \in Nat
            BY LoopRanges DEF LoopInv
        <3> QED BY <3>1, <1>3, <1>5
    <2> QED BY <2>1, <1>1, <1>3 DEF LoopNumbers
<1>8. /\ stored' \in [Loop!Visits -> Nat]
      /\ \/ stored'[k] = count'[k] /\ faults' = faults
         \/ stored'[k] = stored[k] /\ faults' = faults + 1
      /\ \A j \in Loop!Visits : j # k => stored'[j] = stored[j]
    <2>1. count'[k] \in Nat
        BY <1>3
    <2>2. CASE stored' = [stored EXCEPT ![k] = count'[k]] /\ UNCHANGED faults
        BY <2>1, <2>2, <1>1 DEF LoopNumbers
    <2>3. CASE UNCHANGED stored /\ faults' = faults + 1
        BY <2>3, <1>1 DEF LoopNumbers
    <2> QED BY <1>2, <2>2, <2>3
<1>9. LoopNumbers'
    <2>1. faults' \in 0..MaxFaults
        BY <1>1, <1>2 DEF LoopNumbers
    <2>2. \A j \in Loop!Visits : stored'[j] <= most'[j]
        BY <1>1, <1>2, <1>7, <1>8 DEF LoopNumbers
    <2>3. at' \in Loop!Points
        BY <1>4 DEF Loop!Points
    <2>4. stored' \in [Loop!Visits -> Nat]
        BY <1>8
    <2> QED BY <1>1, <1>2, <1>3, <1>7, <2>1, <2>2, <2>3, <2>4 DEF LoopNumbers
<1>10. BelowLimit'
    BY <1>4, LoopPoints DEF BelowLimit
<1>11. ASSUME NEW j \in Loop!Visits
       PROVE  /\ made'[j] <= stored'[j] + most'[j] * forgets' + faults' + Uncounted(j)'
              /\ made'[j] <= count'[j] + most'[j] * forgets' + faults' + Uncounted(j)'
    <2> DEFINE m == most[j] * forgets
               n == made[j]
               s == stored[j]
               c == count[j]
               sn == stored'[j]
               cn == count'[j]
               fn == faults'
    <2>1. /\ m \in Nat /\ s \in Nat /\ n \in Nat /\ c \in Nat /\ faults \in Nat
          /\ most'[j] * forgets' = m /\ made'[j] = n
        BY LoopRanges, <1>2 DEF LoopInv
    <2>2. n <= s + m + faults + Uncounted(j) /\ n <= c + m + faults + Uncounted(j)
        BY <1>4 DEF LoopInv, StoredTallies, CountedTallies
    <2>3. Uncounted(j)' = 0
        BY <1>6
    <2>4. (fn = faults \/ fn = faults + 1) /\ fn \in Nat
        BY <1>2, <2>1
    <2>5. CASE j = k
        <3>1. cn = c + 1 /\ Uncounted(j) = 1 /\ ((sn = cn /\ fn = faults) \/ (sn = s /\ fn = faults + 1))
            BY <2>5, <1>3, <1>6, <1>8
        <3>2. n <= sn + m + fn + 0 /\ n <= cn + m + fn + 0
            <4>1. n <= s + m + faults + 1 /\ n <= c + m + faults + 1
                BY <2>2, <3>1
            <4> HIDE DEF m, n, s, c, sn, cn, fn
            <4> QED BY <2>1, <2>4, <3>1, <4>1
        <3> QED BY <3>2, <2>1, <2>3
    <2>6. CASE j # k
        <3>1. cn = c /\ sn = s /\ Uncounted(j) = 0
            BY <2>6, <1>3, <1>6, <1>8
        <3>2. n <= sn + m + fn + 0 /\ n <= cn + m + fn + 0
            <4>1. n <= s + m + faults + 0 /\ n <= c + m + faults + 0
                BY <2>2, <3>1
            <4> HIDE DEF m, n, s, c, sn, cn, fn
            <4> QED BY <2>1, <2>4, <3>1, <4>1
        <3> QED BY <3>2, <2>1, <2>3
    <2> QED BY <2>5, <2>6
<1> QED BY <1>9, <1>10, <1>11 DEF Tallies, StoredTallies, CountedTallies

LEMMA LoopNextStep == LoopInv /\ [Loop!Next]_Loop!loopVars => LoopInv'
<1> SUFFICES ASSUME LoopInv, [Loop!Next]_Loop!loopVars PROVE LoopInv'
    OBVIOUS
<1>1. CASE UNCHANGED Loop!loopVars
    BY <1>1 DEF Loop!loopVars, LoopInv, Loop!TypeOK, BelowLimit, StoredTallies, CountedTallies, Uncounted
<1>2. CASE Loop!Next
    <2>1. LoopFlags /\ LoopSetup
        BY LoopParts DEF LoopInv
    <2>2. LoopFlags' /\ UNCHANGED <<mode, limited, most>>
        BY <1>2, <2>1, LoopFlagsStep
    <2>3. LoopSetup'
        BY <2>1, <2>2 DEF LoopSetup
    <2>4. LoopNumbers' /\ Tallies'
        BY <1>2, <2>2, StartStep, LoopQuietStep, NightStep, VisitStep, CountStep DEF Loop!Next, Loop!LoopStep
    <2>5. Loop!TypeOK'
        BY <2>2, <2>3, <2>4, Zenon DEF Loop!TypeOK, LoopFlags, LoopSetup, LoopNumbers
    <2> QED BY <2>4, <2>5 DEF LoopInv, Tallies
<1> QED BY <1>1, <1>2

\* What a script visits is what it may visit once, and once more for each start that could
\* not read the storage, and one for each visit that was stopped or not saved.
LEMMA QuotaFollows == LoopInv => QuotaKept
<1> SUFFICES ASSUME LoopInv, NEW k \in Loop!Visits
             PROVE  made[k] <= most[k] * (1 + forgets) + faults
    BY DEF QuotaKept, Loop!QuotaKept
<1> DEFINE m == most[k] * forgets
           n == made[k]
           s == stored[k]
           c == count[k]
           l == most[k]
<1>1. /\ m \in Nat /\ s \in Nat /\ n \in Nat /\ c \in Nat /\ l \in Nat /\ faults \in Nat /\ forgets \in Nat
      /\ s <= l /\ c <= l /\ most[k] * (forgets + 1) = m + l
    BY LoopRanges DEF LoopInv
<1>2. n <= s + m + faults + Uncounted(k)
    BY DEF LoopInv, StoredTallies
<1>3. n <= m + l + faults
    <2>1. CASE Uncounted(k) = 0
        <3>1. n <= s + m + faults + 0
            BY <2>1, <1>2
        <3> HIDE DEF m, n, s, c, l
        <3> QED BY <1>1, <3>1
    <2>2. CASE Uncounted(k) = 1
        <3>1. at = Loop!Made(k)
            BY <2>2 DEF Uncounted
        <3>2. at # "off"
            BY <3>1, LoopPoints
        <3>3. n <= c + m + faults + 1 /\ c < l
            BY <2>2, <3>1, <3>2 DEF LoopInv, CountedTallies, BelowLimit
        <3> HIDE DEF m, n, s, c, l
        <3> QED BY <1>1, <3>3
    <2> QED BY <2>1, <2>2 DEF Uncounted
<1>4. 1 + forgets = forgets + 1
    BY <1>1
<1> QED BY <1>1, <1>3, <1>4

\* douyin.js:459, 495 (hidcs): for any limits and any number of starts, a script makes no
\* more visits than its limit, and one for each stop between a visit and its count and for
\* each failing write, and the limit again for each failing read.
THEOREM QuotaIsKept == Loop!Spec => []QuotaKept
BY LoopStarts, LoopNextStep, QuotaFollows, PTL DEF Loop!Spec

\* The counters of the script are never above its limits.
THEOREM LoopTypes == Loop!Spec => []Loop!TypeOK
<1>1. LoopInv => Loop!TypeOK
    BY DEF LoopInv
<1> QED BY <1>1, LoopStarts, LoopNextStep, PTL DEF Loop!Spec

-----------------------------------------------------------------------------
(* ScreenStream: the types. A session whose timer is set has been armed.    *)

LEMMA StreamStarts == Stream!Init => Stream!TypeOK
BY StreamBounds DEF Stream!StreamAssumption, Stream!Init, Stream!TypeOK, Stream!Sessions, Stream!NoTimer,
                    Stream!NoSession, Stream!Stoppers, Stream!LoopStates

LEMMA StreamStep == Stream!TypeOK /\ [Stream!Next]_Stream!streamVars => Stream!TypeOK'
<1> SUFFICES ASSUME Stream!TypeOK, [Stream!Next]_Stream!streamVars PROVE Stream!TypeOK'
    OBVIOUS
<1> USE DEF Stream!TypeOK, Stream!LoopStates
<1>0. Stream!NoTimer \notin Stream!Sessions /\ Stream!NoSession \notin Stream!Sessions
    BY DEF Stream!NoTimer, Stream!NoSession, Stream!Sessions
<1>1. CASE Stream!Start
    BY <1>1 DEF Stream!Start
<1>2. CASE Stream!BeginSession
    BY <1>2, <1>0 DEF Stream!BeginSession
<1>3. CASE Stream!ArmFirst
    BY <1>3, <1>0 DEF Stream!ArmFirst
<1>4. ASSUME NEW s \in Stream!Sessions, Stream!LoopStep(s) PROVE Stream!TypeOK'
    <2>1. CASE Stream!Fire(s)
        BY <2>1, <1>0 DEF Stream!Fire
    <2>2. CASE Stream!Captured(s)
        BY <2>2, <1>0 DEF Stream!Captured
    <2>3. CASE Stream!ArmNext(s)
        BY <2>3, <1>0 DEF Stream!ArmNext
    <2> QED BY <1>4, <2>1, <2>2, <2>3 DEF Stream!LoopStep
<1>5. ASSUME NEW s \in Stream!Sessions, Stream!LimitReached(s) PROVE Stream!TypeOK'
    BY <1>5, <1>0 DEF Stream!LimitReached
<1>6. CASE Stream!StopCommand
    BY <1>6 DEF Stream!StopCommand
<1>7. ASSUME NEW t \in Stream!Stoppers, Stream!StopStep(t) PROVE Stream!TypeOK'
    <2>1. CASE Stream!CancelTimer(t)
        BY <2>1, <1>0 DEF Stream!CancelTimer
    <2>2. CASE Stream!EndSession(t)
        BY <2>2, <1>0 DEF Stream!EndSession
    <2> QED BY <1>7, <2>1, <2>2 DEF Stream!StopStep
<1>8. CASE UNCHANGED Stream!streamVars
    BY <1>8 DEF Stream!streamVars
<1> QED BY <1>1, <1>2, <1>3, <1>4, <1>5, <1>6, <1>7, <1>8 DEF Stream!Next, Stream!CommandStep

LEMMA StreamTypes == Stream!Spec => []Stream!TypeOK
BY StreamStarts, StreamStep, PTL DEF Stream!Spec

-----------------------------------------------------------------------------
(* WebTables: the types; a page that drops what it is asked for while a     *)
(* request is on its way has at most one of them.                           *)

OneRequest == view \in Tables!Guarded =>
    requests = {} \/ (requestInFlight /\ \E f \in Filters : requests = {f})

TableFlags == requestInFlight \in BOOLEAN /\ loading \in BOOLEAN

TableShape ==
    /\ view \in Tables!Views
    /\ want \in Filters \cup {NoFilter} /\ (want = NoFilter => view = "DeviceLogs")
    /\ shown \in Filters \cup {NoFilter} /\ requests \subseteq Filters
    /\ changes \in 0..MaxChanges /\ errors \in 0..MaxErrors

TablesInv == TableShape /\ TableFlags /\ OneRequest

LEMMA OneIsFew == TablesInv => Tables!TypeOK
<1> SUFFICES ASSUME TablesInv PROVE Tables!TypeOK
    OBVIOUS
<1>1. view \in Tables!Guarded => Cardinality(requests) <= 1
    <2> SUFFICES ASSUME view \in Tables!Guarded PROVE Cardinality(requests) <= 1
        OBVIOUS
    <2>1. CASE requests = {}
        BY <2>1, FS_EmptySet
    <2>2. ASSUME NEW f \in Filters, requests = {f} PROVE Cardinality(requests) <= 1
        <3>1. Cardinality({f}) = 1
            BY FS_Singleton
        <3> QED BY <2>2, <3>1
    <2> QED BY <2>1, <2>2 DEF TablesInv, OneRequest
<1>2. TableShape /\ TableFlags
    BY Zenon DEF TablesInv
<1>3. requestInFlight \in BOOLEAN /\ loading \in BOOLEAN
    BY <1>2, Zenon DEF TableFlags
<1>4. /\ view \in Tables!Views
      /\ want \in Filters \cup {NoFilter} /\ (want = NoFilter => view = "DeviceLogs")
      /\ shown \in Filters \cup {NoFilter} /\ requests \subseteq Filters
      /\ changes \in 0..MaxChanges /\ errors \in 0..MaxErrors
    BY <1>2, Zenon DEF TableShape
<1>5. Tables!Cardinality(requests) = Cardinality(requests)
    BY DEF Tables!Cardinality, Cardinality
<1> QED BY <1>1, <1>3, <1>4, <1>5, Zenon DEF Tables!TypeOK

LEMMA TablesStart == Tables!Init => TablesInv
<1> SUFFICES ASSUME Tables!Init PROVE TablesInv
    OBVIOUS
<1>1. TableShape
    BY TableBounds DEF Tables!TablesAssumption, Tables!Init, TableShape, Tables!Views
<1>2. TableFlags
    BY Zenon DEF Tables!Init, TableFlags
<1>3. OneRequest
    BY DEF Tables!Init, OneRequest
<1> QED BY <1>1, <1>2, <1>3 DEF TablesInv

\* A load asks for one more filter, unless a request is on its way already.
LEMMA LoadsOne ==
    ASSUME TablesInv, NEW f \in Filters \cup {NoFilter}, NEW silent \in BOOLEAN, Tables!LoadData(f, silent),
           UNCHANGED view
    PROVE  shown' \in Filters \cup {NoFilter} /\ requests' \subseteq Filters /\ TableFlags' /\ OneRequest'
<1>1. TableFlags'
    <2>1. CASE UNCHANGED <<requestInFlight, loading>>
        BY <2>1, Zenon DEF TablesInv, TableFlags
    <2>2. CASE requestInFlight' = (view \in Tables!Guarded) /\ loading' = (loading \/ ~silent)
        <3>1. \A b : (view \in b) \in BOOLEAN
            OBVIOUS
        <3>2. (loading \/ ~silent) \in BOOLEAN
            OBVIOUS
        <3> QED BY <2>2, <3>1, <3>2, Zenon DEF TableFlags
    <2> QED BY <2>1, <2>2, Zenon DEF Tables!LoadData
<1>2. shown' \in Filters \cup {NoFilter} /\ requests' \subseteq Filters
    BY DEF Tables!LoadData, TablesInv, TableShape
<1>3. OneRequest'
    <2>1. CASE UNCHANGED <<requests, requestInFlight>>
        BY <2>1 DEF TablesInv, OneRequest
    <2>2. CASE /\ f \in Filters /\ ~(view \in Tables!Guarded /\ requestInFlight)
               /\ requests' = requests \cup {f} /\ requestInFlight' = (view \in Tables!Guarded)
        <3> SUFFICES ASSUME view \in Tables!Guarded
                     PROVE  requestInFlight' /\ requests' = {f}
            BY <2>2 DEF OneRequest
        <3>1. requests = {}
            BY <2>2 DEF TablesInv, OneRequest
        <3> QED BY <2>2, <3>1
    <2> QED BY <2>1, <2>2 DEF Tables!LoadData
<1> QED BY <1>1, <1>2, <1>3

LEMMA TablesStep == TablesInv /\ [Tables!Next]_Tables!tableVars => TablesInv'
<1> SUFFICES ASSUME TablesInv, [Tables!Next]_Tables!tableVars PROVE TablesInv'
    OBVIOUS
<1>0. MaxChanges \in Nat /\ MaxErrors \in Nat
    BY TableBounds DEF Tables!TablesAssumption
<1>1. CASE Tables!Refresh
    <2>1. UNCHANGED <<view, want, changes, errors>> /\ want \in Filters \cup {NoFilter}
        BY <1>1 DEF Tables!Refresh, TablesInv, TableShape
    <2>2. Tables!LoadData(want, view \in Tables!Guarded)
        BY <1>1 DEF Tables!Refresh
    <2>3. (view \in Tables!Guarded) \in BOOLEAN
        OBVIOUS
    <2>4. shown' \in Filters \cup {NoFilter} /\ requests' \subseteq Filters /\ TableFlags' /\ OneRequest'
        BY <2>1, <2>2, <2>3, LoadsOne
    <2> QED BY <2>1, <2>4 DEF TablesInv, TableShape
<1>2. ASSUME NEW f \in Filters \cup {NoFilter}, Tables!ChangeFilter(f) PROVE TablesInv'
    <2>1. /\ UNCHANGED <<view, errors>> /\ want' = f /\ (f = NoFilter => view = "DeviceLogs")
          /\ changes < MaxChanges /\ changes' = changes + 1
        BY <1>2 DEF Tables!ChangeFilter
    <2>2. Tables!LoadData(f, FALSE)
        BY <1>2 DEF Tables!ChangeFilter
    <2>3. FALSE \in BOOLEAN
        BY Zenon
    <2>4. shown' \in Filters \cup {NoFilter} /\ requests' \subseteq Filters /\ TableFlags' /\ OneRequest'
        BY <2>1, <2>2, <2>3, LoadsOne
    <2>5. changes' \in 0..MaxChanges
        BY <2>1, <1>0 DEF TablesInv, TableShape
    <2> QED BY <2>1, <2>4, <2>5 DEF TablesInv, TableShape
<1>3. ASSUME NEW f \in Filters, Tables!Answer(f) PROVE TablesInv'
    <2>1. /\ f \in requests /\ requests' = requests \ {f} /\ UNCHANGED <<view, want, changes>>
          /\ shown' = f \/ shown' = shown
          /\ errors' = errors \/ (errors < MaxErrors /\ errors' = errors + 1)
        BY <1>3 DEF Tables!Answer
    <2>2. TableFlags'
        BY <1>3, Zenon DEF Tables!Answer, Tables!Reset, TableFlags
    <2>3. errors' \in 0..MaxErrors
        BY <2>1, <1>0 DEF TablesInv, TableShape
    <2>4. OneRequest'
        BY <2>1 DEF TablesInv, OneRequest
    <2> QED BY <2>1, <2>2, <2>3, <2>4 DEF TablesInv, TableShape
<1>4. CASE UNCHANGED Tables!tableVars
    BY <1>4 DEF Tables!tableVars, TablesInv, TableShape, TableFlags, OneRequest
<1> QED BY <1>1, <1>2, <1>3, <1>4 DEF Tables!Next

LEMMA TablesTypes == Tables!Spec => []Tables!TypeOK
BY TablesStart, TablesStep, OneIsFew, PTL DEF Tables!Spec

-----------------------------------------------------------------------------
(* MqttQoS1: the types. A packet gets an id that none in flight has, also   *)
(* when the ids go round.                                                   *)

\* The order of the naturals as a relation, for WFMin.
LEMMA LessIsWellFounded ==
    \E R : IsWellFoundedOn(R, Nat) /\ \A x, y \in Nat : y < x => <<y, x>> \in R
<1>1. \A x, y \in Nat : y < x => <<y, x>> \in OpToRel(<, Nat)
    BY SMT DEF OpToRel
<1>2. IsWellFoundedOn(OpToRel(<, Nat), Nat)
    BY NatLessThanWellFounded, Zenon
<1> QED BY <1>1, <1>2, Zenon

LEMMA Least ==
    ASSUME NEW T \in SUBSET Nat, T # {}
    PROVE  \E x \in T : \A y \in T : x <= y
<1>0. T \subseteq Nat
    OBVIOUS
<1>1. PICK R : IsWellFoundedOn(R, Nat) /\ \A x, y \in Nat : y < x => <<y, x>> \in R
    BY LessIsWellFounded
<1>2. \E x \in T : \A y \in T : ~(<<y, x>> \in R)
    BY <1>1, WFMin, Zenon
<1>3. \E x \in T : \A y \in T : ~(y < x)
    BY <1>0, <1>1, <1>2, Zenon
<1> QED BY <1>0, <1>3, SMT

LEMMA QoSConstants ==
    /\ PacketIds \in Nat /\ PacketIds > 0 /\ InflightLimit \in 1..PacketIds
    /\ SendLimit \in Nat /\ MaxCommands \in Nat /\ MaxAttempts \in Nat /\ MaxAttempts >= 1
BY QoSBounds DEF QoS!QoSAssumption

\* With fewer packets in flight than there are ids, one is free.
LEMMA SomeIdIsFree ==
    ASSUME QoS!TypeOK, ~(QoS!InflightCount >= InflightLimit)
    PROVE  \E j \in QoS!Ids : ~QoS!Inflight(j)
<1> SUFFICES ASSUME \A j \in QoS!Ids : QoS!Inflight(j) PROVE FALSE
    OBVIOUS
<1>1. {i \in QoS!Ids : QoS!Inflight(i)} = 1..PacketIds
    BY DEF QoS!Ids
<1>2. Cardinality(1..PacketIds) = PacketIds
    BY QoSConstants, FS_Interval
<1>3. QoS!Cardinality(1..PacketIds) = Cardinality(1..PacketIds)
    BY DEF QoS!Cardinality, Cardinality
<1>4. QoS!InflightCount = PacketIds
    BY <1>1, <1>2, <1>3 DEF QoS!InflightCount
<1> QED BY <1>4, QoSConstants

LEMMA IdAfterIsFree ==
    ASSUME NEW i \in 0..PacketIds, \E j \in QoS!Ids : ~QoS!Inflight(j)
    PROVE  QoS!IdAfter(i) \in QoS!Ids /\ ~QoS!Inflight(QoS!IdAfter(i))
<1> DEFINE d(k) == (k - i - 1) % PacketIds
           free == {k \in QoS!Ids : ~QoS!Inflight(k)}
           T == {d(k) : k \in free}
<1>1. \A k \in QoS!Ids : d(k) \in Nat
    BY QoSConstants DEF QoS!Ids
<1>2. T \in SUBSET Nat /\ T # {}
    <2> HIDE DEF d
    <2> QED BY <1>1
<1>3. PICK x \in T : \A y \in T : x <= y
    <2> HIDE DEF T
    <2> QED BY <1>2, Least
<1>4. PICK j \in free : d(j) = x
    <2> HIDE DEF d
    <2> QED BY <1>3
<1>5. \A k \in free : d(j) <= d(k)
    <2> HIDE DEF d
    <2> QED BY <1>3, <1>4
<1>6. \E a \in QoS!Ids : ~QoS!Inflight(a) /\
          \A k \in QoS!Ids : ~QoS!Inflight(k) => (a - i - 1) % PacketIds <= (k - i - 1) % PacketIds
    BY <1>4, <1>5, Zenon
<1> QED BY <1>6, Zenon DEF QoS!IdAfter

\* What a packet's entry may be.
QoSEntries == [attempts: 0..MaxAttempts, due: BOOLEAN]
Packets == /\ pending \in [QoS!Ids -> QoSEntries]
           /\ nextId \in 0..PacketIds /\ bridge \in 0..PacketIds
           /\ retries \in SUBSET QoS!Ids /\ device \subseteq QoS!Ids /\ published \in 0..MaxCommands
Sending == send \in Seq(QoS!Ids) /\ Len(send) <= SendLimit

LEMMA QoSParts == QoS!TypeOK <=> Packets /\ Sending /\ open \in BOOLEAN
BY Zenon DEF QoS!TypeOK, Packets, QoSEntries, Sending

LEMMA QoSEntry ==
    /\ \A n \in 0..MaxAttempts : \A b \in BOOLEAN : [attempts |-> n, due |-> b] \in QoSEntries
    /\ QoS!NotPending \in QoSEntries /\ [attempts |-> 1, due |-> FALSE] \in QoSEntries
BY QoSConstants DEF QoSEntries, QoS!NotPending

LEMMA QoSStarts == QoS!Init => QoS!TypeOK
<1> SUFFICES ASSUME QoS!Init PROVE QoS!TypeOK
    OBVIOUS
<1>1. Packets
    BY QoSConstants, QoSEntry DEF QoS!Init, Packets
<1>2. Sending
    BY QoSConstants DEF QoS!Init, Sending
<1>3. open \in BOOLEAN
    BY Zenon DEF QoS!Init
<1> QED BY <1>1, <1>2, <1>3, QoSParts

LEMMA EnqueueSends ==
    ASSUME QoS!TypeOK, NEW i \in QoS!Ids, QoS!Enqueues(i)
    PROVE  Sending' /\ open' \in BOOLEAN
<1>1. open' \in BOOLEAN
    BY Zenon DEF QoS!Enqueues
<1>2. Sending'
    <2>1. CASE send' = send
        BY <2>1, QoSParts DEF Sending
    <2>2. CASE Len(send) # SendLimit /\ send' = Append(send, i)
        BY <2>2, QoSParts, QoSConstants DEF Sending
    <2> QED BY <2>1, <2>2 DEF QoS!Enqueues, QoS!Full
<1> QED BY <1>1, <1>2

LEMMA QoSStep == QoS!TypeOK /\ [QoS!Next]_QoS!qosVars => QoS!TypeOK'
<1> SUFFICES ASSUME QoS!TypeOK, [QoS!Next]_QoS!qosVars PROVE Packets' /\ Sending' /\ open' \in BOOLEAN
    BY Zenon DEF QoS!TypeOK, Packets, QoSEntries, Sending
<1>0. Packets /\ Sending /\ open \in BOOLEAN
    BY QoSParts
<1>1. CASE QoS!Publish
    <2>0. Sending' /\ retries' = retries /\ device' = device /\ published' \in 0..MaxCommands
        BY <1>1, <1>0, QoSConstants DEF QoS!Publish, Packets, Sending
    <2>1. CASE QoS!InflightCount >= InflightLimit
        <3>1. open' \in BOOLEAN
            BY <1>1, <2>1, Zenon DEF QoS!Publish
        <3>2. UNCHANGED <<pending, nextId, bridge>>
            BY <1>1, <2>1 DEF QoS!Publish
        <3> QED BY <2>0, <3>1, <3>2, <1>0 DEF Packets
    <2>2. CASE ~(QoS!InflightCount >= InflightLimit)
        <3> DEFINE id == QoS!IdAfter(nextId)
        <3>1. id \in QoS!Ids
            BY <2>2, <1>0, SomeIdIsFree, IdAfterIsFree DEF Packets
        <3>2. /\ nextId' = id /\ bridge' = id /\ open' = open
              /\ pending' = [pending EXCEPT ![id] = [attempts |-> 1, due |-> FALSE]]
            BY <1>1, <2>2 DEF QoS!Publish
        <3> HIDE DEF id
        <3>3. pending' \in [QoS!Ids -> QoSEntries]
            BY <3>2, <1>0, QoSEntry DEF Packets
        <3>4. nextId' \in 0..PacketIds /\ bridge' \in 0..PacketIds
            BY <3>1, <3>2 DEF QoS!Ids
        <3>5. open' \in BOOLEAN
            BY <3>2, <1>0, Zenon
        <3> QED BY <2>0, <3>3, <3>4, <3>5, <1>0 DEF Packets
    <2> QED BY <2>1, <2>2
<1>2. CASE QoS!Bridge
    <2>1. bridge \in QoS!Ids
        BY <1>2, <1>0, QoSConstants DEF QoS!Bridge, Packets, QoS!Ids
    <2>2. Sending' /\ open' \in BOOLEAN
        BY <2>1, <1>2, EnqueueSends DEF QoS!Bridge
    <2>3. pending' \in [QoS!Ids -> QoSEntries]
        BY <1>2, <1>0, QoSEntry DEF QoS!Bridge, Packets
    <2>4. bridge' \in 0..PacketIds
        BY <1>2, QoSConstants DEF QoS!Bridge
    <2> QED BY <2>2, <2>3, <2>4, <1>2, <1>0 DEF QoS!Bridge, Packets
<1>3. ASSUME NEW i \in QoS!Ids, QoS!FallsDue(i) PROVE Packets' /\ Sending' /\ open' \in BOOLEAN
    <2>1. ASSUME NEW M, NEW e \in [attempts : M, due : BOOLEAN]
          PROVE  [e EXCEPT !.due = TRUE] \in [attempts : M, due : BOOLEAN]
        BY <2>1, Zenon
    <2>2. pending[i] \in QoSEntries
        BY <1>0 DEF Packets
    <2>3. [pending[i] EXCEPT !.due = TRUE] \in QoSEntries
        BY <2>1, <2>2 DEF QoSEntries
    <2>4. pending' = [pending EXCEPT ![i] = [pending[i] EXCEPT !.due = TRUE]]
        BY <1>3 DEF QoS!FallsDue
    <2>5. pending' \in [QoS!Ids -> QoSEntries]
        BY <2>3, <2>4, <1>0 DEF Packets
    <2>6. UNCHANGED <<nextId, bridge, retries, send, open, device, published>>
        BY <1>3 DEF QoS!FallsDue
    <2>7. open' \in BOOLEAN
        BY <2>6, <1>0, Zenon
    <2> QED BY <2>5, <2>6, <2>7, <1>0 DEF Packets, Sending
<1>4. CASE QoS!RetryTick
    <2>0. UNCHANGED <<nextId, bridge, send, device, published>> /\ open' \in BOOLEAN
        <3>1. open' = open \/ open' = FALSE
            BY <1>4, Zenon DEF QoS!RetryTick
        <3>2. open' \in BOOLEAN
            BY <3>1, <1>0, Zenon
        <3> QED BY <3>2, <1>4 DEF QoS!RetryTick
    <2>1. CASE QoS!Spent = {}
        <3>1. retries' \in SUBSET QoS!Ids
            BY <1>4, <2>1 DEF QoS!RetryTick, QoS!DueNow
        <3>2. ASSUME NEW i \in QoS!DueNow PROVE QoS!Retried(pending[i]) \in QoSEntries
            <4>1. i \in QoS!Ids /\ ~(pending[i].attempts >= MaxAttempts)
                BY <3>2, <2>1 DEF QoS!Spent, QoS!DueNow
            <4>2. pending[i].attempts + 1 \in 0..MaxAttempts
                BY <4>1, <1>0, QoSConstants DEF Packets, QoSEntries
            <4> QED BY <4>2, QoSEntry DEF QoS!Retried
        <3>3. pending' = [i \in QoS!Ids |-> IF i \in QoS!DueNow THEN QoS!Retried(pending[i]) ELSE pending[i]]
            BY <1>4, <2>1 DEF QoS!RetryTick
        <3>4. pending' \in [QoS!Ids -> QoSEntries]
            <4>1. \A i \in QoS!Ids : pending[i] \in QoSEntries
                BY <1>0 DEF Packets
            <4> HIDE DEF QoSEntries
            <4> QED BY <3>2, <3>3, <4>1
        <3> QED BY <2>0, <3>1, <3>4, <1>0 DEF Packets, Sending
    <2>2. CASE QoS!Spent # {}
        <3>1. UNCHANGED <<pending, retries>>
            BY <1>4, <2>2 DEF QoS!RetryTick
        <3> QED BY <2>0, <3>1, <1>0 DEF Packets, Sending
    <2> QED BY <2>1, <2>2
<1>5. ASSUME NEW i \in QoS!Ids, QoS!RetrySend(i) PROVE Packets' /\ Sending' /\ open' \in BOOLEAN
    <2>1. Sending' /\ open' \in BOOLEAN
        BY <1>5, EnqueueSends DEF QoS!RetrySend
    <2> QED BY <2>1, <1>5, <1>0 DEF QoS!RetrySend, Packets
<1>6. CASE QoS!Write
    <2>1. Sending' /\ Head(send) \in QoS!Ids
        BY <1>6, <1>0, QoSConstants DEF QoS!Write, Sending
    <2>2. open' = open \/ open' = FALSE
        BY <1>6, Zenon DEF QoS!Write
    <2>3. open' \in BOOLEAN
        BY <2>2, <1>0, Zenon
    <2> QED BY <2>1, <2>3, <1>6, <1>0 DEF QoS!Write, Packets
<1>7. ASSUME NEW i \in QoS!Ids, QoS!PubAck(i) PROVE Packets' /\ Sending' /\ open' \in BOOLEAN
    <2>1. pending' \in [QoS!Ids -> QoSEntries]
        BY <1>7, <1>0, QoSEntry DEF QoS!PubAck, Packets
    <2>2. open' \in BOOLEAN
        BY <1>7, <1>0, Zenon DEF QoS!PubAck
    <2> QED BY <2>1, <2>2, <1>7, <1>0 DEF QoS!PubAck, Packets, Sending
<1>8. CASE UNCHANGED QoS!qosVars
    BY <1>8, <1>0 DEF QoS!qosVars, Packets, Sending
<1> QED BY <1>1, <1>2, <1>3, <1>4, <1>5, <1>6, <1>7, <1>8 DEF QoS!Next

LEMMA QoSTypes == QoS!Spec => []QoS!TypeOK
BY QoSStarts, QoSStep, PTL DEF QoS!Spec

-----------------------------------------------------------------------------
(* WebSession: the types. A token the server accepts is one it gave out.    *)

WebFlags == isAuthenticated \in BOOLEAN /\ checking \in BOOLEAN /\ authErrorFlag \in BOOLEAN
WebTokens ==
    /\ token \in Tokens \cup {NoToken} /\ user \in Tokens \cup {NoToken}
    /\ page \in {"login", "app"}
    /\ issued \subseteq Tokens /\ valid \subseteq issued
    /\ events \in 0..MaxEvents

LEMMA WebParts == Web!TypeOK <=> WebFlags /\ WebTokens /\ calls \subseteq Web!Call
BY Zenon DEF Web!TypeOK, WebFlags, WebTokens

\* A request and its reply.
LEMMA CallFacts ==
    /\ token \in Tokens \cup {NoToken} => \A k \in Web!Kinds : Web!Request(k) \in Web!Call
    /\ \A c \in Web!Call : \A r \in {"none", "ok", "401", "error"} : [c EXCEPT !.reply = r] \in Web!Call
    /\ \A c \in Web!Call : \A t \in Tokens : [c EXCEPT !.reply = "ok", !.with = t] \in Web!Call
    /\ \A c \in Web!Call : c.with \in Tokens \cup {NoToken}
BY DEF Web!Call, Web!Request

LEMMA WebStarts == Web!Init => Web!TypeOK
<1> SUFFICES ASSUME Web!Init PROVE WebFlags /\ WebTokens /\ calls \subseteq Web!Call
    BY WebParts
<1>1. WebFlags
    BY Zenon DEF Web!Init, WebFlags
<1>2. WebTokens /\ calls \subseteq Web!Call
    BY WebBounds DEF Web!SessionAssumption, Web!Init, WebTokens
<1> QED BY <1>1, <1>2

\* An answer leaves the other calls, and whatever was done before.
LEMMA AnswerStep ==
    ASSUME Web!TypeOK, NEW c \in calls, Web!AnyAnswer(c)
    PROVE  WebFlags' /\ WebTokens' /\ (calls \subseteq Web!Call)'
<1>0. WebFlags /\ WebTokens /\ calls \subseteq Web!Call /\ c \in Web!Call /\ c.with \in Tokens \cup {NoToken}
    BY WebParts, CallFacts
<1>c. Web!Answered(c) => (calls \subseteq Web!Call)'
    BY <1>0 DEF Web!Answered
<1>e. Web!Event => events' \in 0..MaxEvents
    BY <1>0, WebBounds DEF WebTokens, Web!Event, Web!SessionAssumption
<1>1. CASE Web!Serve(c)
    <2>1. WebFlags'
        <3>1. UNCHANGED <<isAuthenticated, checking, authErrorFlag>>
            BY <1>1 DEF Web!Serve, Web!session
        <3> QED BY <3>1, <1>0, Zenon DEF WebFlags
    <2>2. UNCHANGED <<token, user, page>>
        BY <1>1 DEF Web!Serve, Web!session
    <2>3. PICK d \in Web!Call : calls' = (calls \ {c}) \cup {d}
        <3>1. CASE c.kind = "login" /\ \E t \in Tokens \ issued : calls' = (calls \ {c}) \cup {[c EXCEPT !.reply = "ok", !.with = t]}
            BY <3>1, <1>0, CallFacts
        <3>2. CASE calls' = (calls \ {c}) \cup {[c EXCEPT !.reply = IF c.with \in valid THEN "ok" ELSE "401"]}
            <4> DEFINE r == IF c.with \in valid THEN "ok" ELSE "401"
            <4>1. r \in {"none", "ok", "401", "error"} /\ calls' = (calls \ {c}) \cup {[c EXCEPT !.reply = r]}
                BY <3>2
            <4> HIDE DEF r
            <4> QED BY <4>1, <1>0, CallFacts
        <3>3. ASSUME NEW r \in {"ok", "error"}, calls' = (calls \ {c}) \cup {[c EXCEPT !.reply = r]}
              PROVE  \E d \in Web!Call : calls' = (calls \ {c}) \cup {d}
            <4>1. r \in {"none", "ok", "401", "error"} /\ calls' = (calls \ {c}) \cup {[c EXCEPT !.reply = r]}
                BY <3>3
            <4> QED BY <4>1, <1>0, CallFacts
        <3> QED BY <1>1, <3>1, <3>2, <3>3
            DEF Web!Serve, Web!ServeLogin, Web!ServeLogout, Web!ServeGuarded, Web!Fails, Web!Reply
    <2>4. issued' \subseteq Tokens /\ valid' \subseteq issued'
        BY <1>1, <1>0 DEF Web!Serve, Web!ServeLogin, Web!ServeLogout, Web!ServeGuarded, Web!Fails, Web!Reply, Web!server, WebTokens
    <2>5. events' \in 0..MaxEvents
        BY <1>1, <1>0, <1>e DEF Web!Serve, WebTokens
    <2> QED BY <2>1, <2>2, <2>3, <2>4, <2>5, <1>0 DEF WebTokens
<1>2. CASE Web!LoginAnswer(c)
    <2>1. WebFlags'
        BY <1>2, <1>0, Zenon DEF Web!LoginAnswer, Web!session, WebFlags
    <2>2. WebTokens'
        BY <1>2, <1>0 DEF Web!LoginAnswer, Web!session, Web!server, WebTokens
    <2> QED BY <1>2, <1>c, <2>1, <2>2 DEF Web!LoginAnswer
<1>3. CASE Web!LogoutAnswer(c)
    <2>1. WebFlags'
        BY <1>3, <1>0, Zenon DEF Web!LogoutAnswer, Web!ClearSession, WebFlags
    <2>2. WebTokens'
        BY <1>3, <1>0 DEF Web!LogoutAnswer, Web!ClearSession, Web!server, WebTokens
    <2> QED BY <1>3, <1>c, <2>1, <2>2 DEF Web!LogoutAnswer
<1>4. CASE Web!InfoAnswer(c)
    <2>1. WebFlags'
        <3>1. checking' \in BOOLEAN
            BY <1>4 DEF Web!InfoAnswer, Web!StartsCheck
        <3>2. isAuthenticated' \in BOOLEAN /\ authErrorFlag' \in BOOLEAN
            BY <1>4, <1>0, Zenon DEF Web!InfoAnswer, Web!ClearSession, WebFlags
        <3> QED BY <3>1, <3>2 DEF WebFlags
    <2>2. WebTokens'
        BY <1>4, <1>0 DEF Web!InfoAnswer, Web!ClearSession, Web!server, WebTokens
    <2> QED BY <1>4, <1>c, <2>1, <2>2 DEF Web!InfoAnswer
<1>5. CASE Web!Answer(c)
    <2>1. WebFlags'
        BY <1>5, <1>0, Zenon DEF Web!Answer, Web!HandleAuthError, Web!ClearSession, Web!session, WebFlags
    <2>2. WebTokens'
        BY <1>5, <1>0 DEF Web!Answer, Web!HandleAuthError, Web!ClearSession, Web!session, Web!server, WebTokens
    <2> QED BY <1>5, <1>c, <2>1, <2>2 DEF Web!Answer
<1> QED BY <1>1, <1>2, <1>3, <1>4, <1>5 DEF Web!AnyAnswer

LEMMA WebStep == Web!TypeOK /\ [Web!Next]_Web!webVars => Web!TypeOK'
<1> SUFFICES ASSUME Web!TypeOK, [Web!Next]_Web!webVars
             PROVE  WebFlags' /\ WebTokens' /\ (calls \subseteq Web!Call)'
    BY Zenon DEF Web!TypeOK, WebFlags, WebTokens
<1>0. WebFlags /\ WebTokens /\ calls \subseteq Web!Call
    BY WebParts
<1>s. ASSUME NEW k \in Web!Kinds, Web!Sends(k) PROVE (calls \subseteq Web!Call)'
    <2>1. Web!Request(k) \in Web!Call
        BY <1>0, CallFacts DEF WebTokens
    <2> QED BY <2>1, <1>0, <1>s DEF Web!Sends
<1>e. Web!Event => events' \in 0..MaxEvents
    BY <1>0, WebBounds DEF WebTokens, Web!Event, Web!SessionAssumption
<1>1. CASE Web!Login \/ Web!Check \/ Web!Load
    <2>1. WebFlags'
        <3>1. UNCHANGED <<isAuthenticated, checking, authErrorFlag>>
            BY <1>1 DEF Web!Login, Web!Check, Web!Load, Web!session
        <3> QED BY <3>1, <1>0, Zenon DEF WebFlags
    <2>2. WebTokens'
        BY <1>1, <1>0 DEF Web!Login, Web!Check, Web!Load, Web!session, Web!server, WebTokens
    <2>3. (calls \subseteq Web!Call)'
        BY <1>1, <1>s DEF Web!Login, Web!Check, Web!Load, Web!Kinds
    <2> QED BY <2>1, <2>2, <2>3
<1>2. CASE Web!Logout
    <2>1. WebFlags'
        BY <1>2, <1>0, Zenon DEF Web!Logout, Web!session, WebFlags
    <2>2. WebTokens'
        BY <1>2, <1>0, <1>e DEF Web!Logout, Web!Guard, Web!session, Web!server, WebTokens
    <2>3. (calls \subseteq Web!Call)'
        BY <1>2, <1>s DEF Web!Logout, Web!Kinds
    <2> QED BY <2>1, <2>2, <2>3
<1>3. CASE Web!Navigate \/ Web!FlagClears
    <2>1. WebFlags'
        BY <1>3, <1>0, Zenon DEF Web!Navigate, Web!FlagClears, Web!session, WebFlags
    <2>2. WebTokens' /\ (calls \subseteq Web!Call)'
        BY <1>3, <1>0 DEF Web!Navigate, Web!FlagClears, Web!Guard, Web!session, Web!server, WebTokens
    <2> QED BY <2>1, <2>2
<1>4. CASE Web!Reload
    <2>1. WebFlags'
        BY <1>4 DEF Web!Reload, WebFlags
    <2>2. WebTokens'
        BY <1>4, <1>0, <1>e DEF Web!Reload, Web!server, WebTokens
    <2>3. (calls \subseteq Web!Call)'
        <3>1. Web!Request("info") \in Web!Call
            BY <1>0, CallFacts DEF WebTokens, Web!Kinds
        <3> QED BY <3>1, <1>4 DEF Web!Reload
    <2> QED BY <2>1, <2>2, <2>3
<1>5. ASSUME NEW c \in calls, Web!AnyAnswer(c) PROVE WebFlags' /\ WebTokens' /\ (calls \subseteq Web!Call)'
    BY <1>5, AnswerStep
<1>6. ASSUME NEW t \in valid, Web!Revoke(t) PROVE WebFlags' /\ WebTokens' /\ (calls \subseteq Web!Call)'
    <2>1. WebFlags'
        <3>1. UNCHANGED <<isAuthenticated, checking, authErrorFlag>>
            BY <1>6 DEF Web!Revoke, Web!session
        <3> QED BY <3>1, <1>0, Zenon DEF WebFlags
    <2> QED BY <2>1, <1>6, <1>0, <1>e DEF Web!Revoke, Web!session, WebTokens
<1>7. CASE UNCHANGED Web!webVars
    <2>1. WebFlags'
        <3>1. UNCHANGED <<isAuthenticated, checking, authErrorFlag>>
            BY <1>7 DEF Web!webVars
        <3> QED BY <3>1, <1>0, Zenon DEF WebFlags
    <2> QED BY <2>1, <1>7, <1>0 DEF Web!webVars, WebTokens
<1> QED BY <1>1, <1>2, <1>3, <1>4, <1>5, <1>6, <1>7 DEF Web!Next

LEMMA WebTypes == Web!Spec => []Web!TypeOK
BY WebStarts, WebStep, PTL DEF Web!Spec

-----------------------------------------------------------------------------
(* MqttLink: lengths of packets, and the types with the lock of a write.    *)

LEMMA Powers ==
    /\ Link!Power128(0) = 1 /\ Link!Power128(1) = 128
    /\ Link!Power128(2) = 16384 /\ Link!Power128(3) = 2097152
BY DEF Link!Power128

\* What Digits counts.
LEMMA DigitsFacts ==
    ASSUME NEW n \in Nat
    PROVE  /\ Link!Digits(n) \in 1..4
           /\ Link!Digits(n) # 4 => n < Link!Power128(Link!Digits(n))
           /\ Link!Digits(n) # 1 => n >= Link!Power128(Link!Digits(n) - 1)
<1> DEFINE P(k) == (k = 4 \/ n < Link!Power128(k)) /\ (k = 1 \/ n >= Link!Power128(k - 1))
<1>1. \E k \in 1..4 : P(k)
    <2>1. CASE n < 128
        <3>1. P(1)
            BY <2>1, Powers
        <3> QED BY <3>1
    <2>2. CASE n >= 128 /\ n < 16384
        <3>1. P(2)
            BY <2>2, Powers
        <3> QED BY <3>1
    <2>3. CASE n >= 16384 /\ n < 2097152
        <3>1. P(3)
            BY <2>3, Powers
        <3> QED BY <3>1
    <2>4. CASE n >= 2097152
        <3>1. P(4)
            BY <2>4, Powers
        <3> QED BY <3>1
    <2> QED BY <2>1, <2>2, <2>3, <2>4
<1>2. Link!Digits(n) = CHOOSE k \in 1..4 : P(k)
    BY DEF Link!Digits
<1> HIDE DEF P
<1>3. Link!Digits(n) \in 1..4 /\ P(Link!Digits(n))
    BY <1>1, <1>2
<1> QED BY <1>3 DEF P

\* The bytes of a length: all but the last have the eighth bit set.
LEMMA EncodeFacts ==
    ASSUME NEW n \in Nat
    PROVE  /\ Len(Link!Encode(n)) = Link!Digits(n)
           /\ \A i \in 1..Link!Digits(n) :
                /\ Link!Digit(n, i) \in 0..127
                /\ Link!Encode(n)[i] = Link!Digit(n, i) + (IF i < Link!Digits(n) THEN 128 ELSE 0)
<1> DEFINE d == Link!Digits(n)
           f == [i \in 1..d |-> Link!Digit(n, i) + (IF i < d THEN 128 ELSE 0)]
<1>1. d \in 1..4
    BY DigitsFacts
<1>2. Link!Encode(n) = f
    BY DEF Link!Encode
<1>3. ASSUME NEW i \in 1..d PROVE Link!Digit(n, i) \in 0..127
    <2>1. i - 1 \in 0..3
        BY <1>1
    <2>2. Link!Power128(i - 1) \in Nat \ {0}
        BY <2>1, Powers
    <2> DEFINE q == n \div Link!Power128(i - 1)
    <2>3. q \in Int
        BY <2>2
    <2>4. q % 128 \in 0..127
        <3> HIDE DEF q
        <3> QED BY <2>3
    <2> QED BY <2>4 DEF Link!Digit
<1>4. f \in [1..d -> Nat]
    <2> HIDE DEF d
    <2> QED BY <1>1, <1>3
<1>5. f \in Seq(Nat) /\ Len(f) = d
    <2> HIDE DEF d, f
    <2> QED BY <1>1, <1>4
<1>6. \A i \in 1..d : f[i] = Link!Digit(n, i) + (IF i < d THEN 128 ELSE 0)
    <2> HIDE DEF d
    <2> QED OBVIOUS
<1> HIDE DEF f
<1> QED BY <1>2, <1>3, <1>5, <1>6 DEF d

\* The lengths that four digits of seven bits can say.
Lengths4 == {n \in Nat : n < 128 * Link!Power128(3)}

LEMMA SevenBits ==
    ASSUME NEW n \in Lengths4
    PROVE  /\ n < 128 => n = n % 128
           /\ n < 16384 => n = (n % 128) + ((n \div 128) % 128) * 128
           /\ n < 2097152 => n = (n % 128) + ((n \div 128) % 128) * 128 + ((n \div 16384) % 128) * 16384
           /\ n = (n % 128) + ((n \div 128) % 128) * 128 + ((n \div 16384) % 128) * 16384
                    + ((n \div 2097152) % 128) * 2097152
BY Powers, SMT DEF Lengths4

\* mqtt_transport.js, _readRemainingLength and _readPacket: the reader understands every
\* length the writer can write, and refuses those above the limit and no other.
THEOREM LengthsSurvive ==
    ASSUME NEW n \in Lengths4
    PROVE  Link!Decode(Link!Encode(n)) = IF n > Link!MaxPacket THEN Link!Refused ELSE n
<1> DEFINE d == Link!Digits(n)
           bytes == Link!Encode(n)
           ends == {i \in 1..Len(bytes) : i <= 4 /\ bytes[i] < 128}
           k == CHOOSE i \in ends : \A j \in ends : i <= j
           digit(i) == IF i <= k THEN (bytes[i] % 128) * Link!Power128(i - 1) ELSE 0
           value == digit(1) + digit(2) + digit(3) + digit(4)
<1>0. n \in Nat
    BY DEF Lengths4
<1>1. d \in 1..4 /\ Len(bytes) = d
    BY <1>0, DigitsFacts, EncodeFacts
<1>2. \A i \in 1..d : /\ Link!Digit(n, i) \in 0..127
                      /\ bytes[i] = Link!Digit(n, i) + (IF i < d THEN 128 ELSE 0)
    BY <1>0, EncodeFacts
<1>3. ends = {d}
    <2>1. \A i \in 1..d : bytes[i] < 128 <=> i = d
        <3>1. ASSUME NEW i \in 1..d PROVE bytes[i] < 128 <=> i = d
            <4> DEFINE x == Link!Digit(n, i)
            <4>1. x \in 0..127 /\ bytes[i] = x + (IF i < d THEN 128 ELSE 0)
                BY <1>2
            <4> HIDE DEF x, bytes, d
            <4> QED BY <4>1, <1>1
        <3> QED BY <3>1
    <2> HIDE DEF bytes, d
    <2> QED BY <1>1, <2>1
<1>4. k = d
    <2> HIDE DEF ends, d
    <2> QED BY <1>3
<1>5. ASSUME NEW i \in 1..4
      PROVE  digit(i) = IF i <= d THEN Link!Digit(n, i) * Link!Power128(i - 1) ELSE 0
    <2>1. CASE i <= d
        <3> DEFINE x == Link!Digit(n, i)
        <3>1. x \in 0..127 /\ bytes[i] = x + (IF i < d THEN 128 ELSE 0)
            BY <2>1, <1>2
        <3>2. bytes[i] % 128 = x
            <4> HIDE DEF x, bytes, d
            <4> QED BY <3>1
        <3>3. i <= k
            BY <2>1, <1>4
        <3> HIDE DEF bytes, k, d
        <3> QED BY <2>1, <3>2, <3>3
    <2>2. CASE ~(i <= d)
        <3>1. ~(i <= k)
            BY <2>2, <1>4
        <3> HIDE DEF bytes, k, d
        <3> QED BY <2>2, <3>1
    <2> QED BY <2>1, <2>2
<1> DEFINE t(i) == Link!Digit(n, i) * Link!Power128(i - 1)
<1>6. /\ n < Link!Power128(1) => n = t(1)
      /\ n < Link!Power128(2) => n = t(1) + t(2)
      /\ n < Link!Power128(3) => n = t(1) + t(2) + t(3)
      /\ n = t(1) + t(2) + t(3) + t(4)
      /\ t(1) \in Int /\ t(2) \in Int /\ t(3) \in Int
    <2>1. /\ t(1) = n % 128 /\ t(2) = ((n \div 128) % 128) * 128
          /\ t(3) = ((n \div 16384) % 128) * 16384 /\ t(4) = ((n \div 2097152) % 128) * 2097152
        BY <1>0, Powers, SMT DEF Link!Digit
    <2> HIDE DEF t
    <2> QED BY <2>1, <1>0, SevenBits, Powers, SMT
<1>7. value = n
    <2>1. d # 4 => n < Link!Power128(d)
        BY <1>0, DigitsFacts
    <2>2. /\ digit(1) = t(1)
          /\ digit(2) = IF 2 <= d THEN t(2) ELSE 0
          /\ digit(3) = IF 3 <= d THEN t(3) ELSE 0
          /\ digit(4) = IF 4 <= d THEN t(4) ELSE 0
        <3>1. \A i \in 1..4 : digit(i) = IF i <= d THEN t(i) ELSE 0
            BY <1>5
        <3> HIDE DEF digit, t, d
        <3> QED BY <3>1, <1>1
    <2> HIDE DEF digit, d, t
    <2> QED BY <2>1, <2>2, <1>1, <1>6, SMT
<1>8. Link!Decode(bytes) = IF ends = {} \/ value > Link!MaxPacket THEN Link!Refused ELSE value
    BY DEF Link!Decode
<1>9. ends # {}
    <2> HIDE DEF ends, d
    <2> QED BY <1>3
<1> HIDE DEF ends, value, bytes
<1> QED BY <1>7, <1>8, <1>9 DEF bytes

\* What is read is a length or is refused, however long the body is.
LEMMA ReadFacts ==
    ASSUME NEW n \in Nat
    PROVE  Link!Decode(Link!Encode(n)) \in Nat \cup {Link!Refused}
<1> DEFINE bytes == Link!Encode(n)
           ends == {i \in 1..Len(bytes) : i <= 4 /\ bytes[i] < 128}
           k == CHOOSE i \in ends : \A j \in ends : i <= j
           digit(i) == IF i <= k THEN (bytes[i] % 128) * Link!Power128(i - 1) ELSE 0
           value == digit(1) + digit(2) + digit(3) + digit(4)
<1>1. Link!Digits(n) \in 1..4 /\ Len(bytes) = Link!Digits(n)
    BY DigitsFacts, EncodeFacts
<1>2. Link!Decode(bytes) = IF ends = {} \/ value > Link!MaxPacket THEN Link!Refused ELSE value
    BY DEF Link!Decode
<1>3. CASE ends = {}
    <2> HIDE DEF ends, value, bytes
    <2> QED BY <1>2, <1>3 DEF bytes
<1>4. CASE ends # {}
    <2>1. k \in 1..Len(bytes)
        <3>1. \E i \in ends : \A j \in ends : i <= j
            <4>1. (\A j \in ends : j \in {1, 2, 3, 4}) /\ ends # {}
                <5> HIDE DEF bytes
                <5> QED BY <1>1, <1>4
            <4> HIDE DEF ends
            <4>2. CASE 1 \in ends
                BY <4>1, <4>2
            <4>3. CASE 1 \notin ends /\ 2 \in ends
                BY <4>1, <4>3
            <4>4. CASE 1 \notin ends /\ 2 \notin ends /\ 3 \in ends
                BY <4>1, <4>4
            <4>5. CASE 1 \notin ends /\ 2 \notin ends /\ 3 \notin ends
                BY <4>1, <4>5
            <4> QED BY <4>2, <4>3, <4>4, <4>5
        <3>2. k \in ends
            <4> HIDE DEF ends
            <4> QED BY <3>1
        <3> QED BY <3>2
    <2>2. ASSUME NEW i \in 1..4 PROVE digit(i) \in Nat
        <3>1. CASE i <= k
            <4>1. i \in 1..Link!Digits(n)
                BY <2>1, <3>1, <1>1
            <4> DEFINE x == Link!Digit(n, i)
            <4>2. x \in 0..127 /\ bytes[i] = x + (IF i < Link!Digits(n) THEN 128 ELSE 0)
                BY <4>1, EncodeFacts
            <4>3. bytes[i] % 128 \in Nat
                <5> HIDE DEF x, bytes
                <5> QED BY <4>2
            <4>4. Link!Power128(i - 1) \in Nat
                <5>1. i - 1 \in 0..3
                    OBVIOUS
                <5> QED BY <5>1, Powers, SMT
            <4> HIDE DEF bytes, k
            <4> QED BY <3>1, <4>3, <4>4
        <3>2. CASE ~(i <= k)
            <4> HIDE DEF bytes, k
            <4> QED BY <3>2
        <3> QED BY <3>1, <3>2
    <2>3. value \in Nat
        <3>1. digit(1) \in Nat /\ digit(2) \in Nat /\ digit(3) \in Nat /\ digit(4) \in Nat
            BY <2>2
        <3> HIDE DEF digit
        <3> QED BY <3>1
    <2> HIDE DEF ends, value, bytes
    <2> QED BY <1>2, <2>3 DEF bytes
<1> QED BY <1>3, <1>4

LinkFlags ==
    /\ full \in BOOLEAN /\ refs \in BOOLEAN /\ running \in BOOLEAN /\ closing \in BOOLEAN
    /\ pinging \in BOOLEAN /\ stale \in BOOLEAN /\ told \in BOOLEAN
LinkNet ==
    /\ net \in Link!Nets
    /\ body.sent \in Lengths \cup {0} /\ body.read \in Nat \cup {Link!Refused}
    /\ breaks \in 0..MaxBreaks /\ sends \in 0..MaxSends

\* Only the holder of the lock writes, and no step leads to a write but that of the lock.
LinkThreads ==
    /\ lock \in Link!Actors \cup {Link!NoActor}
    /\ doing \in [Link!Actors -> [step : Link!Steps, next : Link!Steps]]
    /\ \A a \in Link!Actors : doing[a].step = "write" => lock = a
    /\ \A a \in Link!Actors : doing[a].next # "write"

LinkInv == LinkFlags /\ LinkNet /\ LinkThreads

LEMMA LinkTypesFollow == LinkInv => Link!TypeOK
BY Zenon DEF LinkInv, LinkFlags, LinkNet, LinkThreads, Link!TypeOK

LEMMA LinkStarts == Link!Init => LinkInv
<1> SUFFICES ASSUME Link!Init PROVE LinkInv
    OBVIOUS
<1>1. LinkFlags
    BY Zenon DEF Link!Init, LinkFlags
<1>2. LinkNet
    BY LinkBounds DEF Link!LinkAssumption, Link!Init, LinkNet, Link!Nets
<1>3. LinkThreads
    BY DEF Link!Init, LinkThreads, Link!Doing, Link!Steps, Link!Actors, Link!NoActor
<1> QED BY <1>1, <1>2, <1>3 DEF LinkInv

\* What moves a thread on without a write.
LEMMA ThreadMoves ==
    ASSUME LinkThreads, lock' = lock, NEW a \in Link!Actors, NEW s \in Link!Steps \ {"write"},
           Link!Goto(a, s) \/ Link!WriteThen(a, s)
    PROVE  LinkThreads'
<1>1. Link!Doing(s) \in [step : Link!Steps, next : Link!Steps] /\ Link!Doing(s).step # "write" /\ Link!Doing(s).next # "write"
    BY DEF Link!Doing, Link!Steps
<1>2. [step |-> "lock", next |-> s] \in [step : Link!Steps, next : Link!Steps]
    BY DEF Link!Steps
<1> DEFINE p == [step |-> "lock", next |-> s]
<1>3. p \in [step : Link!Steps, next : Link!Steps] /\ p.step # "write" /\ p.next # "write"
    BY <1>2
<1>4. CASE Link!Goto(a, s)
    <2>1. doing' = [doing EXCEPT ![a] = Link!Doing(s)]
        BY <1>4 DEF Link!Goto
    <2> HIDE DEF p
    <2> QED BY <1>1, <2>1 DEF LinkThreads
<1>5. CASE Link!WriteThen(a, s)
    <2>1. doing' = [doing EXCEPT ![a] = p]
        BY <1>5 DEF Link!WriteThen
    <2> HIDE DEF p
    <2> QED BY <1>3, <2>1 DEF LinkThreads
<1> QED BY <1>4, <1>5

LEMMA ThreadStays ==
    ASSUME LinkThreads, lock' = lock, doing' = doing
    PROVE  LinkThreads'
BY DEF LinkThreads

\* Lock and Write: the lock is given to one thread and taken from the same.
LEMMA WriteStepThreads ==
    ASSUME LinkInv, NEW a \in Link!Actors, Link!WriteStep(a)
    PROVE  LinkThreads'
<1>0. LinkThreads /\ \A b \in Link!Actors : b # Link!NoActor
    BY DEF LinkInv, Link!Actors, Link!NoActor
<1>1. CASE Link!Lock(a)
    <2>1. lock = Link!NoActor /\ lock' = a /\ doing' = [doing EXCEPT ![a].step = "write"]
        BY <1>1 DEF Link!Lock
    <2>2. ASSUME NEW S, NEW N, NEW e \in [step : S, next : N], NEW w \in S
          PROVE  /\ [e EXCEPT !.step = w] \in [step : S, next : N]
                 /\ [e EXCEPT !.step = w].next = e.next
        BY <2>2
    <2>3. doing' = [doing EXCEPT ![a] = [doing[a] EXCEPT !.step = "write"]]
        BY <2>1
    <2> DEFINE p == [doing[a] EXCEPT !.step = "write"]
    <2>4. p \in [step : Link!Steps, next : Link!Steps] /\ p.next # "write"
        <3>1. doing[a] \in [step : Link!Steps, next : Link!Steps] /\ doing[a].next # "write" /\ "write" \in Link!Steps
            BY <1>0 DEF LinkThreads, Link!Steps
        <3> QED BY <3>1, <2>2
    <2> HIDE DEF p
    <2> QED BY <1>0, <2>1, <2>3, <2>4 DEF LinkThreads, p
<1>2. CASE Link!Write(a)
    <2> DEFINE s == IF Link!Failing /\ a = "caller" THEN "give up" ELSE doing[a].next
    <2>1. s \in Link!Steps \ {"write"}
        BY <1>0 DEF LinkThreads, Link!Steps
    <2> HIDE DEF s
    <2>2. /\ Link!Doing(s) \in [step : Link!Steps, next : Link!Steps]
          /\ Link!Doing(s).step # "write" /\ Link!Doing(s).next # "write"
        BY <2>1 DEF Link!Doing, Link!Steps
    <2>3. doing[a].step = "write" /\ lock' = Link!NoActor /\ doing' = [doing EXCEPT ![a] = Link!Doing(s)]
        BY <1>2 DEF Link!Write, Link!Goto, Link!At, s
    <2> QED BY <1>0, <2>2, <2>3 DEF LinkThreads
<1> QED BY <1>1, <1>2 DEF Link!WriteStep

LEMMA CallerStepTypes ==
    ASSUME LinkInv, Link!CallerStep
    PROVE  LinkInv'
<1>0. LinkFlags /\ LinkNet /\ LinkThreads
    BY DEF LinkInv
<1>k. "caller" \in Link!Actors /\ "reader" \in Link!Actors
    BY DEF Link!Actors
<1>s. {"connack", "subscribe", "run", "give up", "arm", "start reader", "done", "loop"} \subseteq Link!Steps \ {"write"}
    BY DEF Link!Steps
<1>1. CASE Link!Connect
    <2>1. LinkFlags'
        BY <1>1, <1>0, Zenon DEF Link!Connect, LinkFlags
    <2>2. LinkNet'
        <3>1. net' \in Link!Nets /\ body' = body /\ sends' = sends
            BY <1>1 DEF Link!Connect, Link!Nets
        <3>2. breaks' = breaks \/ (breaks < MaxBreaks /\ breaks' = breaks + 1)
            BY <1>1 DEF Link!Connect
        <3>3. breaks' \in 0..MaxBreaks
            BY <3>2, <1>0, LinkBounds DEF LinkNet, Link!LinkAssumption
        <3> QED BY <3>1, <3>3, <1>0 DEF LinkNet
    <2>3. LinkThreads'
        BY <1>1, <1>0, <1>k, <1>s, ThreadMoves DEF Link!Connect
    <2> QED BY <2>1, <2>2, <2>3 DEF LinkInv
<1>2. CASE Link!ReadConnack
    <2>1. LinkFlags'
        BY <1>2, <1>0, Zenon DEF Link!ReadConnack, Link!socket, Link!flags, LinkFlags
    <2>2. LinkNet'
        BY <1>2, <1>0 DEF Link!ReadConnack, Link!socket, Link!counters, LinkNet
    <2>3. LinkThreads'
        BY <1>2, <1>0, <1>k, <1>s, ThreadMoves DEF Link!ReadConnack
    <2> QED BY <2>1, <2>2, <2>3 DEF LinkInv
<1>3. CASE Link!Run \/ Link!StartHeartbeat
    <2>1. LinkFlags'
        BY <1>3, <1>0, Zenon DEF Link!Run, Link!StartHeartbeat, Link!socket, Link!flags, LinkFlags
    <2>2. LinkNet'
        BY <1>3, <1>0 DEF Link!Run, Link!StartHeartbeat, Link!socket, Link!counters, LinkNet
    <2>3. LinkThreads'
        BY <1>3, <1>0, <1>k, <1>s, ThreadMoves DEF Link!Run, Link!StartHeartbeat
    <2> QED BY <2>1, <2>2, <2>3 DEF LinkInv
<1>4. CASE Link!StartReader
    <2>1. LinkFlags'
        BY <1>4, <1>0, Zenon DEF Link!StartReader, Link!socket, Link!flags, LinkFlags
    <2>2. LinkNet'
        BY <1>4, <1>0 DEF Link!StartReader, Link!socket, Link!counters, LinkNet
    <2>3. LinkThreads'
        <3>1. lock' = lock /\ doing' = [doing EXCEPT !["caller"] = Link!Doing("done"), !["reader"] = Link!Doing("loop")]
            BY <1>4 DEF Link!StartReader
        <3>2. \A s \in {"done", "loop"} :
                /\ Link!Doing(s) \in [step : Link!Steps, next : Link!Steps]
                /\ Link!Doing(s).step # "write" /\ Link!Doing(s).next # "write"
            BY DEF Link!Doing, Link!Steps
        <3> QED BY <1>0, <1>k, <3>1, <3>2 DEF LinkThreads
    <2> QED BY <2>1, <2>2, <2>3 DEF LinkInv
<1>5. CASE Link!GiveUp
    <2>1. LinkFlags'
        BY <1>5, <1>0, Zenon DEF Link!GiveUp, Link!Shut, LinkFlags
    <2>2. LinkNet'
        BY <1>5, <1>0 DEF Link!GiveUp, Link!Shut, Link!counters, LinkNet, Link!Nets
    <2>3. LinkThreads'
        BY <1>5, <1>0, <1>k, <1>s, ThreadMoves DEF Link!GiveUp
    <2> QED BY <2>1, <2>2, <2>3 DEF LinkInv
<1> QED BY <1>1, <1>2, <1>3, <1>4, <1>5 DEF Link!CallerStep

LEMMA ReaderStepTypes ==
    ASSUME LinkInv, Link!ReaderStep \/ Link!ReadPacket
    PROVE  LinkInv'
<1>0. LinkFlags /\ LinkNet /\ LinkThreads
    BY DEF LinkInv
<1>k. "reader" \in Link!Actors
    BY DEF Link!Actors
<1>s. {"loop", "read", "caught", "handle", "tell", "done"} \subseteq Link!Steps \ {"write"}
    BY DEF Link!Steps
<1>1. CASE Link!ReaderLoop \/ Link!HandlePacket
    <2>1. LinkFlags'
        BY <1>1, <1>0, Zenon DEF Link!ReaderLoop, Link!HandlePacket, Link!socket, Link!flags, LinkFlags
    <2>2. LinkNet'
        BY <1>1, <1>0 DEF Link!ReaderLoop, Link!HandlePacket, Link!socket, Link!counters, LinkNet
    <2>3. LinkThreads'
        <3>1. CASE Link!ReaderLoop
            <4> DEFINE s == IF running THEN "read" ELSE "caught"
            <4>1. s \in Link!Steps \ {"write"} /\ Link!Goto("reader", s) /\ lock' = lock
                BY <3>1, <1>s DEF Link!ReaderLoop
            <4> HIDE DEF s
            <4> QED BY <4>1, <1>0, <1>k, ThreadMoves
        <3>2. CASE Link!HandlePacket
            BY <3>2, <1>0, <1>k, <1>s, ThreadMoves DEF Link!HandlePacket
        <3> QED BY <1>1, <3>1, <3>2
    <2> QED BY <2>1, <2>2, <2>3 DEF LinkInv
<1>2. CASE Link!ReadPacket
    <2>1. CASE UNCHANGED <<stale, body>> /\ Link!Goto("reader", "caught")
        <3>1. LinkFlags'
            BY <2>1, <1>2, <1>0, Zenon DEF Link!ReadPacket, Link!socket, Link!flags, LinkFlags
        <3>2. LinkNet'
            BY <2>1, <1>2, <1>0 DEF Link!ReadPacket, Link!socket, Link!counters, LinkNet
        <3>3. LinkThreads'
            BY <2>1, <1>2, <1>0, <1>k, <1>s, ThreadMoves DEF Link!ReadPacket
        <3> QED BY <3>1, <3>2, <3>3 DEF LinkInv
    <2>2. ASSUME NEW n \in Lengths, NEW r, r = Link!Decode(Link!Encode(n)),
                 body' = [sent |-> n, read |-> r],
                 IF r = Link!Refused THEN Link!Goto("reader", "caught") /\ UNCHANGED stale
                 ELSE stale' = FALSE /\ (Link!Goto("reader", "handle") \/ Link!WriteThen("reader", "handle"))
          PROVE  LinkInv'
        <3>1. LinkFlags'
            <4>1. stale' = stale \/ stale' = FALSE
                BY <2>2
            <4>2. stale' \in BOOLEAN
                BY <4>1, <1>0, Zenon DEF LinkFlags
            <4>3. UNCHANGED <<full, refs, running, closing, pinging, told>>
                BY <1>2 DEF Link!ReadPacket, Link!socket, Link!flags
            <4> QED BY <4>2, <4>3, <1>0, Zenon DEF LinkFlags
        <3>2. LinkNet'
            <4>1. r \in Nat \cup {Link!Refused}
                BY <2>2, ReadFacts, LinkBounds DEF Link!LinkAssumption
            <4> QED BY <4>1, <2>2, <1>2, <1>0 DEF Link!ReadPacket, Link!socket, Link!counters, LinkNet
        <3>3. LinkThreads'
            BY <2>2, <1>2, <1>0, <1>k, <1>s, ThreadMoves DEF Link!ReadPacket
        <3> QED BY <3>1, <3>2, <3>3 DEF LinkInv
    <2> QED BY <1>2, <2>1, <2>2 DEF Link!ReadPacket
<1>3. CASE Link!ReaderEnds
    <2>1. LinkFlags'
        BY <1>3, <1>0, Zenon DEF Link!ReaderEnds, Link!Shut, Link!socket, Link!flags, LinkFlags
    <2>2. LinkNet'
        BY <1>3, <1>0 DEF Link!ReaderEnds, Link!Shut, Link!socket, Link!counters, LinkNet, Link!Nets
    <2>3. LinkThreads'
        BY <1>3, <1>0, <1>k, <1>s, ThreadMoves DEF Link!ReaderEnds
    <2> QED BY <2>1, <2>2, <2>3 DEF LinkInv
<1>4. CASE Link!TellClosed
    <2>1. LinkFlags'
        BY <1>4, <1>0, Zenon DEF Link!TellClosed, Link!socket, Link!flags, LinkFlags
    <2>2. LinkNet'
        BY <1>4, <1>0 DEF Link!TellClosed, Link!socket, Link!counters, LinkNet
    <2>3. LinkThreads'
        BY <1>4, <1>0, <1>k, <1>s, ThreadMoves DEF Link!TellClosed
    <2> QED BY <2>1, <2>2, <2>3 DEF LinkInv
<1> QED BY <1>1, <1>2, <1>3, <1>4 DEF Link!ReaderStep

LEMMA LinkStep == LinkInv /\ [Link!Next]_Link!linkVars => LinkInv'
<1> SUFFICES ASSUME LinkInv, [Link!Next]_Link!linkVars PROVE LinkInv'
    OBVIOUS
<1>0. LinkFlags /\ LinkNet /\ LinkThreads
    BY DEF LinkInv
<1>k. {"ticker", "sender", "closer"} \subseteq Link!Actors
    BY DEF Link!Actors
<1>s. {"idle", "shut down", "done"} \subseteq Link!Steps \ {"write"}
    BY DEF Link!Steps
<1>1. ASSUME NEW a \in Link!Actors, Link!WriteStep(a) PROVE LinkInv'
    <2>1. LinkFlags'
        <3>1. full' \in BOOLEAN
            <4>1. full' = full \/ full' \in {full} \/ full' \in BOOLEAN
                BY <1>1, Zenon DEF Link!WriteStep, Link!Lock, Link!Write, Link!socket
            <4> QED BY <4>1, <1>0, Zenon DEF LinkFlags
        <3>2. UNCHANGED <<refs, running, closing, pinging, stale, told>>
            BY <1>1 DEF Link!WriteStep, Link!Lock, Link!Write, Link!socket, Link!flags
        <3> QED BY <3>1, <3>2, <1>0, Zenon DEF LinkFlags
    <2>2. LinkNet'
        BY <1>1, <1>0 DEF Link!WriteStep, Link!Lock, Link!Write, Link!socket, Link!counters, LinkNet
    <2> QED BY <1>1, <2>1, <2>2, WriteStepThreads DEF LinkInv
<1>2. CASE Link!Tick
    <2>1. LinkFlags'
        BY <1>2, <1>0, Zenon DEF Link!Tick, Link!Shut, Link!socket, Link!flags, LinkFlags
    <2>2. LinkNet'
        BY <1>2, <1>0 DEF Link!Tick, Link!Shut, Link!socket, Link!counters, LinkNet, Link!Nets
    <2>3. LinkThreads'
        BY <1>2, <1>0, <1>k, <1>s, ThreadMoves, ThreadStays DEF Link!Tick
    <2> QED BY <2>1, <2>2, <2>3 DEF LinkInv
<1>3. CASE Link!Send
    <2>1. LinkFlags'
        BY <1>3, <1>0, Zenon DEF Link!Send, Link!socket, Link!flags, LinkFlags
    <2>2. LinkNet'
        BY <1>3, <1>0, LinkBounds DEF Link!Send, Link!socket, LinkNet, Link!LinkAssumption
    <2>3. LinkThreads'
        BY <1>3, <1>0, <1>k, <1>s, ThreadMoves DEF Link!Send
    <2> QED BY <2>1, <2>2, <2>3 DEF LinkInv
<1>4. CASE Link!Close
    <2>1. LinkFlags'
        BY <1>4, <1>0, Zenon DEF Link!Close, Link!socket, LinkFlags
    <2>2. LinkNet'
        BY <1>4, <1>0 DEF Link!Close, Link!socket, Link!counters, LinkNet
    <2>3. LinkThreads'
        BY <1>4, <1>0, <1>k, <1>s, ThreadMoves DEF Link!Close
    <2> QED BY <2>1, <2>2, <2>3 DEF LinkInv
<1>5. CASE Link!ShutDown
    <2>1. LinkFlags'
        BY <1>5, <1>0, Zenon DEF Link!ShutDown, Link!Shut, Link!socket, Link!flags, LinkFlags
    <2>2. LinkNet'
        BY <1>5, <1>0 DEF Link!ShutDown, Link!Shut, Link!socket, Link!counters, LinkNet, Link!Nets
    <2>3. LinkThreads'
        BY <1>5, <1>0, <1>k, <1>s, ThreadMoves DEF Link!ShutDown
    <2> QED BY <2>1, <2>2, <2>3 DEF LinkInv
<1>6. CASE Link!Break \/ Link!TcpGivesUp \/ Link!GrowsStale
    <2>1. LinkFlags'
        BY <1>6, <1>0, Zenon DEF Link!Break, Link!TcpGivesUp, Link!GrowsStale, Link!socket, Link!flags, LinkFlags
    <2>2. LinkNet'
        BY <1>6, <1>0, LinkBounds
        DEF Link!Break, Link!TcpGivesUp, Link!GrowsStale, Link!socket, Link!counters, LinkNet, Link!Nets, Link!LinkAssumption
    <2>3. LinkThreads'
        BY <1>6, <1>0, ThreadStays DEF Link!Break, Link!TcpGivesUp, Link!GrowsStale
    <2> QED BY <2>1, <2>2, <2>3 DEF LinkInv
<1>7. CASE UNCHANGED Link!linkVars
    <2>1. LinkFlags'
        <3>1. UNCHANGED <<full, refs, running, closing, pinging, stale, told>>
            BY <1>7 DEF Link!linkVars
        <3> QED BY <3>1, <1>0, Zenon DEF LinkFlags
    <2>2. LinkNet' /\ lock' = lock /\ doing' = doing
        BY <1>7, <1>0 DEF Link!linkVars, LinkNet
    <2> QED BY <2>1, <2>2, <1>0, ThreadStays DEF LinkInv
<1> QED BY <1>1, <1>2, <1>3, <1>4, <1>5, <1>6, <1>7, CallerStepTypes, ReaderStepTypes DEF Link!Next

LEMMA LinkTypes == Link!Spec => []Link!TypeOK
BY LinkTypesFollow, LinkStarts, LinkStep, PTL DEF Link!Spec

-----------------------------------------------------------------------------
(* All of them: a behaviour of the run is a behaviour of each part.         *)

LEMMA PartsBegin ==
    PeripheryInit => /\ Init /\ Link!Init /\ Log!Init /\ Stream!Init /\ Loop!Init /\ Web!Init
                     /\ Tables!Init /\ HubInit /\ HeartbeatInit /\ CronInit /\ QoS!Init
BY Zenon DEF PeripheryInit

\* A step of one part leaves the others alone.
LEMMA PartsGoOn ==
    [PeripheryNext]_allVars =>
        /\ [Next]_leaseVars /\ [Link!Next]_Link!linkVars /\ [Log!Next]_Log!logVars
        /\ [Stream!Next]_Stream!streamVars /\ [Loop!Next]_Loop!loopVars /\ [Web!Next]_Web!webVars
        /\ [Tables!Next]_Tables!tableVars /\ [HubNext]_hubVars /\ [HeartbeatNext]_heartbeatVars
        /\ [CronStep]_cronVars /\ [QoS!Next]_QoS!qosVars
<1> DEFINE Still(p) ==
        /\ p # "lease" => UNCHANGED leaseVars
        /\ p # "link" => UNCHANGED linkState
        /\ p # "log" => UNCHANGED logState
        /\ p # "stream" => UNCHANGED streamState
        /\ p # "loop" => UNCHANGED loopState
        /\ p # "web" => UNCHANGED webState
        /\ p # "tables" => UNCHANGED tablesState
        /\ p # "hub" => UNCHANGED hubVars
        /\ p # "beat" => UNCHANGED heartbeatVars
        /\ p # "cron" => UNCHANGED cronVars
        /\ p # "qos" => UNCHANGED qosState
<1>1. ASSUME NEW p, Runs(p) PROVE Still(p)
    BY <1>1, Zenon DEF Runs
<1>2. UNCHANGED allVars => Still("none")
    BY DEF allVars
<1>3. /\ linkState = Link!linkVars /\ linkState' = Link!linkVars'
      /\ logState = Log!logVars /\ logState' = Log!logVars'
      /\ streamState = Stream!streamVars /\ streamState' = Stream!streamVars'
      /\ loopState = Loop!loopVars /\ loopState' = Loop!loopVars'
      /\ webState = Web!webVars /\ webState' = Web!webVars'
      /\ tablesState = Tables!tableVars /\ tablesState' = Tables!tableVars'
      /\ qosState = QoS!qosVars /\ qosState' = QoS!qosVars'
    BY DEF linkState, Link!linkVars, logState, Log!logVars, streamState, Stream!streamVars,
           loopState, Loop!loopVars, webState, Web!webVars, tablesState, Tables!tableVars,
           qosState, QoS!qosVars
<1> SUFFICES ASSUME PeripheryNext \/ UNCHANGED allVars
             PROVE  /\ [Next]_leaseVars /\ [Link!Next]_Link!linkVars /\ [Log!Next]_Log!logVars
                    /\ [Stream!Next]_Stream!streamVars /\ [Loop!Next]_Loop!loopVars /\ [Web!Next]_Web!webVars
                    /\ [Tables!Next]_Tables!tableVars /\ [HubNext]_hubVars /\ [HeartbeatNext]_heartbeatVars
                    /\ [CronStep]_cronVars /\ [QoS!Next]_QoS!qosVars
    OBVIOUS
<1>4. \/ Still("lease") /\ Next
      \/ Still("link") /\ Link!Next
      \/ Still("log") /\ Log!Next
      \/ Still("stream") /\ Stream!Next
      \/ Still("loop") /\ Loop!Next
      \/ Still("web") /\ Web!Next
      \/ Still("tables") /\ Tables!Next
      \/ Still("hub") /\ HubNext
      \/ Still("beat") /\ HeartbeatNext
      \/ Still("cron") /\ CronStep
      \/ Still("qos") /\ QoS!Next
      \/ Still("none")
    <2> HIDE DEF Still
    <2> QED BY <1>1, <1>2, Zenon DEF PeripheryNext
<1> QED BY <1>3, <1>4

LEMMA EachPart ==
    PeripherySpec => /\ Spec /\ Link!Spec /\ Log!Spec /\ Stream!Spec /\ Loop!Spec /\ Web!Spec
                     /\ Tables!Spec /\ HubSpec /\ HeartbeatSpec /\ CronSpec /\ QoS!Spec
BY PartsBegin, PartsGoOn, PTL
   DEF PeripherySpec, Spec, Link!Spec, Log!Spec, Stream!Spec, Loop!Spec, Web!Spec, Tables!Spec,
       HubSpec, HeartbeatSpec, CronSpec, QoS!Spec

\* The types of the eleven parts. Among what they say: a thread of mqtt_transport.js that
\* writes holds writeLock, the send queue of mqtt.go stays within its limit, a token that
\* the server accepts is one it issued, and a script never counts more visits than its limit.
THEOREM AllTypes == PeripherySpec => []TypesOK
<1>1. /\ TypeOK /\ Link!TypeOK /\ Log!TypeOK /\ Stream!TypeOK /\ Loop!TypeOK
      /\ Web!TypeOK /\ Tables!TypeOK /\ HubTypeOK /\ HeartbeatTypeOK /\ CronTypeOK /\ QoS!TypeOK
      => TypesOK
    BY DEF TypesOK
<1>2. HubSpec => []HubTypeOK
    BY HubTypes, HubBounds
<1>3. HeartbeatSpec => []HeartbeatTypeOK
    BY HeartbeatTypes, BeatBounds
<1>4. CronSpec => []CronTypeOK
    BY CronTypes, CronBounds
<1> QED BY <1>1, <1>2, <1>3, <1>4, EachPart, TypeCorrect, LinkTypes, LogTypeCorrect, StreamTypes, LoopTypes,
           WebTypes, TablesTypes, QoSTypes, PTL
=============================================================================
