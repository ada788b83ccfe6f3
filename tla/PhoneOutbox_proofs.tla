-------------------------- MODULE PhoneOutbox_proofs --------------------------
(***************************************************************************)
(* Proofs about PhoneOutbox, for any threads, names, limits and number of  *)
(* events, overlaps and faults: what is stored is kept until it is settled *)
(* and the outbox stays within its limits, but for the calls and events    *)
(* that an overlapping call or a failing read has put at risk.             *)
(***************************************************************************)
EXTENDS PhoneOutbox, WellFoundedInduction, TLAPS

\* Every item there is, and that their places tell them apart.
Known ==
    outbox \cup stored \cup uplink
        \cup {i \in Item : \E t \in Threads : i = thread[t].item \/ i \in thread[t].copy}

PlacesInv == \A i, j \in Known : i.at <= queued /\ (i.at = j.at => i = j)

\* A call whose event is not at risk runs alone.
AloneInv == \A t \in Threads :
    thread[t].call = "queue" /\ thread[t].item \notin atRisk =>
        \A u \in Threads : u # t => thread[u].pc = "idle"

\* What must still be there.
Owed == kept \ (settled \cup atRisk)

\* The copy a thread is about to put in the place of the array, or of what is stored.
CopiesKeep(t) == thread[t].pc \in {"assign", "swap", "put"} => Owed \subseteq thread[t].copy

\* A call of queueCloudEvent does not lose the event it was made for.
CallKeeps(t) == thread[t].call = "queue" /\ thread[t].item \notin atRisk =>
    /\ thread[t].pc \in {"compact", "evict", "encode", "put"} => thread[t].item \in outbox \cup settled
    /\ thread[t].pc \in {"assign", "put"} => thread[t].item \in thread[t].copy \cup settled

\* What an event_ack is going to remove is settled.
ConfirmedIsSettled(t) ==
    thread[t].call = "confirm" /\ thread[t].pc \in {"load", "parse", "ready"} =>
        \A j \in Owed : ~SameEvent(j, thread[t].item)

\* A call that loads the outbox is alone, or what is stored is at risk.
LoadsAlone(t) == thread[t].pc \in {"load", "parse"} =>
    Owed = {} \/ \A u \in Threads : u # t => thread[u].pc = "idle"

KeptBy(t) ==
    /\ thread[t].pc \notin {"idle", "load"} => loaded
    /\ CopiesKeep(t) /\ CallKeeps(t) /\ ConfirmedIsSettled(t) /\ LoadsAlone(t)

KeptInv ==
    /\ Owed \subseteq stored
    /\ loaded /\ (\A t \in Threads : thread[t].pc # "parse") => Owed \subseteq outbox
    /\ expired \subseteq settled
    /\ \A t \in Threads : KeptBy(t)

-----------------------------------------------------------------------------
(* The types.                                                               *)

ThreadStates == [pc : Pc, call : Call, item : Item \cup {NoItem}, copy : SUBSET Item]

\* A call about an event has one, and only queueCloudEvent changes the outbox so.
CallsInv == \A t \in Threads :
    /\ thread[t].call \in {"queue", "confirm"} => thread[t].item \in Item
    /\ thread[t].pc \in {"push", "compact", "assign", "evict"} => thread[t].call = "queue"
    /\ thread[t].pc = "swap" => thread[t].call = "confirm"
    /\ thread[t].pc = "idle" => thread[t].call = "none"

TypeInv == TypeOK /\ CallsInv

LEMMA ThreadFields ==
    ASSUME TypeOK, NEW t \in Threads
    PROVE  /\ thread[t].pc \in Pc /\ thread[t].call \in Call
           /\ thread[t].item \in Item \cup {NoItem} /\ thread[t].copy \in SUBSET Item
           /\ thread[t] = [pc |-> thread[t].pc, call |-> thread[t].call,
                           item |-> thread[t].item, copy |-> thread[t].copy]
BY DEF TypeOK

\* Where a step leaves the thread that makes it.
Moves(t, pc, call, item, copy) ==
    thread' = [thread EXCEPT ![t] = [pc |-> pc, call |-> call, item |-> item, copy |-> copy]]

LEMMA Moved ==
    ASSUME TypeOK, NEW t \in Threads, NEW pc, NEW call, NEW item, NEW copy, Moves(t, pc, call, item, copy)
    PROVE  /\ thread'[t].pc = pc /\ thread'[t].call = call
           /\ thread'[t].item = item /\ thread'[t].copy = copy
           /\ \A u \in Threads : u # t => thread'[u] = thread[u]
BY DEF Moves, TypeOK

LEMMA MoveTypes ==
    ASSUME TypeInv, NEW t \in Threads, NEW pc \in Pc, NEW call \in Call,
           NEW item \in Item \cup {NoItem}, NEW copy \in SUBSET Item, Moves(t, pc, call, item, copy),
           call \in {"queue", "confirm"} => item \in Item,
           pc \in {"push", "compact", "assign", "evict"} => call = "queue",
           pc = "swap" => call = "confirm", pc = "idle" => call = "none"
    PROVE  thread' \in [Threads -> ThreadStates] /\ CallsInv'
<1>1. thread' \in [Threads -> ThreadStates]
    BY DEF TypeInv, TypeOK, Moves, ThreadStates
<1>2. CallsInv'
    BY Moved DEF TypeInv, CallsInv
<1> QED BY <1>1, <1>2

LEMMA RecordExcepts ==
    ASSUME TypeOK, NEW t \in Threads, NEW pc
    PROVE  /\ [thread[t] EXCEPT !.pc = pc]
                  = [pc |-> pc, call |-> thread[t].call, item |-> thread[t].item, copy |-> thread[t].copy]
           /\ [thread[t] EXCEPT !.pc = pc, !.copy = {}]
                  = [pc |-> pc, call |-> thread[t].call, item |-> thread[t].item, copy |-> {}]
<1> DEFINE a == thread[t].pc
           b == thread[t].call
           c == thread[t].item
           d == thread[t].copy
<1>1. thread[t] = [pc |-> a, call |-> b, item |-> c, copy |-> d]
    BY ThreadFields
<1> HIDE DEF a, b, c, d
<1>2. [[pc |-> a, call |-> b, item |-> c, copy |-> d] EXCEPT !.pc = pc] = [pc |-> pc, call |-> b, item |-> c, copy |-> d]
    OBVIOUS
<1>3. [[pc |-> pc, call |-> b, item |-> c, copy |-> d] EXCEPT !.copy = {}]
          = [pc |-> pc, call |-> b, item |-> c, copy |-> {}]
    OBVIOUS
<1> DEFINE r == thread[t]
<1>4. [r EXCEPT !.pc = pc, !.copy = {}] = [[r EXCEPT !.pc = pc] EXCEPT !.copy = {}]
    OBVIOUS
<1> QED BY <1>1, <1>2, <1>3, <1>4 DEF a, b, c, d

LEMMA GotoMoves ==
    ASSUME TypeOK, NEW t \in Threads, NEW pc, Goto(t, pc)
    PROVE  Moves(t, pc, thread[t].call, thread[t].item, thread[t].copy)
<1>1. [thread[t] EXCEPT !.pc = pc]
          = [pc |-> pc, call |-> thread[t].call, item |-> thread[t].item, copy |-> thread[t].copy]
    BY RecordExcepts
<1> QED BY <1>1 DEF Goto, Moves

LEMMA ReturnMoves ==
    ASSUME TypeOK, NEW t \in Threads, Return(t)
    PROVE  Moves(t, "idle", "none", NoItem, {})
BY ThreadFields DEF Return, Idle, Moves, TypeOK

LEMMA FlushingMoves ==
    ASSUME TypeOK, NEW t \in Threads, NEW pc, Flushing(t, pc)
    PROVE  Moves(t, pc, "flush", NoItem, {})
BY DEF Flushing, Moves, TypeOK

LEMMA EnterMoves ==
    ASSUME TypeOK, NEW t \in Threads, NEW call, NEW item, Enter(t, call, item)
    PROVE  Moves(t, IF loaded THEN "ready" ELSE "load", call, item, {})
BY DEF Enter, Moves, TypeOK

LEMMA StepMoves ==
    ASSUME TypeOK, NEW t \in Threads
    PROVE  LET call == thread[t].call  item == thread[t].item  copy == thread[t].copy IN
           /\ Load(t) => Moves(t, "parse", call, item, copy)
           /\ Parse(t) => Moves(t, "ready", call, item, copy)
           /\ QueueMerge(t) => Moves(t, "push", call, item, copy) \/ Moves(t, "flush", "flush", NoItem, {})
           /\ QueuePush(t) => Moves(t, "compact", call, item, copy)
           /\ Compact(t) => Moves(t, "assign", call, item, outbox \ expired)
           /\ Assign(t) => Moves(t, "evict", call, item, {})
           /\ Evict(t) => \E pc \in {"evict", "encode"} : Moves(t, pc, call, item, copy)
           /\ Encode(t) => Moves(t, "put", call, item, outbox)
           /\ Put(t) => Moves(t, "flush", "flush", NoItem, {}) \/ Moves(t, "idle", "none", NoItem, {})
           /\ Flush(t) => Moves(t, "idle", "none", NoItem, {}) \/ Moves(t, "encode", "flush", NoItem, {})
           /\ ConfirmFilter(t) => Moves(t, "swap", call, item, {i \in outbox : ~SameEvent(i, item)})
           /\ ConfirmSwap(t) => Moves(t, "idle", "none", NoItem, {}) \/ Moves(t, "encode", call, item, {})
<1> DEFINE call == thread[t].call
           item == thread[t].item
           copy == thread[t].copy
<1>1. Load(t) => Moves(t, "parse", call, item, copy)
    BY GotoMoves DEF Load
<1>2. Parse(t) => Moves(t, "ready", call, item, copy)
    BY GotoMoves DEF Parse
<1>3. QueueMerge(t) => Moves(t, "push", call, item, copy) \/ Moves(t, "flush", "flush", NoItem, {})
    BY GotoMoves, FlushingMoves DEF QueueMerge
<1>4. QueuePush(t) => Moves(t, "compact", call, item, copy)
    BY GotoMoves DEF QueuePush
<1>5. Compact(t) => Moves(t, "assign", call, item, outbox \ expired)
    BY ThreadFields DEF Compact, Moves, TypeOK
<1>6. Assign(t) => Moves(t, "evict", call, item, {})
    BY ThreadFields DEF Assign, Moves, TypeOK
<1>7. Evict(t) => \E pc \in {"evict", "encode"} : Moves(t, pc, call, item, copy)
    <2>1. CASE UNCHANGED thread /\ At(t, "evict")
        <3>1. thread[t] = [pc |-> "evict", call |-> call, item |-> item, copy |-> copy]
            BY <2>1, ThreadFields DEF At
        <3>2. thread' = [thread EXCEPT ![t] = thread[t]]
            BY <2>1 DEF TypeOK
        <3> QED BY <3>1, <3>2 DEF Moves
    <2> QED BY <2>1, GotoMoves DEF Evict
<1>8. Encode(t) => Moves(t, "put", call, item, outbox)
    BY ThreadFields DEF Encode, Moves, TypeOK
<1>9. Put(t) => Moves(t, "flush", "flush", NoItem, {}) \/ Moves(t, "idle", "none", NoItem, {})
    BY FlushingMoves, ReturnMoves DEF Put, AfterPut
<1>10. Flush(t) => Moves(t, "idle", "none", NoItem, {}) \/ Moves(t, "encode", "flush", NoItem, {})
    BY FlushingMoves, ReturnMoves DEF Flush
<1>11. ConfirmFilter(t) => Moves(t, "swap", call, item, {i \in outbox : ~SameEvent(i, item)})
    BY ThreadFields DEF ConfirmFilter, Moves, TypeOK
<1>12. ConfirmSwap(t) => Moves(t, "idle", "none", NoItem, {}) \/ Moves(t, "encode", call, item, {})
    <2>1. ASSUME thread' = [thread EXCEPT ![t].pc = "encode", ![t].copy = {}]
          PROVE  Moves(t, "encode", call, item, {})
        <3>1. [thread[t] EXCEPT !.pc = "encode", !.copy = {}]
                  = [pc |-> "encode", call |-> call, item |-> item, copy |-> {}]
            BY RecordExcepts
        <3>2. thread' = [thread EXCEPT ![t] = [thread[t] EXCEPT !.pc = "encode", !.copy = {}]]
            BY <2>1, ThreadFields DEF TypeOK
        <3> QED BY <3>1, <3>2 DEF Moves
    <2> QED BY <2>1, ReturnMoves DEF ConfirmSwap
<1> QED BY <1>1, <1>2, <1>3, <1>4, <1>5, <1>6, <1>7, <1>8, <1>9, <1>10, <1>11, <1>12

LEMMA IdleFields == Idle.pc = "idle" /\ Idle.call = "none" /\ Idle.item = NoItem /\ Idle.copy = {}
                    /\ Idle \in ThreadStates
BY DEF Idle, ThreadStates, Pc, Call

LEMMA TypeInit == Init => TypeInv
<1> SUFFICES ASSUME Init PROVE TypeInv
    OBVIOUS
<1>1. thread \in [Threads -> ThreadStates]
    BY IdleFields DEF Init
<1>2. queued \in 0..MaxQueued /\ faults \in 0..MaxFaults /\ overlaps \in 0..MaxOverlaps
    BY LimitsAssumption DEF Init
<1>3. \A t \in Threads : thread[t].pc = "idle" /\ thread[t].call = "none"
    BY IdleFields DEF Init
<1> QED BY <1>1, <1>2, <1>3 DEF Init, TypeInv, TypeOK, CallsInv, ThreadStates

LEMMA TypeStep == TypeInv /\ [Next]_vars => TypeInv'
<1> SUFFICES ASSUME TypeInv, [Next]_vars PROVE TypeInv'
    OBVIOUS
<1> DEFINE ThreadsOK == thread \in [Threads -> ThreadStates] /\ CallsInv
<1>0. /\ outbox \subseteq Item /\ stored \subseteq Item /\ uplink \subseteq Item /\ recent \subseteq Item
      /\ expired \subseteq Item /\ kept \subseteq Item /\ settled \subseteq Item
      /\ loaded \in BOOLEAN /\ online \in BOOLEAN /\ ThreadsOK
      /\ queued \in 0..MaxQueued /\ faults \in 0..MaxFaults /\ TypeOK
      /\ overlaps \in 0..MaxOverlaps /\ atRisk \subseteq Item
    BY DEF TypeInv, TypeOK, ThreadStates
<1>q. ASSUME /\ outbox' \subseteq Item /\ stored' \subseteq Item /\ uplink' \subseteq Item /\ recent' \subseteq Item
             /\ expired' \subseteq Item /\ kept' \subseteq Item /\ settled' \subseteq Item
             /\ loaded' \in BOOLEAN /\ online' \in BOOLEAN /\ ThreadsOK'
             /\ queued' \in 0..MaxQueued /\ faults' \in 0..MaxFaults
             /\ overlaps' \in 0..MaxOverlaps /\ atRisk' \subseteq Item
      PROVE  TypeInv'
    BY <1>q DEF TypeInv, TypeOK, ThreadStates
<1>a. ASSUME NEW kind, Fault(kind) PROVE faults' \in 0..MaxFaults
    BY <1>0, <1>a, LimitsAssumption DEF Fault
<1>b. ASSUME UNCHANGED thread PROVE ThreadsOK'
    BY <1>0, <1>b DEF CallsInv
<1> HIDE DEF ThreadsOK
<1>c. ASSUME NEW t \in Threads, NEW call \in Call, NEW item \in Item \cup {NoItem}, Enter(t, call, item),
             call \in {"queue", "confirm"} => item \in Item
      PROVE  ThreadsOK' /\ overlaps' \in 0..MaxOverlaps /\ atRisk' \subseteq Item
    <2>1. ThreadsOK'
        BY <1>0, <1>c, EnterMoves, MoveTypes DEF Pc, ThreadsOK
    <2>2. overlaps' \in 0..MaxOverlaps
        BY <1>0, <1>c, LimitsAssumption DEF Enter, Alone, Overlaps
    <2>3. InHand(Active) \subseteq Item
        BY DEF InHand
    <2>4. atRisk' \subseteq Item
        BY <1>0, <1>c, <2>3 DEF Enter, Alone, Overlaps
    <2> QED BY <2>1, <2>2, <2>4
<1>1. ASSUME NEW t \in Threads, NEW kind \in Kinds, NEW name \in Names, QueueCall(t, kind, name) PROVE TypeInv'
    <2> DEFINE i == [kind |-> kind, of |-> name, at |-> queued + 1]
    <2>1. queued' \in 0..MaxQueued /\ i \in Item
        BY <1>0, <1>1, LimitsAssumption DEF QueueCall, Item
    <2>2. Enter(t, "queue", i) /\ UNCHANGED <<loaded, outbox, recent, stored, expired, online, uplink, faults, kept, settled>>
        BY <1>1 DEF QueueCall, memory, wire
    <2>3. ThreadsOK' /\ overlaps' \in 0..MaxOverlaps /\ atRisk' \subseteq Item
        BY <1>c, <2>1, <2>2 DEF Call
    <2> QED BY <1>0, <1>q, <2>1, <2>2, <2>3
<1>2. ASSUME NEW t \in Threads, NEW i \in uplink, ConfirmCall(t, i) PROVE TypeInv'
    <2>1. /\ Enter(t, "confirm", i) /\ UNCHANGED <<loaded, outbox, recent, stored, expired, online, queued, faults, kept>>
          /\ uplink' \subseteq uplink /\ settled' \subseteq settled \cup outbox \cup stored \cup {i}
        BY <1>2 DEF ConfirmCall, memory
    <2>2. ThreadsOK' /\ i \in Item /\ overlaps' \in 0..MaxOverlaps /\ atRisk' \subseteq Item
        BY <1>0, <1>c, <2>1 DEF Call
    <2> QED BY <1>0, <1>q, <2>1, <2>2
<1>3. ASSUME NEW t \in Threads, HeartbeatCall(t) \/ ReconnectCall(t) PROVE TypeInv'
    <2>1. /\ UNCHANGED <<loaded, outbox, recent, stored, expired, uplink, queued, faults, kept, settled>> /\ online' \in BOOLEAN
          /\ \E call \in {"heartbeat", "flush"} : Enter(t, call, NoItem)
        BY <1>0, <1>3 DEF HeartbeatCall, ReconnectCall, memory, wire
    <2>2. ThreadsOK' /\ overlaps' \in 0..MaxOverlaps /\ atRisk' \subseteq Item
        BY <1>c, <2>1 DEF Call
    <2> QED BY <1>0, <1>q, <2>1, <2>2
<1>4. ASSUME NEW t \in Threads, ThreadNext(t) PROVE TypeInv'
    <2> DEFINE call == thread[t].call
               item == thread[t].item
               copy == thread[t].copy
    <2>f. /\ call \in Call /\ item \in Item \cup {NoItem} /\ copy \in SUBSET Item
          /\ call \in {"queue", "confirm"} => item \in Item
          /\ thread[t].pc \in {"push", "compact", "assign", "evict"} => call = "queue"
          /\ thread[t].pc = "swap" => call = "confirm"
        BY <1>0, ThreadFields DEF TypeInv, CallsInv
    <2>n. ASSUME NEW pc \in Pc, NEW call1 \in Call, NEW item1 \in Item \cup {NoItem}, NEW copy1 \in SUBSET Item,
                 Moves(t, pc, call1, item1, copy1),
                 call1 \in {"queue", "confirm"} => item1 \in Item,
                 pc \in {"push", "compact", "assign", "evict"} => call1 = "queue",
                 pc = "swap" => call1 = "confirm", pc = "idle" => call1 = "none"
          PROVE  ThreadsOK'
        BY <2>n, MoveTypes DEF ThreadsOK
    <2>i. Moves(t, "idle", "none", NoItem, {}) => ThreadsOK'
        BY <2>n DEF Pc, Call
    <2> HIDE DEF call, item, copy
    <2>1. CASE Load(t) \/ Parse(t)
        <3>1. \E pc \in {"parse", "ready"} : Moves(t, pc, call, item, copy)
            BY <1>0, <2>1, StepMoves DEF call, item, copy
        <3>2. ThreadsOK'
            BY <2>f, <2>n, <3>1 DEF Pc
        <3>3. faults' \in 0..MaxFaults /\ overlaps' = overlaps /\ atRisk' \subseteq Item
            BY <1>0, <1>a, <2>1 DEF Load, Parse, counts, history
        <3> QED BY <1>0, <1>q, <2>1, <3>2, <3>3 DEF Load, Parse, wire, counts, history
    <2>2. CASE QueueMerge(t)
        <3>1. /\ Moves(t, "push", call, item, copy) \/ Moves(t, "flush", "flush", NoItem, {})
              /\ call = "queue"
            BY <1>0, <2>2, StepMoves DEF QueueMerge, call, item, copy
        <3>2. ThreadsOK'
            BY <2>f, <2>n, <3>1 DEF Pc, Call
        <3> QED BY <1>0, <1>q, <2>2, <3>2 DEF QueueMerge, wire, counts
    <2>3. CASE QueuePush(t)
        <3>1. Moves(t, "compact", call, item, copy) /\ thread[t].pc = "push"
            BY <1>0, <2>3, StepMoves DEF QueuePush, At, call, item, copy
        <3>2. ThreadsOK'
            BY <2>f, <2>n, <3>1 DEF Pc
        <3>3. outbox' \subseteq Item
            BY <1>0, <2>3, <2>f, <3>1 DEF QueuePush, item
        <3> QED BY <1>0, <1>q, <2>3, <3>2, <3>3 DEF QueuePush, wire, counts, history
    <2>4. CASE Compact(t)
        <3>1. Moves(t, "assign", call, item, outbox \ expired) /\ thread[t].pc = "compact"
            BY <1>0, <2>4, StepMoves DEF Compact, At, call, item, copy
        <3>2. ThreadsOK'
            BY <1>0, <2>f, <2>n, <3>1 DEF Pc
        <3> QED BY <1>0, <1>q, <2>4, <3>2 DEF Compact, memory, wire, counts, history
    <2>5. CASE Assign(t)
        <3>1. Moves(t, "evict", call, item, {}) /\ thread[t].pc = "assign" /\ outbox' = copy
            BY <1>0, <2>5, StepMoves DEF Assign, At, call, item, copy
        <3>2. ThreadsOK'
            BY <2>f, <2>n, <3>1 DEF Pc
        <3> QED BY <1>0, <1>q, <2>5, <2>f, <3>1, <3>2 DEF Assign, wire, counts, history
    <2>6. CASE Evict(t)
        <3>1. (\E pc \in {"evict", "encode"} : Moves(t, pc, call, item, copy)) /\ thread[t].pc = "evict"
            BY <1>0, <2>6, StepMoves DEF Evict, At, call, item, copy
        <3>2. ThreadsOK'
            BY <2>f, <2>n, <3>1 DEF Pc
        <3>3. Victims \subseteq outbox
            BY DEF Victims
        <3> QED BY <1>0, <1>q, <2>6, <3>2, <3>3 DEF Evict, wire, counts
    <2>7. CASE Encode(t)
        <3>1. Moves(t, "put", call, item, outbox)
            BY <1>0, <2>7, StepMoves DEF call, item, copy
        <3>2. ThreadsOK'
            BY <1>0, <2>f, <2>n, <3>1 DEF Pc
        <3> QED BY <1>0, <1>q, <2>7, <3>2 DEF Encode, memory, wire, counts, history
    <2>8. CASE Put(t)
        <3>1. Moves(t, "flush", "flush", NoItem, {}) \/ Moves(t, "idle", "none", NoItem, {})
            BY <1>0, <2>8, StepMoves
        <3>2. ThreadsOK'
            BY <2>n, <2>i, <3>1 DEF Pc, Call
        <3>3. kept' \subseteq Item /\ stored' \subseteq Item
            BY <1>0, <2>8, <2>f DEF Put, call, item, copy
        <3>4. faults' \in 0..MaxFaults
            BY <1>0, <1>a, <2>8 DEF Put
        <3> QED BY <1>0, <1>q, <2>8, <3>2, <3>3, <3>4 DEF Put, memory, wire
    <2>9. CASE Flush(t)
        <3>1. Moves(t, "idle", "none", NoItem, {}) \/ Moves(t, "encode", "flush", NoItem, {})
            BY <1>0, <2>9, StepMoves DEF call, item, copy
        <3>2. ThreadsOK'
            BY <2>n, <2>i, <2>f, <3>1 DEF Pc, Call
        <3>3. \E sent \in SUBSET outbox : uplink' \subseteq uplink \cup sent /\ recent' \subseteq recent \cup sent
            <4>1. \A n : First(Due(t), n) \subseteq outbox
                BY DEF First, Due
            <4> QED BY <2>9, <4>1 DEF Flush, wire
        <3>4. faults' \in 0..MaxFaults /\ online' \in BOOLEAN
            BY <1>0, <1>a, <2>9 DEF Flush, wire
        <3> QED BY <1>0, <1>q, <2>9, <3>2, <3>3, <3>4 DEF Flush, history
    <2>10. CASE ConfirmFilter(t)
        <3>1. Moves(t, "swap", call, item, {i \in outbox : ~SameEvent(i, item)}) /\ call = "confirm"
            BY <1>0, <2>10, StepMoves DEF ConfirmFilter, call, item, copy
        <3>2. {i \in outbox : ~SameEvent(i, item)} \in SUBSET Item
            BY <1>0
        <3>3. ThreadsOK'
            BY <2>f, <2>n, <3>1, <3>2 DEF Pc
        <3> QED BY <1>0, <1>q, <2>10, <3>3 DEF ConfirmFilter, memory, wire, counts, history
    <2>11. CASE ConfirmSwap(t)
        <3>1. Moves(t, "idle", "none", NoItem, {}) \/ Moves(t, "encode", call, item, {})
            BY <1>0, <2>11, StepMoves DEF call, item, copy
        <3>2. ThreadsOK'
            BY <2>n, <2>i, <2>f, <3>1 DEF Pc, Call
        <3> QED BY <1>0, <1>q, <2>11, <2>f, <3>2 DEF ConfirmSwap, wire, counts, history, copy
    <2> QED BY <1>4, <2>1, <2>2, <2>3, <2>4, <2>5, <2>6, <2>7, <2>8, <2>9, <2>10, <2>11 DEF ThreadNext
<1>5. ASSUME NEW i, RetryDue(i) \/ Expire(i) \/ Lose(i) PROVE TypeInv'
    <2>1. UNCHANGED <<thread, loaded, outbox, stored, online, queued, overlaps, kept, atRisk>>
        BY <1>5 DEF RetryDue, Expire, Lose, memory, wire, counts, history
    <2>2. uplink' \subseteq uplink /\ recent' \subseteq recent
        BY <1>5 DEF RetryDue, Expire, Lose, memory, wire, counts, history
    <2>3. expired' \subseteq expired \cup outbox \cup stored /\ settled' \subseteq settled \cup outbox \cup stored
        BY <1>5 DEF RetryDue, Expire, Lose, memory, wire, counts, history
    <2>4. faults' \in 0..MaxFaults
        BY <1>0, <1>5, <1>a DEF RetryDue, Expire, Lose, counts
    <2> QED BY <1>0, <1>b, <1>q, <2>1, <2>2, <2>3, <2>4
<1>6. CASE Crash
    <2>1. thread' \in [Threads -> ThreadStates] /\ \A t \in Threads : thread'[t].pc = "idle" /\ thread'[t].call = "none"
        BY <1>6, IdleFields DEF Crash
    <2>2. ThreadsOK'
        BY <2>1 DEF CallsInv, ThreadsOK
    <2>3. faults' \in 0..MaxFaults
        BY <1>6, <1>a DEF Crash
    <2> QED BY <1>0, <1>6, <1>q, <2>2, <2>3 DEF Crash, history
<1>7. CASE UNCHANGED vars
    BY <1>0, <1>7, <1>b, <1>q DEF vars
<1> QED BY <1>1, <1>2, <1>3, <1>4, <1>5, <1>6, <1>7 DEF Next

-----------------------------------------------------------------------------
(* Places tell the items apart.                                             *)

LEMMA NoItemIsNone == NoItem \notin Item
BY DEF NoItem, Item, Kinds

LEMMA KnownMoves ==
    ASSUME TypeInv, NEW t \in Threads, NEW pc, NEW call, NEW item, NEW copy, NEW more,
           Moves(t, pc, call, item, copy),
           item \in Known \cup more \cup {NoItem}, copy \subseteq Known,
           outbox' \subseteq Known, stored' \subseteq Known, uplink' \subseteq Known
    PROVE  Known' \subseteq Known \cup more
<1>1. /\ thread'[t].item = item /\ thread'[t].copy = copy
      /\ \A u \in Threads : u # t => thread'[u] = thread[u]
    BY Moved DEF TypeInv
<1>2. ASSUME NEW i \in Item, NEW u \in Threads, i = thread'[u].item \/ i \in thread'[u].copy
      PROVE  i \in Known \cup more
    <2>1. CASE u = t
        BY <1>1, <1>2, <2>1, NoItemIsNone
    <2>2. CASE u # t
        BY <1>1, <1>2, <2>2 DEF Known
    <2> QED BY <2>1, <2>2
<1> QED BY <1>2 DEF Known

LEMMA KnownHolds ==
    ASSUME TypeInv, NEW t \in Threads
    PROVE  /\ outbox \subseteq Known /\ stored \subseteq Known /\ uplink \subseteq Known
           /\ thread[t].item \in Known \cup {NoItem} /\ thread[t].copy \subseteq Known
           /\ Known \subseteq Item
BY DEF Known, TypeInv, TypeOK

\* No step but a call of queueCloudEvent brings a new item.
LEMMA KnownSteps ==
    ASSUME TypeInv, NEW t \in Threads, ThreadNext(t)
    PROVE  Known' \subseteq Known /\ queued' = queued
<1> DEFINE call == thread[t].call
           item == thread[t].item
           copy == thread[t].copy
           Quiet == outbox' \subseteq Known /\ stored' \subseteq Known /\ uplink' \subseteq Known /\ queued' = queued
<1>0. TypeOK /\ outbox \subseteq Known /\ stored \subseteq Known /\ uplink \subseteq Known
      /\ item \in Known \cup {NoItem} /\ copy \subseteq Known /\ {} \in SUBSET Item
    BY KnownHolds DEF TypeInv
<1>q. ASSUME Quiet, NEW pc, NEW call1, NEW item1 \in {item, NoItem}, NEW copy1 \in SUBSET Known,
             Moves(t, pc, call1, item1, copy1)
      PROVE  Known' \subseteq Known /\ queued' = queued
    <2>1. item1 \in Known \cup {} \cup {NoItem}
        BY <1>0
    <2>2. Known' \subseteq Known \cup {}
        BY <1>q, <1>0, <2>1, KnownMoves
    <2> QED BY <1>q, <2>2
<1> HIDE DEF call, item, copy
<1>1. CASE Load(t) \/ Parse(t) \/ QueueMerge(t)
    <2>1. \E pc : Moves(t, pc, call, item, copy) \/ Moves(t, pc, "flush", NoItem, {})
        BY <1>0, <1>1, StepMoves DEF call, item, copy
    <2>2. Quiet
        BY <1>0, <1>1 DEF Load, Parse, QueueMerge, wire, counts
    <2> QED BY <1>0, <1>q, <2>1, <2>2
<1>2. CASE QueuePush(t)
    <2>1. Moves(t, "compact", call, item, copy) /\ thread[t].pc = "push" /\ item = thread[t].item
        BY <1>0, <1>2, StepMoves DEF QueuePush, At, call, item, copy
    <2>2. item \in Item
        BY <2>1 DEF TypeInv, CallsInv
    <2>3. Quiet
        BY <1>0, <1>2, <2>1, <2>2, NoItemIsNone DEF QueuePush, wire, counts
    <2> QED BY <1>0, <1>q, <2>1, <2>3
<1>3. CASE Compact(t) \/ Encode(t)
    <2>1. \E pc : \E copy1 \in SUBSET Known : Moves(t, pc, call, item, copy1)
        <3>1. outbox \in SUBSET Known /\ outbox \ expired \in SUBSET Known
            BY <1>0
        <3>2. Moves(t, "assign", call, item, outbox \ expired) \/ Moves(t, "put", call, item, outbox)
            BY <1>0, <1>3, StepMoves DEF call, item, copy
        <3> QED BY <3>1, <3>2
    <2>2. Quiet
        BY <1>0, <1>3 DEF Compact, Encode, memory, wire, counts
    <2> QED BY <1>q, <2>1, <2>2
<1>4. CASE Assign(t) \/ ConfirmSwap(t)
    <2>1. \E pc, call1 : Moves(t, pc, call1, item, {}) \/ Moves(t, pc, call1, NoItem, {})
        BY <1>0, <1>4, StepMoves DEF call, item, copy
    <2>2. Quiet
        BY <1>0, <1>4 DEF Assign, ConfirmSwap, wire, counts, copy
    <2> QED BY <1>q, <2>1, <2>2
<1>5. CASE Evict(t)
    <2>1. \E pc : Moves(t, pc, call, item, copy)
        BY <1>0, <1>5, StepMoves DEF call, item, copy
    <2>2. Quiet
        BY <1>0, <1>5 DEF Evict, wire, counts
    <2> QED BY <1>0, <1>q, <2>1, <2>2
<1>6. CASE Put(t)
    <2>1. \E pc, call1 : Moves(t, pc, call1, NoItem, {})
        BY <1>0, <1>6, StepMoves
    <2>2. Quiet
        BY <1>0, <1>6 DEF Put, memory, wire, copy
    <2> QED BY <1>q, <2>1, <2>2
<1>7. CASE Flush(t)
    <2>1. Moves(t, "idle", "none", NoItem, {}) \/ Moves(t, "encode", "flush", NoItem, {})
        BY <1>0, <1>7, StepMoves DEF call, item, copy
    <2>2. Quiet
        <3>1. \A n : First(Due(t), n) \subseteq outbox
            BY DEF First, Due
        <3> QED BY <1>0, <1>7, <3>1 DEF Flush, wire
    <2> QED BY <1>0, <1>q, <2>1, <2>2
<1>8. CASE ConfirmFilter(t)
    <2>1. Moves(t, "swap", call, item, {i \in outbox : ~SameEvent(i, item)})
        BY <1>0, <1>8, StepMoves DEF call, item, copy
    <2>2. {i \in outbox : ~SameEvent(i, item)} \in SUBSET Known
        BY <1>0
    <2>3. Quiet
        BY <1>0, <1>8 DEF ConfirmFilter, memory, wire, counts
    <2> QED BY <1>q, <2>1, <2>2, <2>3
<1> QED BY <1>1, <1>2, <1>3, <1>4, <1>5, <1>6, <1>7, <1>8 DEF ThreadNext

LEMMA PlacesStep == TypeInv /\ PlacesInv /\ [Next]_vars => PlacesInv'
<1> SUFFICES ASSUME TypeInv, PlacesInv, [Next]_vars PROVE PlacesInv'
    OBVIOUS
<1>0. TypeOK /\ queued \in Nat /\ \A i \in Known : i.at \in Nat
    BY LimitsAssumption DEF TypeInv, TypeOK, Known, Item
<1>q. ASSUME Known' \subseteq Known, queued' = queued PROVE PlacesInv'
    BY <1>q DEF PlacesInv
<1>1. ASSUME NEW t \in Threads, NEW kind \in Kinds, NEW name \in Names, QueueCall(t, kind, name) PROVE PlacesInv'
    <2> DEFINE i == [kind |-> kind, of |-> name, at |-> queued + 1]
    <2>1. queued' = queued + 1 /\ Enter(t, "queue", i) /\ UNCHANGED <<outbox, stored, uplink>>
        BY <1>1 DEF QueueCall, memory, wire
    <2>2. i \in Item /\ i.at = queued + 1
        BY <1>0, <1>1, LimitsAssumption DEF QueueCall, Item
    <2> HIDE DEF i
    <2>3. PICK pc : Moves(t, pc, "queue", i, {})
        BY <1>0, <2>1, EnterMoves
    <2> DEFINE more == {i}
    <2>4. /\ i \in Known \cup more \cup {NoItem} /\ {} \subseteq Known
          /\ outbox' \subseteq Known /\ stored' \subseteq Known /\ uplink' \subseteq Known
        BY <2>1, KnownHolds
    <2> HIDE DEF more
    <2>5. Known' \subseteq Known \cup more
        BY <2>3, <2>4, KnownMoves
    <2> QED BY <1>0, <2>1, <2>2, <2>5 DEF PlacesInv, more
<1>2. ASSUME NEW t \in Threads, NEW item \in Known \cup {NoItem}, NEW call, Enter(t, call, item),
             outbox' = outbox, stored' = stored, uplink' \subseteq uplink, queued' = queued
      PROVE  PlacesInv'
    <2>1. PICK pc : Moves(t, pc, call, item, {})
        BY <1>0, <1>2, EnterMoves
    <2> DEFINE more == {}
    <2>2. /\ item \in Known \cup more \cup {NoItem} /\ {} \subseteq Known
          /\ outbox' \subseteq Known /\ stored' \subseteq Known /\ uplink' \subseteq Known
        BY <1>2, KnownHolds
    <2> HIDE DEF more
    <2>3. Known' \subseteq Known \cup more
        BY <1>2, <2>1, <2>2, KnownMoves
    <2> QED BY <1>2, <1>q, <2>3 DEF more
<1>3. ASSUME NEW t \in Threads, NEW i \in uplink, ConfirmCall(t, i) PROVE PlacesInv'
    <2>1. i \in Known \cup {NoItem}
        BY KnownHolds
    <2> QED BY <1>2, <1>3, <2>1 DEF ConfirmCall, memory, counts
<1>4. ASSUME NEW t \in Threads, HeartbeatCall(t) \/ ReconnectCall(t) PROVE PlacesInv'
    <2>1. NoItem \in Known \cup {NoItem}
        OBVIOUS
    <2> QED BY <1>2, <1>4, <2>1 DEF HeartbeatCall, ReconnectCall, memory, wire, counts
<1>5. ASSUME NEW t \in Threads, ThreadNext(t) PROVE PlacesInv'
    BY <1>5, <1>q, KnownSteps
<1>6. ASSUME NEW i, RetryDue(i) \/ Expire(i) \/ Lose(i) PROVE PlacesInv'
    <2>1. UNCHANGED <<thread, outbox, stored, queued>> /\ uplink' \subseteq uplink
        BY <1>6 DEF RetryDue, Expire, Lose, memory, wire, counts
    <2> QED BY <1>q, <2>1 DEF Known
<1>7. CASE Crash
    <2>1. \A t \in Threads : thread'[t].item = NoItem /\ thread'[t].copy = {}
        BY <1>7, IdleFields DEF Crash
    <2>2. outbox' = {} /\ UNCHANGED <<stored, uplink, queued>>
        BY <1>7 DEF Crash
    <2> QED BY <1>q, <2>1, <2>2, NoItemIsNone DEF Known
<1>8. CASE UNCHANGED vars
    BY <1>8, <1>q DEF vars, Known
<1> QED BY <1>1, <1>3, <1>4, <1>5, <1>6, <1>7, <1>8 DEF Next

-----------------------------------------------------------------------------
(* The limits, and what is given up first.                                  *)

\* The order of the naturals as a relation, for WFMin.
LEMMA LessIsWellFounded ==
    \E R : IsWellFoundedOn(R, Nat) /\ \A x, y \in Nat : y < x => <<y, x>> \in R
<1>1. \A x, y \in Nat : y < x => <<y, x>> \in OpToRel(<, Nat)
    BY SMT DEF OpToRel
<1>2. IsWellFoundedOn(OpToRel(<, Nat), Nat)
    BY NatLessThanWellFounded, Zenon
<1> QED BY <1>1, <1>2, Zenon

LEMMA Least ==
    ASSUME NEW T \in SUBSET Nat, T # {}
    PROVE  \E x \in T : \A y \in T : x <= y
<1>0. T \subseteq Nat
    OBVIOUS
<1>1. PICK R : IsWellFoundedOn(R, Nat) /\ \A x, y \in Nat : y < x => <<y, x>> \in R
    BY LessIsWellFounded
<1>2. \E x \in T : \A y \in T : ~(<<y, x>> \in R)
    BY <1>1, WFMin, Zenon
<1>3. \E x \in T : \A y \in T : ~(y < x)
    BY <1>0, <1>1, <1>2, Zenon
<1> QED BY <1>0, <1>3, SMT

LEMMA Priorities ==
    ASSUME NEW i \in Item
    PROVE  /\ i.kind = "terminal" => Priority(i) = 4
           /\ i.kind = "ack" => Priority(i) = 3
           /\ i.kind = "progress" => Priority(i) = 2
           /\ i.kind \in {"terminal", "ack", "progress"} /\ i.at \in Nat
<1>1. i.kind \in {"terminal", "ack", "progress"} /\ i.at \in Nat
    BY LimitsAssumption DEF Item, Kinds
<1>2. i.kind = "terminal" => Priority(i) = 4
    BY Zenon DEF Priority
<1>3. i.kind = "ack" => Priority(i) = 3
    BY Zenon DEF Priority
<1>4. i.kind = "progress" => Priority(i) = 2
    BY Zenon DEF Priority
<1> QED BY <1>1, <1>2, <1>3, <1>4

\* An outbox that is not all terminal states has something to give up: the oldest of
\* the lowest kind.
LEMMA VictimsExist ==
    ASSUME TypeInv, PlacesInv, NEW i \in outbox, i.kind # "terminal"
    PROVE  Victims # {}
<1>0. outbox \subseteq Item /\ outbox \subseteq Known
    BY DEF Known, TypeInv, TypeOK
<1>1. ASSUME NEW kind \in {"ack", "progress"}, NEW j \in outbox, j.kind = kind,
             kind = "ack" => \A k \in outbox : k.kind # "progress"
      PROVE  Victims # {}
    <2> DEFINE Places == {k.at : k \in {l \in outbox : l.kind = kind}}
    <2>1. Places \in SUBSET Nat /\ Places # {}
        BY <1>0, <1>1, Priorities
    <2>2. PICK x \in Places : \A y \in Places : x <= y
        BY <2>1, Least
    <2>3. PICK k \in outbox : k.kind = kind /\ k.at = x
        BY <2>2
    <2>4. \A l \in outbox : l.kind = kind => l = k \/ k.at < l.at
        <3> SUFFICES ASSUME NEW l \in outbox, l.kind = kind, l # k PROVE k.at < l.at
            OBVIOUS
        <3>1. l.at # k.at
            BY <1>0 DEF PlacesInv
        <3>2. k.at <= l.at
            BY <2>2, <2>3
        <3>3. l.at \in Nat /\ k.at \in Nat
            BY <1>0, Priorities
        <3> QED BY <3>1, <3>2, <3>3
    <2>5. Priority(k) < 4 /\ \A l \in outbox : Priority(k) <= Priority(l)
        BY <1>0, <1>1, <2>3, Priorities
    <2>6. \A l \in outbox : Priority(k) = Priority(l) => l.kind = kind
        BY <1>0, <1>1, <2>3, Priorities
    <2>7. k \in Victims
        BY <2>4, <2>5, <2>6 DEF Victims, Older
    <2> QED BY <2>7
<1>2. CASE \E j \in outbox : j.kind = "progress"
    BY <1>1, <1>2
<1>3. CASE \A j \in outbox : j.kind # "progress"
    <2>1. i.kind = "ack"
        BY <1>0, <1>3, Priorities
    <2> QED BY <1>1, <1>3, <2>1
<1> QED BY <1>2, <1>3

LEMMA StepFields ==
    ASSUME TypeOK, NEW t \in Threads, ThreadNext(t)
    PROVE  /\ thread[t].pc # "idle" /\ atRisk \subseteq atRisk'
           /\ \A u \in Threads : u # t => thread'[u] = thread[u]
           /\ thread'[t].call = "queue" => thread[t].call = "queue" /\ thread'[t].item = thread[t].item
<1> DEFINE Stays == /\ \A u \in Threads : u # t => thread'[u] = thread[u]
                    /\ thread'[t].call = "queue" => thread[t].call = "queue" /\ thread'[t].item = thread[t].item
<1>1. ASSUME NEW pc, NEW copy, Moves(t, pc, thread[t].call, thread[t].item, copy) PROVE Stays
    BY <1>1, Moved
<1>2. ASSUME NEW pc, NEW call, NEW item, NEW copy, Moves(t, pc, call, item, copy), call # "queue" PROVE Stays
    BY <1>2, Moved
<1> HIDE DEF Stays
<1>3. ASSUME Load(t) \/ Parse(t) \/ QueuePush(t) \/ Compact(t) \/ Assign(t) \/ Encode(t) \/ ConfirmFilter(t) PROVE Stays
    <2>1. PICK pc, copy : Moves(t, pc, thread[t].call, thread[t].item, copy)
        BY <1>3, StepMoves
    <2> QED BY <1>1, <2>1
<1>4. ASSUME QueueMerge(t) PROVE Stays
    <2>1. Moves(t, "push", thread[t].call, thread[t].item, thread[t].copy) \/ Moves(t, "flush", "flush", NoItem, {})
        BY <1>4, StepMoves
    <2> QED BY <1>1, <1>2, <2>1
<1>e. ASSUME Evict(t) PROVE Stays
    <2>1. PICK pc : Moves(t, pc, thread[t].call, thread[t].item, thread[t].copy)
        BY <1>e, StepMoves
    <2> QED BY <1>1, <2>1
<1>s. ASSUME ConfirmSwap(t) PROVE Stays
    <2>1. Moves(t, "idle", "none", NoItem, {}) \/ Moves(t, "encode", thread[t].call, thread[t].item, {})
        BY <1>s, StepMoves
    <2> QED BY <1>1, <1>2, <2>1
<1>p. ASSUME Put(t) PROVE Stays
    <2>1. Moves(t, "flush", "flush", NoItem, {}) \/ Moves(t, "idle", "none", NoItem, {})
        BY <1>p, StepMoves
    <2> QED BY <1>2, <2>1
<1>f. ASSUME Flush(t) PROVE Stays
    <2>1. Moves(t, "idle", "none", NoItem, {}) \/ Moves(t, "encode", "flush", NoItem, {})
        BY <1>f, StepMoves
    <2> QED BY <1>2, <2>1
<1>6. Stays
    BY <1>3, <1>4, <1>e, <1>s, <1>p, <1>f DEF ThreadNext
<1>7. thread[t].pc # "idle"
    BY DEF ThreadNext, At, Load, Parse, QueueMerge, QueuePush, Compact, Assign, Evict, Encode, Put, Flush,
           ConfirmFilter, ConfirmSwap
<1>8. atRisk \subseteq atRisk'
    BY DEF ThreadNext, Load, Parse, QueueMerge, QueuePush, Compact, Assign, Evict, Encode, Put, Flush,
           ConfirmFilter, ConfirmSwap, history
<1> QED BY <1>6, <1>7, <1>8 DEF Stays

\* A call that is not alone puts every call at risk, and what is being loaded.
LEMMA EnterFields ==
    ASSUME TypeInv, NEW t \in Threads, NEW call, NEW item, Enter(t, call, item)
    PROVE  /\ thread[t].pc = "idle" /\ atRisk \subseteq atRisk'
           /\ thread'[t].pc = IF loaded THEN "ready" ELSE "load"
           /\ thread'[t].call = call /\ thread'[t].item = item
           /\ \A u \in Threads : u # t => thread'[u] = thread[u]
           /\ ~(\A u \in Threads : thread[u].pc = "idle") =>
                  /\ call = "queue" => item \in atRisk'
                  /\ \A u \in Threads : thread[u].call = "queue" => thread[u].item \in atRisk'
                  /\ Loading => kept \subseteq atRisk'
<1>1. TypeOK /\ thread[t].pc = "idle"
    BY DEF TypeInv, Enter, At
<1>2. PICK pc : pc = (IF loaded THEN "ready" ELSE "load") /\ Moves(t, pc, call, item, {})
    BY <1>1, EnterMoves
<1>3. atRisk \subseteq atRisk'
    BY DEF Enter, Alone, Overlaps
<1>4. ASSUME ~(\A u \in Threads : thread[u].pc = "idle")
      PROVE  /\ call = "queue" => item \in atRisk'
             /\ InHand(Active) \subseteq atRisk' /\ (Loading => kept \subseteq atRisk')
    BY <1>4 DEF Enter, Alone, Overlaps, Active, At
<1>5. \A u \in Threads : thread[u].call = "queue" => thread[u].item \in InHand(Active)
    BY DEF InHand, Active, At, TypeInv, CallsInv
<1> QED BY <1>1, <1>2, <1>3, <1>4, <1>5, Moved

LEMMA AloneStep == TypeInv /\ AloneInv /\ [Next]_vars => AloneInv'
<1> SUFFICES ASSUME TypeInv, AloneInv, [Next]_vars PROVE AloneInv'
    OBVIOUS
<1>0. TypeOK
    BY DEF TypeInv
<1>1. ASSUME NEW t \in Threads, NEW call, NEW item, Enter(t, call, item) PROVE AloneInv'
    <2> SUFFICES ASSUME NEW u \in Threads, thread'[u].call = "queue", thread'[u].item \notin atRisk'
                 PROVE  \A w \in Threads : w # u => thread'[w].pc = "idle"
        BY DEF AloneInv
    <2>1. CASE u = t
        BY <1>1, <2>1, EnterFields
    <2>2. CASE u # t
        <3>1. thread'[u] = thread[u] /\ thread[u].call = "queue" /\ thread[u].item \notin atRisk'
            BY <1>1, <2>2, EnterFields
        <3>2. thread[u].pc # "idle"
            BY <3>1 DEF TypeInv, CallsInv
        <3> QED BY <1>1, <3>1, <3>2, EnterFields
    <2> QED BY <2>1, <2>2
<1>2. ASSUME NEW t \in Threads, ThreadNext(t) PROVE AloneInv'
    <2> SUFFICES ASSUME NEW u \in Threads, thread'[u].call = "queue", thread'[u].item \notin atRisk'
                 PROVE  \A w \in Threads : w # u => thread'[w].pc = "idle"
        BY DEF AloneInv
    <2>1. thread[u].call = "queue" /\ thread[u].item \notin atRisk
        BY <1>0, <1>2, StepFields
    <2>2. \A w \in Threads : w # u => thread[w].pc = "idle"
        BY <2>1 DEF AloneInv
    <2>3. u = t
        BY <1>0, <1>2, <2>2, StepFields
    <2> QED BY <1>0, <1>2, <2>2, <2>3, StepFields
<1>3. CASE UNCHANGED <<thread, atRisk>>
    BY <1>3 DEF AloneInv
<1>4. ASSUME NEW i, RetryDue(i) \/ Expire(i) \/ Lose(i) PROVE UNCHANGED <<thread, atRisk>>
    BY <1>4 DEF RetryDue, Expire, Lose, history
<1>5. CASE Crash
    <2>1. \A t \in Threads : thread'[t].call = "none"
        BY <1>5, IdleFields DEF Crash
    <2> QED BY <2>1 DEF AloneInv
<1>6. CASE UNCHANGED vars
    BY <1>3, <1>6 DEF vars
<1> QED BY <1>1, <1>2, <1>3, <1>4, <1>5, <1>6
        DEF Next, QueueCall, ConfirmCall, HeartbeatCall, ReconnectCall

LEMMA BoundStep ==
    ASSUME TypeInv, PlacesInv, AloneInv, OutboxIsBounded, [Next]_vars
    PROVE  OutboxIsBounded'
<1> SUFFICES ASSUME NEW t \in Threads, At(t, "encode")', thread'[t].call = "queue",
                    thread'[t].item \notin atRisk'
             PROVE  ~Full' \/ \A i \in outbox' : i.kind = "terminal"
    BY DEF OutboxIsBounded
<1>0. TypeOK /\ thread'[t].pc = "encode"
    BY DEF TypeInv, At
<1>1. CASE Evict(t)
    <2>1. outbox' = outbox /\ ~(Full /\ Victims # {})
        <3>1. CASE Full /\ Victims # {}
            BY <1>0, <1>1, <3>1 DEF Evict, At
        <3> QED BY <1>1, <3>1 DEF Evict
    <2>2. Full' = Full
        BY <2>1 DEF Full, Bytes
    <2> QED BY <2>1, <2>2, VictimsExist
<1>2. CASE UNCHANGED <<thread, outbox, atRisk>>
    BY <1>2 DEF OutboxIsBounded, At, Full, Bytes
<1>3. ASSUME NEW u \in Threads, ThreadNext(u), ~Evict(t) PROVE FALSE
    <2>0. thread[t].call = "queue" /\ thread[t].item \notin atRisk
        BY <1>0, <1>3, StepFields
    <2>1. u = t
        <3>1. \A w \in Threads : w # t => thread[w].pc = "idle"
            BY <2>0 DEF AloneInv
        <3> QED BY <1>0, <1>3, <3>1, StepFields
    <2>2. ASSUME NEW pc, NEW call, NEW item, NEW copy, Moves(t, pc, call, item, copy)
          PROVE  pc = "encode" /\ call = "queue"
        BY <1>0, <2>2, Moved
    <2>3. ~ConfirmSwap(t)
        BY <2>0 DEF ConfirmSwap, At, TypeInv, CallsInv
    <2>4. CASE Load(t) \/ Parse(t) \/ QueuePush(t) \/ Compact(t) \/ Assign(t) \/ Encode(t) \/ ConfirmFilter(t)
        <3>1. \E pc, copy : pc # "encode" /\ Moves(t, pc, thread[t].call, thread[t].item, copy)
            BY <1>0, <2>4, StepMoves
        <3> QED BY <2>2, <3>1
    <2>5. CASE QueueMerge(t) \/ Put(t) \/ Flush(t)
        <3>1. \E pc, call, item, copy : (pc # "encode" \/ call # "queue") /\ Moves(t, pc, call, item, copy)
            BY <1>0, <2>5, StepMoves
        <3> QED BY <2>2, <3>1
    <2> QED BY <1>3, <2>1, <2>3, <2>4, <2>5 DEF ThreadNext
<1>4. ASSUME NEW u \in Threads, NEW call, NEW item, Enter(u, call, item) PROVE FALSE
    <2>1. u # t
        BY <1>0, <1>4, EnterFields
    <2>2. thread[t].pc = "encode" /\ thread[t].call = "queue" /\ thread[t].item \notin atRisk'
        BY <1>0, <1>4, <2>1, EnterFields
    <2> QED BY <1>4, <2>2, EnterFields
<1>5. ASSUME NEW i, RetryDue(i) \/ Expire(i) \/ Lose(i) PROVE UNCHANGED <<thread, outbox, atRisk>>
    BY <1>5 DEF RetryDue, Expire, Lose, memory, history
<1>6. ~Crash
    BY <1>0, IdleFields DEF Crash
<1>7. CASE UNCHANGED vars
    BY <1>2, <1>7 DEF vars
<1> QED BY <1>1, <1>2, <1>3, <1>4, <1>5, <1>6, <1>7
        DEF Next, QueueCall, ConfirmCall, HeartbeatCall, ReconnectCall

LEMMA TypeInvariance == Spec => [](TypeInv /\ PlacesInv /\ AloneInv)
<1>1. Init => TypeInv /\ PlacesInv /\ AloneInv
    <2> SUFFICES ASSUME Init PROVE TypeInv /\ PlacesInv /\ AloneInv
        OBVIOUS
    <2>1. Known = {}
        BY IdleFields, NoItemIsNone DEF Init, Known
    <2>2. AloneInv
        BY IdleFields DEF Init, AloneInv
    <2> QED BY <2>1, <2>2, TypeInit DEF PlacesInv
<1>2. (TypeInv /\ PlacesInv /\ AloneInv) /\ [Next]_vars => (TypeInv /\ PlacesInv /\ AloneInv)'
    BY TypeStep, PlacesStep, AloneStep
<1> QED BY <1>1, <1>2, PTL DEF Spec

\* The types, for any threads: an event about to be queued or confirmed is one, and is
\* in the hands of the call it was made for.
THEOREM OutboxTypes == Spec => []TypeOK
<1>1. TypeInv => TypeOK
    BY DEF TypeInv
<1> QED BY <1>1, TypeInvariance, PTL

\* docs/v93: however the calls of any number of threads interleave, a call that no other
\* has overlapped leaves the outbox within its limits of items and bytes, or with
\* terminal states alone. (main.js compactCloudEventOutbox)
THEOREM OutboxStaysBounded == Spec => []OutboxIsBounded
<1>1. Init => OutboxIsBounded
    BY IdleFields DEF Init, OutboxIsBounded, At
<1>2. TypeInv /\ PlacesInv /\ AloneInv /\ OutboxIsBounded /\ [Next]_vars => OutboxIsBounded'
    BY BoundStep
<1> QED BY <1>1, <1>2, TypeInvariance, PTL DEF Spec

-----------------------------------------------------------------------------
(* What is stored is kept.                                                  *)

\* The threads that do not move.
LEMMA KeptOthers ==
    ASSUME NEW u \in Threads, KeptBy(u), thread'[u] = thread[u], loaded => loaded', atRisk \subseteq atRisk',
           settled \subseteq settled', Owed' \subseteq Owed,
           thread[u].call = "queue" => thread[u].item \in atRisk',
           thread[u].pc \in {"load", "parse"} =>
               Owed' = {} \/ \A w \in Threads : w # u => thread'[w].pc = "idle"
    PROVE  KeptBy(u)'
BY DEF KeptBy, CopiesKeep, CallKeeps, ConfirmedIsSettled, LoadsAlone

\* No thread but t has begun a call that must keep its event, or loads what must stay.
LEMMA OthersIdle ==
    ASSUME AloneInv, NEW t \in Threads, thread[t].pc # "idle", NEW u \in Threads, u # t
    PROVE  thread[u].call = "queue" => thread[u].item \in atRisk
BY DEF AloneInv

\* A step of t that gives up or settles items, and adds none to those that must stay.
LEMMA KeptRest ==
    ASSUME TypeInv, AloneInv, KeptInv, NEW t \in Threads, ThreadNext(t), loaded => loaded',
           settled \subseteq settled', Owed' \subseteq Owed
    PROVE  \A u \in Threads : u # t => KeptBy(u)'
<1> SUFFICES ASSUME NEW u \in Threads, u # t PROVE KeptBy(u)'
    OBVIOUS
<1>1. /\ thread[t].pc # "idle" /\ atRisk \subseteq atRisk' /\ thread'[u] = thread[u]
    BY StepFields DEF TypeInv
<1>2. thread[u].call = "queue" => thread[u].item \in atRisk'
    BY <1>1, OthersIdle
<1>3. KeptBy(u)
    BY DEF KeptInv
<1>4. thread[u].pc \in {"load", "parse"} => Owed' = {}
    BY <1>1, <1>3 DEF KeptBy, LoadsAlone
<1> QED BY <1>1, <1>2, <1>3, <1>4, KeptOthers

\* The same, for a step that leaves the array as it is, or with all that must stay.
LEMMA KeptMoves ==
    ASSUME TypeInv, AloneInv, KeptInv, NEW t \in Threads, ThreadNext(t), loaded => loaded',
           settled \subseteq settled', Owed' \subseteq Owed, expired' \subseteq settled',
           stored' = stored, KeptBy(t)', 
           loaded' /\ (\A u \in Threads : thread'[u].pc # "parse") => Owed' \subseteq outbox'
    PROVE  KeptInv'
<1>1. \A u \in Threads : KeptBy(u)'
    BY KeptRest
<1>2. Owed' \subseteq stored'
    BY DEF KeptInv
<1> QED BY <1>1, <1>2 DEF KeptInv

LEMMA KeptThread ==
    ASSUME TypeInv, AloneInv, KeptInv, NEW t \in Threads, ThreadNext(t)
    PROVE  KeptInv'
<1> DEFINE call == thread[t].call
           item == thread[t].item
           copy == thread[t].copy
<1>0. /\ TypeOK /\ CallsInv /\ KeptBy(t)
      /\ Owed \subseteq stored /\ expired \subseteq settled /\ Owed \cap settled = {}
    BY DEF TypeInv, KeptInv, Owed
<1>n. ASSUME NEW pc, NEW call1, NEW item1, NEW copy1, Moves(t, pc, call1, item1, copy1)
      PROVE  thread'[t].pc = pc /\ thread'[t].call = call1 /\ thread'[t].item = item1 /\ thread'[t].copy = copy1
    BY <1>0, <1>n, Moved
<1>m. thread[t].pc # "idle" /\ \A u \in Threads : u # t => thread'[u] = thread[u]
    BY <1>0, StepFields
<1>p. ASSUME thread[t].pc \notin {"load", "parse"}
      PROVE  Owed \subseteq outbox /\ loaded
    <2>1. CASE \E u \in Threads : thread[u].pc = "parse"
        <3>1. PICK u \in Threads : thread[u].pc = "parse"
            BY <2>1
        <3>2. u # t /\ KeptBy(u)
            BY <1>p, <3>1 DEF KeptInv
        <3> QED BY <1>0, <1>m, <1>p, <3>1, <3>2 DEF KeptBy, LoadsAlone
    <2>2. CASE ~ \E u \in Threads : thread[u].pc = "parse"
        BY <1>0, <1>m, <1>p, <2>2 DEF KeptInv, KeptBy
    <2> QED BY <2>1, <2>2
<1>1. CASE Load(t)
    <2>0. Moves(t, "parse", call, item, copy)
        BY <1>0, <1>1, StepMoves
    <2>1. /\ thread'[t].pc = "parse" /\ thread'[t].call = call /\ thread'[t].item = item /\ thread[t].pc = "load"
          /\ loaded' = TRUE /\ UNCHANGED <<stored, expired, kept, settled, atRisk>>
        BY <1>0, <1>1, <1>n, <2>0 DEF Load, At, history
    <2>2. Owed' = Owed
        BY <2>1 DEF Owed
    <2>3. KeptBy(t)'
        BY <1>0, <1>m, <2>1, <2>2 DEF KeptBy, CopiesKeep, CallKeeps, ConfirmedIsSettled, LoadsAlone
    <2> QED BY <1>0, <2>1, <2>2, <2>3, KeptMoves
<1>2. CASE Parse(t)
    <2>0. Moves(t, "ready", call, item, copy)
        BY <1>0, <1>2, StepMoves
    <2>1. /\ thread'[t].pc = "ready" /\ thread'[t].call = call /\ thread'[t].item = item /\ thread[t].pc = "parse"
          /\ UNCHANGED <<loaded, stored, expired, kept, settled>>
          /\ \/ outbox' = (IF stored = {} THEN outbox ELSE stored) /\ atRisk' = atRisk
             \/ atRisk' = atRisk \cup kept
        BY <1>0, <1>2, <1>n, <2>0 DEF Parse, At
    <2>2. Owed' \subseteq Owed /\ Owed' \subseteq outbox'
        BY <1>0, <2>1 DEF Owed
    <2>3. loaded
        BY <1>0, <2>1 DEF KeptBy
    <2>4. KeptBy(t)'
        BY <1>0, <2>1, <2>2, <2>3 DEF KeptBy, CopiesKeep, CallKeeps, ConfirmedIsSettled, LoadsAlone
    <2> QED BY <1>0, <2>1, <2>2, <2>4, KeptMoves
<1>3. CASE QueueMerge(t)
    <2>0. Moves(t, "push", call, item, copy) \/ Moves(t, "flush", "flush", NoItem, {})
        BY <1>0, <1>3, StepMoves
    <2>1. \/ thread'[t].pc = "push" /\ thread'[t].call = "queue"
          \/ thread'[t].pc = "flush" /\ thread'[t].call = "flush"
        BY <1>0, <1>3, <1>n, <2>0 DEF QueueMerge
    <2>2. /\ thread[t].pc = "ready" /\ UNCHANGED <<loaded, stored, expired, kept, atRisk>>
          /\ settled \subseteq settled' /\ outbox \subseteq outbox' \cup settled'
        BY <1>3 DEF QueueMerge, At
    <2>3. Owed' \subseteq Owed /\ Owed' \subseteq outbox' /\ loaded
        BY <1>p, <2>2 DEF Owed
    <2>4. KeptBy(t)'
        BY <2>1, <2>2, <2>3 DEF KeptBy, CopiesKeep, CallKeeps, ConfirmedIsSettled, LoadsAlone
    <2> QED BY <1>0, <2>2, <2>3, <2>4, KeptMoves
<1>4. CASE QueuePush(t)
    <2>0. Moves(t, "compact", call, item, copy)
        BY <1>0, <1>4, StepMoves
    <2>1. /\ thread'[t].pc = "compact" /\ thread'[t].call = call /\ thread'[t].item = item /\ thread[t].pc = "push"
          /\ outbox' = outbox \cup {item} /\ UNCHANGED <<loaded, stored, expired, kept, settled, atRisk>>
        BY <1>0, <1>4, <1>n, <2>0 DEF QueuePush, At, history
    <2>2. Owed' = Owed /\ Owed \subseteq outbox /\ loaded /\ call = "queue"
        BY <1>0, <1>p, <2>1 DEF Owed, CallsInv
    <2>4. KeptBy(t)'
        BY <2>1, <2>2 DEF KeptBy, CopiesKeep, CallKeeps, ConfirmedIsSettled, LoadsAlone
    <2> QED BY <1>0, <2>1, <2>2, <2>4, KeptMoves
<1>5. CASE Compact(t)
    <2>0. Moves(t, "assign", call, item, outbox \ expired)
        BY <1>0, <1>5, StepMoves
    <2>1. /\ thread'[t].pc = "assign" /\ thread'[t].call = call /\ thread'[t].item = item
          /\ thread[t].pc = "compact" /\ thread'[t].copy = outbox \ expired
          /\ UNCHANGED <<loaded, outbox, stored, expired, kept, settled, atRisk>>
        BY <1>0, <1>5, <1>n, <2>0 DEF Compact, At, memory, history
    <2>2. Owed' = Owed /\ Owed \subseteq outbox /\ loaded /\ call = "queue"
        BY <1>0, <1>p, <2>1 DEF Owed, CallsInv
    <2>4. KeptBy(t)'
        BY <1>0, <2>1, <2>2 DEF KeptBy, CopiesKeep, CallKeeps, ConfirmedIsSettled, LoadsAlone
    <2> QED BY <1>0, <2>1, <2>2, <2>4, KeptMoves
<1>6. CASE Assign(t)
    <2>0. Moves(t, "evict", call, item, {})
        BY <1>0, <1>6, StepMoves
    <2>1. /\ thread'[t].pc = "evict" /\ thread'[t].call = call /\ thread'[t].item = item
          /\ thread[t].pc = "assign" /\ outbox' = copy
          /\ UNCHANGED <<loaded, stored, expired, kept, settled, atRisk>>
        BY <1>0, <1>6, <1>n, <2>0 DEF Assign, At, history
    <2>2. Owed' = Owed /\ Owed \subseteq copy /\ loaded /\ call = "queue"
        BY <1>0, <1>p, <2>1 DEF Owed, CallsInv, KeptBy, CopiesKeep
    <2>4. KeptBy(t)'
        BY <1>0, <2>1, <2>2 DEF KeptBy, CopiesKeep, CallKeeps, ConfirmedIsSettled, LoadsAlone
    <2> QED BY <1>0, <2>1, <2>2, <2>4, KeptMoves
<1>7. CASE Evict(t)
    <2>0. PICK pc \in {"evict", "encode"} : Moves(t, pc, call, item, copy)
        BY <1>0, <1>7, StepMoves
    <2>1. thread'[t].pc \in {"evict", "encode"} /\ thread'[t].call = call /\ thread'[t].item = item
        BY <1>n, <2>0
    <2>2. /\ thread[t].pc = "evict" /\ UNCHANGED <<loaded, stored, expired, kept, atRisk>>
          /\ settled \subseteq settled' /\ outbox \subseteq outbox' \cup settled'
        BY <1>7 DEF Evict, At, Victims
    <2>3. Owed' \subseteq Owed /\ Owed' \subseteq outbox' /\ loaded /\ call = "queue"
        BY <1>0, <1>p, <2>2 DEF Owed, CallsInv
    <2>4. KeptBy(t)'
        BY <1>0, <2>1, <2>2, <2>3 DEF KeptBy, CopiesKeep, CallKeeps, ConfirmedIsSettled, LoadsAlone
    <2> QED BY <1>0, <2>2, <2>3, <2>4, KeptMoves
<1>8. CASE Encode(t)
    <2>0. Moves(t, "put", call, item, outbox)
        BY <1>0, <1>8, StepMoves
    <2>1. /\ thread'[t].pc = "put" /\ thread'[t].call = call /\ thread'[t].item = item /\ thread[t].pc = "encode"
          /\ thread'[t].copy = outbox
          /\ UNCHANGED <<loaded, outbox, stored, expired, kept, settled, atRisk>>
        BY <1>0, <1>8, <1>n, <2>0 DEF Encode, At, memory, history
    <2>2. Owed' = Owed /\ Owed \subseteq outbox /\ loaded
        BY <1>0, <1>p, <2>1 DEF Owed
    <2>4. KeptBy(t)'
        BY <1>0, <2>1, <2>2 DEF KeptBy, CopiesKeep, CallKeeps, ConfirmedIsSettled, LoadsAlone
    <2> QED BY <1>0, <2>1, <2>2, <2>4, KeptMoves
<1>9. CASE Put(t)
    <2>0. Moves(t, "flush", "flush", NoItem, {}) \/ Moves(t, "idle", "none", NoItem, {})
        BY <1>0, <1>9, StepMoves
    <2>1. /\ thread[t].pc = "put" /\ UNCHANGED <<loaded, outbox, expired, settled, atRisk>>
          /\ \/ stored' = copy /\ kept' = (IF call = "queue" THEN kept \cup {item} ELSE kept)
             \/ UNCHANGED <<stored, kept>>
        BY <1>9 DEF Put, At, memory
    <2>2. \/ thread'[t].pc = "flush" /\ thread'[t].call = "flush"
          \/ thread'[t].pc = "idle" /\ thread'[t].call = "none"
        BY <1>0, <1>9, <1>n, <2>0
    <2>3. Owed \subseteq outbox /\ Owed \subseteq copy /\ loaded
        BY <1>0, <1>p, <2>1 DEF KeptBy, CopiesKeep
    <2>4. call = "queue" /\ item \notin atRisk =>
              /\ item \in outbox \cup settled /\ item \in copy \cup settled
              /\ \A u \in Threads : u # t => thread[u].pc = "idle"
        BY <1>0, <2>1 DEF KeptBy, CallKeeps, AloneInv
    <2>5. Owed' \subseteq outbox' /\ Owed' \subseteq stored'
        BY <1>0, <2>1, <2>3, <2>4 DEF Owed
    <2>6. KeptBy(t)'
        BY <2>1, <2>2, <2>3, <2>5 DEF KeptBy, CopiesKeep, CallKeeps, ConfirmedIsSettled, LoadsAlone
    <2>7. ASSUME NEW u \in Threads, u # t PROVE KeptBy(u)'
        <3>1. CASE Owed' \subseteq Owed
            BY <2>1, <2>7, <3>1, KeptRest
        <3>2. CASE ~(Owed' \subseteq Owed)
            <4>1. call = "queue" /\ item \notin atRisk
                BY <2>1, <3>2 DEF Owed
            <4>2. thread'[u].pc = "idle" /\ thread'[u].call = "none"
                BY <1>0, <1>m, <2>4, <2>7, <4>1 DEF CallsInv
            <4> QED BY <4>2 DEF KeptBy, CopiesKeep, CallKeeps, ConfirmedIsSettled, LoadsAlone
        <3> QED BY <3>1, <3>2
    <2> QED BY <1>0, <2>1, <2>5, <2>6, <2>7 DEF KeptInv
<1>10. CASE Flush(t)
    <2>0. Moves(t, "idle", "none", NoItem, {}) \/ Moves(t, "encode", "flush", NoItem, {})
        BY <1>0, <1>10, StepMoves
    <2>1. /\ UNCHANGED <<loaded, outbox, stored, expired, kept, settled, atRisk>>
          /\ thread[t].pc \in {"flush", "ready"}
        BY <1>10 DEF Flush, At, history
    <2>2. \/ thread'[t].pc = "idle" /\ thread'[t].call = "none"
          \/ thread'[t].pc = "encode" /\ thread'[t].call = "flush"
        BY <1>0, <1>10, <1>n, <2>0
    <2>3. Owed' = Owed /\ Owed \subseteq outbox /\ loaded
        BY <1>p, <2>1 DEF Owed
    <2>4. KeptBy(t)'
        BY <2>1, <2>2, <2>3 DEF KeptBy, CopiesKeep, CallKeeps, ConfirmedIsSettled, LoadsAlone
    <2> QED BY <1>0, <2>1, <2>3, <2>4, KeptMoves
<1>11. CASE ConfirmFilter(t)
    <2>0. Moves(t, "swap", call, item, {i \in outbox : ~SameEvent(i, item)})
        BY <1>0, <1>11, StepMoves
    <2>1. /\ thread'[t].pc = "swap" /\ thread'[t].call = "confirm" /\ thread[t].pc = "ready" /\ call = "confirm"
          /\ thread'[t].copy = {i \in outbox : ~SameEvent(i, item)}
          /\ UNCHANGED <<loaded, outbox, stored, expired, kept, settled, atRisk>>
        BY <1>0, <1>11, <1>n, <2>0 DEF ConfirmFilter, At, memory, history
    <2>2. Owed' = Owed /\ Owed \subseteq outbox /\ loaded
        BY <1>p, <2>1 DEF Owed
    <2>3. Owed \subseteq thread'[t].copy
        BY <1>0, <2>1, <2>2 DEF KeptBy, ConfirmedIsSettled
    <2>4. KeptBy(t)'
        BY <2>1, <2>2, <2>3 DEF KeptBy, CopiesKeep, CallKeeps, ConfirmedIsSettled, LoadsAlone
    <2> QED BY <1>0, <2>1, <2>2, <2>4, KeptMoves
<1>12. CASE ConfirmSwap(t)
    <2>0. Moves(t, "idle", "none", NoItem, {}) \/ Moves(t, "encode", call, item, {})
        BY <1>0, <1>12, StepMoves
    <2>1. /\ thread[t].pc = "swap" /\ call = "confirm" /\ outbox' \in {outbox, copy}
          /\ UNCHANGED <<loaded, stored, expired, kept, settled, atRisk>>
        BY <1>0, <1>12 DEF ConfirmSwap, At, CallsInv, history
    <2>2. /\ thread'[t].pc \in {"idle", "encode"}
          /\ thread'[t].call \in {"none", "confirm"}
        BY <1>0, <1>12, <1>n, <2>0, <2>1
    <2>3. Owed' = Owed /\ Owed \subseteq outbox' /\ loaded
        BY <1>0, <1>p, <2>1 DEF Owed, KeptBy, CopiesKeep
    <2>4. KeptBy(t)'
        BY <2>1, <2>2, <2>3 DEF KeptBy, CopiesKeep, CallKeeps, ConfirmedIsSettled, LoadsAlone
    <2> QED BY <1>0, <2>1, <2>3, <2>4, KeptMoves
<1> QED BY <1>1, <1>2, <1>3, <1>4, <1>5, <1>6, <1>7, <1>8, <1>9, <1>10, <1>11, <1>12 DEF ThreadNext

\* A call begins.
LEMMA KeptEnters ==
    ASSUME TypeInv, KeptInv, NEW t \in Threads, NEW call, NEW item, Enter(t, call, item),
           UNCHANGED <<loaded, outbox, stored, expired, kept>>, settled \subseteq settled',
           call = "confirm" => \A j \in outbox \cup stored : SameEvent(j, item) => j \in settled'
    PROVE  KeptInv'
<1>1. /\ thread[t].pc = "idle" /\ atRisk \subseteq atRisk'
      /\ thread'[t].pc = IF loaded THEN "ready" ELSE "load"
      /\ thread'[t].call = call /\ thread'[t].item = item
      /\ \A u \in Threads : u # t => thread'[u] = thread[u]
    BY EnterFields
<1>2. Owed' \subseteq Owed /\ Owed \subseteq stored /\ Owed' \cap settled' = {} /\ expired' \subseteq settled'
    BY <1>1 DEF Owed, KeptInv
<1>3. ASSUME NEW u \in Threads, thread'[u].pc \in {"load", "parse"}
      PROVE  Owed' = {} \/ \A w \in Threads : w # u => thread'[w].pc = "idle"
    <2>1. CASE \A w \in Threads : thread[w].pc = "idle"
        BY <1>1, <1>3, <2>1
    <2>2. CASE ~(\A w \in Threads : thread[w].pc = "idle")
        <3>1. Loading
            BY <1>1, <1>3 DEF Loading
        <3>2. kept \subseteq atRisk'
            BY <2>2, <3>1, EnterFields
        <3> QED BY <3>2 DEF Owed
    <2> QED BY <2>1, <2>2
<1>4. KeptBy(t)'
    BY <1>1, <1>2, <1>3 DEF KeptBy, CopiesKeep, CallKeeps, ConfirmedIsSettled, LoadsAlone
<1>5. ASSUME NEW u \in Threads, u # t PROVE KeptBy(u)'
    <2>1. CASE thread[u].pc = "idle"
        <3>1. thread'[u].pc = "idle" /\ thread'[u].call = "none"
            BY <1>1, <1>5, <2>1 DEF TypeInv, CallsInv
        <3> QED BY <3>1 DEF KeptBy, CopiesKeep, CallKeeps, ConfirmedIsSettled, LoadsAlone
    <2>2. CASE thread[u].pc # "idle"
        <3>1. thread[u].call = "queue" => thread[u].item \in atRisk'
            BY <2>2, EnterFields
        <3>2. KeptBy(u)
            BY DEF KeptInv
        <3> QED BY <1>1, <1>2, <1>3, <1>5, <3>1, <3>2, KeptOthers
    <2> QED BY <2>1, <2>2
<1>6. loaded' /\ (\A u \in Threads : thread'[u].pc # "parse") => Owed' \subseteq outbox'
    <2> SUFFICES ASSUME loaded', \A u \in Threads : thread'[u].pc # "parse" PROVE Owed \subseteq outbox
        BY <1>2
    <2>1. \A u \in Threads : thread[u].pc # "parse"
        BY <1>1
    <2> QED BY <2>1 DEF KeptInv
<1> QED BY <1>2, <1>4, <1>5, <1>6 DEF KeptInv

LEMMA KeptStep ==
    ASSUME TypeInv, AloneInv, KeptInv, [Next]_vars
    PROVE  KeptInv'
<1>1. ASSUME NEW t \in Threads, ThreadNext(t) PROVE KeptInv'
    BY <1>1, KeptThread
<1>2. ASSUME NEW t \in Threads, NEW kind, NEW name, QueueCall(t, kind, name) PROVE KeptInv'
    <2> DEFINE i == [kind |-> kind, of |-> name, at |-> queued + 1]
    <2>1. Enter(t, "queue", i) /\ UNCHANGED <<loaded, outbox, stored, expired, kept, settled>>
        BY <1>2 DEF QueueCall, memory
    <2> HIDE DEF i
    <2> QED BY <2>1, KeptEnters
<1>3. ASSUME NEW t \in Threads, NEW i \in uplink, ConfirmCall(t, i) PROVE KeptInv'
    <2>1. /\ Enter(t, "confirm", i) /\ UNCHANGED <<loaded, outbox, stored, expired, kept>>
          /\ settled \subseteq settled'
          /\ \A j \in outbox \cup stored : SameEvent(i, j) => j \in settled'
        BY <1>3 DEF ConfirmCall, memory
    <2>2. \A j : SameEvent(j, i) => SameEvent(i, j)
        BY DEF SameEvent
    <2> QED BY <2>1, <2>2, KeptEnters
<1>4. ASSUME NEW t \in Threads, HeartbeatCall(t) \/ ReconnectCall(t) PROVE KeptInv'
    <2>1. PICK call \in {"heartbeat", "flush"} : Enter(t, call, NoItem)
        BY <1>4 DEF HeartbeatCall, ReconnectCall
    <2>2. UNCHANGED <<loaded, outbox, stored, expired, kept, settled>>
        BY <1>4 DEF HeartbeatCall, ReconnectCall, memory
    <2> QED BY <2>1, <2>2, KeptEnters
<1>5. ASSUME UNCHANGED <<stored, outbox, loaded, thread, kept, atRisk>>, settled \subseteq settled',
             expired' \subseteq settled'
      PROVE  KeptInv'
    <2>1. Owed' \subseteq Owed /\ Owed' \cap settled' = {}
        BY <1>5 DEF Owed
    <2>2. \A u \in Threads : KeptBy(u) => KeptBy(u)'
        BY <1>5, <2>1 DEF KeptBy, CopiesKeep, CallKeeps, ConfirmedIsSettled, LoadsAlone
    <2> QED BY <1>5, <2>1, <2>2 DEF KeptInv
<1>6. ASSUME NEW i, RetryDue(i) \/ Expire(i) \/ Lose(i) PROVE KeptInv'
    <2>1. expired \subseteq settled
        BY DEF KeptInv
    <2> QED BY <1>5, <1>6, <2>1 DEF RetryDue, Expire, Lose, memory, history
<1>7. CASE Crash
    <2>1. \A t \in Threads : thread'[t].pc = "idle" /\ thread'[t].call = "none"
        BY <1>7, IdleFields DEF Crash
    <2>2. loaded' = FALSE /\ UNCHANGED <<stored, expired, kept, settled, atRisk>>
        BY <1>7 DEF Crash, history
    <2>3. Owed' = Owed
        BY <2>2 DEF Owed
    <2>4. \A t \in Threads : KeptBy(t)'
        BY <2>1 DEF KeptBy, CopiesKeep, CallKeeps, ConfirmedIsSettled, LoadsAlone
    <2> QED BY <2>2, <2>3, <2>4 DEF KeptInv
<1>8. CASE UNCHANGED vars
    <2>1. expired \subseteq settled
        BY DEF KeptInv
    <2> QED BY <1>5, <1>8, <2>1 DEF vars
<1> QED BY <1>1, <1>2, <1>3, <1>4, <1>6, <1>7, <1>8 DEF Next

\* README.md:27: however the calls of any number of threads interleave, an event that its
\* own call has written to storage stays there, and in the array once it is loaded,
\* through crashes, failing writes and losses, until it is confirmed, expires, is merged
\* or given up by priority; unless its call was overlapped, or the stored events could
\* not be read or were loaded while another call ran. (main.js queueCloudEvent,
\* acknowledgeCloudEvent, loadCloudEventOutbox)
THEOREM KeptEventsStay == Spec => []KeptUntilSettled
<1>1. Init => KeptInv
    <2> SUFFICES ASSUME Init PROVE KeptInv
        OBVIOUS
    <2>1. Owed = {} /\ ~loaded /\ expired = {}
        BY DEF Init, Owed
    <2>2. \A t \in Threads : KeptBy(t)
        BY IdleFields DEF Init, KeptBy, CopiesKeep, CallKeeps, ConfirmedIsSettled, LoadsAlone
    <2> QED BY <2>1, <2>2 DEF KeptInv
<1>2. TypeInv /\ AloneInv /\ KeptInv /\ [Next]_vars => KeptInv'
    BY KeptStep
<1>3. KeptInv => KeptUntilSettled
    BY DEF KeptInv, KeptUntilSettled, Owed
<1> QED BY <1>1, <1>2, <1>3, TypeInvariance, PTL DEF Spec
=============================================================================
