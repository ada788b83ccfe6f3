------------------------- MODULE ServerTables_proofs -------------------------
(***************************************************************************)
(* Three tables of the server, for any number of what they hold.           *)
(*   HubTable: the types, and commands reach the newest connection of a    *)
(*     device.                                                             *)
(*   HeartbeatStore: an idle instance does not cover a running one, and    *)
(*     what is not written stays marked.                                   *)
(*   CronRecovery: no time of a cron task is executed twice. What a        *)
(*     restart knows is next_run_at, so the invariant says which times it  *)
(*     may still stand for.                                                *)
(***************************************************************************)
EXTENDS HubTable, HeartbeatStore, CronRecovery, TLAPS

-----------------------------------------------------------------------------
(* HubTable                                                                *)

\* A connection waits for its registration once it is opened, and for its removal
\* once its goroutine is through.
QueuesInv ==
    /\ \A i \in DOMAIN register : phase[register[i]] # "new"
    /\ \A i \in DOMAIN unregister : phase[unregister[i]] = "done"

HubInv == HubTypeOK /\ QueuesInv /\ NewestIsReachable

\* What Closed does to the sockets: it opens none.
LEMMA ClosedSockets ==
    ASSUME HubTypeOK, NEW c \in Connections \cup {None}
    PROVE  Closed(c) \in [Connections -> BOOLEAN]
           /\ \A d \in Connections : Closed(c)[d] => up[d]
  BY SMT DEF HubTypeOK, Closed, None, Connections

\* What Append does to a queue of connections.
LEMMA AppendFacts ==
    ASSUME NEW S, NEW q \in Seq(S), NEW c \in S
    PROVE  /\ Append(q, c) \in Seq(S)
           /\ \A i \in DOMAIN Append(q, c) :
                \/ i \in DOMAIN q /\ Append(q, c)[i] = q[i]
                \/ Append(q, c)[i] = c
           /\ \A i \in DOMAIN q : i \in DOMAIN Append(q, c) /\ Append(q, c)[i] = q[i]
  BY SMT

\* What Tail does to it.
LEMMA TailFacts ==
    ASSUME NEW S, NEW q \in Seq(S), q # <<>>
    PROVE  /\ Head(q) \in S /\ Head(q) = q[1] /\ 1 \in DOMAIN q
           /\ Tail(q) \in Seq(S)
           /\ \A i \in DOMAIN Tail(q) : i + 1 \in DOMAIN q /\ Tail(q)[i] = q[i + 1]
           /\ \A i \in DOMAIN q :
                i = 1 \/ (i - 1 \in DOMAIN Tail(q) /\ Tail(q)[i - 1] = q[i])
  BY SMT

LEMMA HubStarts == ASSUME HubAssumption PROVE HubInit => HubInv
<1> SUFFICES ASSUME HubInit PROVE HubInv
  OBVIOUS
<1>1. HubTypeOK
  <2>1. <<>> \in Seq(Connections)
    OBVIOUS
  <2>2. register \in Seq(Connections) /\ unregister \in Seq(Connections)
    BY <2>1, Zenon DEF HubInit
  <2>3. /\ kind \in [Connections -> {"ws", "mqtt"}] /\ phase \in [Connections -> Phases]
        /\ up \in [Connections -> BOOLEAN]
    BY SMT DEF HubInit, Phases
  <2>4. timeouts \in 0..MaxTimeouts
    BY SMT DEF HubInit, HubAssumption
  <2> QED BY <2>2, <2>3, <2>4, Zenon DEF HubInit, HubTypeOK, None
<1>2. QueuesInv
  BY SMT DEF HubInit, QueuesInv
<1>3. Opened = {}
  BY DEF HubInit, Opened
<1> QED BY <1>1, <1>2, <1>3 DEF HubInv, NewestIsReachable

\* Every operation of the hub keeps the types.
LEMMA TypesStep == ASSUME HubAssumption, HubTypeOK, [HubNext]_hubVars PROVE HubTypeOK'
<1> USE DEF HubAssumption, HubTypeOK, GoOn, Timeout, None, Phases
<1>1. ASSUME NEW c \in Connections, NEW k \in {"ws", "mqtt"}, Accept(c, k) PROVE HubTypeOK'
  BY <1>1 DEF Accept
<1>2. ASSUME NEW c \in Connections, BrokerRegister(c) PROVE HubTypeOK'
  BY <1>2, ClosedSockets DEF BrokerRegister
<1>3. ASSUME NEW c \in Connections, EnqueueRegister(c) PROVE HubTypeOK'
  <2>1. Append(register, c) \in Seq(Connections)
    BY AppendFacts
  <2>2. Closed(c) \in [Connections -> BOOLEAN]
    BY ClosedSockets
  <2>3. register' \in Seq(Connections) /\ up' \in [Connections -> BOOLEAN]
    BY <1>3, <2>1, <2>2, Zenon DEF EnqueueRegister
  <2>4. phase' \in [Connections -> Phases] /\ timeouts' \in 0..MaxTimeouts
    BY <1>3 DEF EnqueueRegister
  <2>5. UNCHANGED <<kind, clients, brokered, unregister, overtaken>>
    BY <1>3, Zenon DEF EnqueueRegister
  <2> QED BY <2>3, <2>4, <2>5, Zenon
<1>4. CASE Register
  <2>1. Head(register) \in Connections /\ Tail(register) \in Seq(Connections)
    BY <1>4 DEF Register
  <2>2. up' \in [Connections -> BOOLEAN]
    BY <1>4, ClosedSockets DEF Register
  <2> QED BY <1>4, <2>1, <2>2 DEF Register, Opened, Connections
<1>5. CASE Unregister
  BY <1>5 DEF Unregister, Leaves
<1>6. ASSUME NEW c \in Connections, Drop(c) PROVE HubTypeOK'
  BY <1>6, ClosedSockets DEF Drop
<1>7. ASSUME NEW c \in Connections, ReadEnds(c) PROVE HubTypeOK'
  BY <1>7 DEF ReadEnds
<1>8. ASSUME NEW c \in Connections, EnqueueUnregister(c) PROVE HubTypeOK'
  <2>1. Append(unregister, c) \in Seq(Connections)
    BY AppendFacts
  <2>2. unregister' \in Seq(Connections)
    BY <1>8, <2>1, Zenon DEF EnqueueUnregister
  <2>3. phase' \in [Connections -> Phases] /\ timeouts' \in 0..MaxTimeouts
    BY <1>8 DEF EnqueueUnregister
  <2>4. UNCHANGED <<kind, up, clients, brokered, register, overtaken>>
    BY <1>8, Zenon DEF EnqueueUnregister
  <2> QED BY <2>2, <2>3, <2>4, Zenon
<1>9. CASE UNCHANGED hubVars
  BY <1>9 DEF hubVars
<1> QED BY <1>1, <1>2, <1>3, <1>4, <1>5, <1>6, <1>7, <1>8, <1>9 DEF HubNext

\* The queues hold what they say after every operation.
LEMMA QueuesStep ==
    ASSUME HubAssumption, HubTypeOK, QueuesInv, [HubNext]_hubVars PROVE QueuesInv'
<1> USE DEF HubTypeOK, QueuesInv, GoOn, None
<1>1. ASSUME NEW c \in Connections, NEW k \in {"ws", "mqtt"}, Accept(c, k) PROVE QueuesInv'
  BY <1>1 DEF Accept
<1>2. ASSUME NEW c \in Connections, BrokerRegister(c) PROVE QueuesInv'
  BY <1>2 DEF BrokerRegister
<1>3. ASSUME NEW c \in Connections, EnqueueRegister(c) PROVE QueuesInv'
  <2>1. \A d \in Connections : phase'[d] = "new" => phase[d] = "new"
    BY <1>3 DEF EnqueueRegister
  <2>2. phase'[c] # "new" /\ \A d \in Connections : phase[d] = "done" => phase'[d] = "done"
    BY <1>3 DEF EnqueueRegister
  <2>3. register' = register \/ register' = Append(register, c)
    BY <1>3, Zenon DEF EnqueueRegister
  <2>4. \A i \in DOMAIN register' : phase'[register'[i]] # "new"
    BY <2>1, <2>2, <2>3, AppendFacts
  <2>5. unregister' = unregister
    BY <1>3, Zenon DEF EnqueueRegister
  <2> QED BY <2>2, <2>4, <2>5
<1>4. CASE Register
  BY <1>4 DEF Register
<1>5. CASE Unregister
  BY <1>5 DEF Unregister
<1>6. ASSUME NEW c \in Connections, Drop(c) PROVE QueuesInv'
  BY <1>6 DEF Drop
<1>7. ASSUME NEW c \in Connections, ReadEnds(c) PROVE QueuesInv'
  BY <1>7 DEF ReadEnds
<1>8. ASSUME NEW c \in Connections, EnqueueUnregister(c) PROVE QueuesInv'
  <2>1. phase'[c] = "done" /\ \A d \in Connections : phase[d] = "done" => phase'[d] = "done"
    BY <1>8 DEF EnqueueUnregister
  <2>2. \A d \in Connections : phase'[d] = "new" => phase[d] = "new"
    BY <1>8 DEF EnqueueUnregister
  <2>3. unregister' = unregister \/ unregister' = Append(unregister, c)
    BY <1>8, Zenon DEF EnqueueUnregister
  <2>4. \A i \in DOMAIN unregister' : phase'[unregister'[i]] = "done"
    <3>1. CASE unregister' = unregister
      <4> TAKE i \in DOMAIN unregister'
      <4>1. phase[unregister[i]] = "done" /\ unregister[i] \in Connections
        BY <3>1
      <4> QED BY <2>1, <3>1, <4>1
    <3>2. CASE unregister' = Append(unregister, c)
      <4> TAKE i \in DOMAIN unregister'
      <4>1. \/ i \in DOMAIN unregister /\ unregister'[i] = unregister[i]
            \/ unregister'[i] = c
        BY <3>2, AppendFacts
      <4> QED BY <2>1, <4>1
    <3> QED BY <2>3, <3>1, <3>2
  <2>5. register' = register
    BY <1>8, Zenon DEF EnqueueUnregister
  <2> QED BY <2>2, <2>4, <2>5
<1>9. CASE UNCHANGED hubVars
  BY <1>9 DEF hubVars
<1> QED BY <1>1, <1>2, <1>3, <1>4, <1>5, <1>6, <1>7, <1>8, <1>9 DEF HubNext

\* The newest connection stays in the table: whoever is put there instead comes out of
\* the queue after it, and who is removed has ended.
LEMMA ReachableStep ==
    ASSUME HubAssumption, HubInv, [HubNext]_hubVars, ~overtaken',
           NEW n \in Opened', Newest(n)', Registered(n)', up'[n]
    PROVE  clients' = n
<1> USE DEF HubInv, HubTypeOK, GoOn, None, Opened, Newest, Registered, NewestIsReachable
<1>0. n \in Connections /\ phase'[n] = "open"
  BY DEF Connections
<1>1. ASSUME NEW c \in Connections, NEW k \in {"ws", "mqtt"}, Accept(c, k) PROVE clients' = n
  BY <1>0, <1>1 DEF Accept
<1>2. ASSUME NEW c \in Connections, BrokerRegister(c) PROVE clients' = n
  BY <1>0, <1>2, ClosedSockets DEF BrokerRegister
<1>3. ASSUME NEW c \in Connections, EnqueueRegister(c) PROVE clients' = n
  <2>1. n # c
    BY <1>0, <1>3 DEF EnqueueRegister
  <2>2. \A i \in DOMAIN register : register[i] # n
    BY <1>0, <1>3, <2>1 DEF EnqueueRegister
  <2> QED BY <1>0, <1>3, <2>1, <2>2, ClosedSockets DEF EnqueueRegister
<1>4. CASE Register
  <2> DEFINE c == Head(register)
  <2>1. c \in Connections /\ phase[c] # "new" /\ clients' = c
    BY <1>4 DEF Register, QueuesInv
  <2>2. SUFFICES ASSUME n # c PROVE FALSE
    BY <2>1
  <2>3. \A i \in DOMAIN register : register[i] # n
    <3>1. \A i \in DOMAIN Tail(register) : Tail(register)[i] # n
      BY <1>4 DEF Register
    <3>2. register[1] # n
      BY <1>4, <2>2, TailFacts DEF Register
    <3>3. register \in Seq(Connections) /\ register # <<>>
      BY <1>4 DEF Register
    <3>4. \A i \in DOMAIN register :
            i = 1 \/ (i - 1 \in DOMAIN Tail(register) /\ Tail(register)[i - 1] = register[i])
      BY <3>3, TailFacts
    <3> QED BY <3>1, <3>2, <3>4, Zenon
  <2>4. c < n
    BY <1>4, <2>1, <2>2, <1>0 DEF Register, Connections
  <2>5. overtaken'
    BY <1>4, <2>3, <2>4, <1>0 DEF Register
  <2> QED BY <2>5
<1>5. CASE Unregister
  <2>1. clients = n
    BY <1>0, <1>5 DEF Unregister
  <2>2. Head(unregister) # n
    BY <1>0, <1>5 DEF Unregister, QueuesInv
  <2> QED BY <1>5, <2>1, <2>2 DEF Unregister, Leaves
<1>6. ASSUME NEW c \in Connections, Drop(c) PROVE clients' = n
  BY <1>0, <1>6, ClosedSockets DEF Drop
<1>7. ASSUME NEW c \in Connections, ReadEnds(c) PROVE clients' = n
  BY <1>0, <1>7 DEF ReadEnds
<1>8. ASSUME NEW c \in Connections, EnqueueUnregister(c) PROVE clients' = n
  BY <1>0, <1>8 DEF EnqueueUnregister
<1>9. CASE UNCHANGED hubVars
  BY <1>0, <1>9 DEF hubVars
<1> QED BY <1>1, <1>2, <1>3, <1>4, <1>5, <1>6, <1>7, <1>8, <1>9 DEF HubNext

LEMMA HubInductive == ASSUME HubAssumption PROVE HubSpec => []HubInv
<1>1. ASSUME HubInv, [HubNext]_hubVars PROVE HubInv'
  <2>1. NewestIsReachable'
    BY <1>1, ReachableStep DEF NewestIsReachable
  <2> QED BY <1>1, <2>1, TypesStep, QueuesStep DEF HubInv
<1> QED BY <1>1, HubStarts, PTL DEF HubSpec

\* Run, DeviceWSHandler and serveClient keep every variable within its type.
THEOREM HubTypes == ASSUME HubAssumption PROVE HubSpec => []HubTypeOK
<1>1. HubInv => HubTypeOK
  BY DEF HubInv
<1> QED BY <1>1, HubInductive, PTL

\* websocket.go:416: the hub sends commands to the newest registered connection of a
\* device, unless an older one was registered after it.
THEOREM CommandsReachTheNewest == ASSUME HubAssumption PROVE HubSpec => []NewestIsReachable
<1>1. HubInv => NewestIsReachable
  BY DEF HubInv
<1> QED BY <1>1, HubInductive, PTL

-----------------------------------------------------------------------------
(* HeartbeatStore                                                          *)

(* The owner of the state in heartbeatCache. *)

BeatsOf(r) == [from: {r}, script: {"idle", "running"}, seq: Nat, transition: BOOLEAN]

Entries == [status: {0, 1, 3}, script: {"", "idle", "running"},
            owner: Reporters \cup {NoReporter}, seq: Nat]

ReporterTypes ==
    /\ script \in [Reporters -> {"idle", "running"}] /\ seq \in [Reporters -> Nat]
    /\ DOMAIN messages = Reporters /\ \A r \in Reporters : messages[r] \in Seq(BeatsOf(r))

\* The entry belongs to the reporter that was heard to be running.
OwnerInv ==
    /\ live \in Reporters \cup {NoReporter}
    /\ live # NoReporter => entry.script = "running" /\ entry.owner = live /\ recent

BusyInv == ReporterTypes /\ entry \in Entries /\ OwnerInv

\* What Head, Tail and Append do to the heartbeats of a reporter.
LEMMA SequenceFacts ==
    ASSUME NEW S, NEW q \in Seq(S)
    PROVE  /\ q # <<>> => Head(q) \in S /\ Tail(q) \in Seq(S)
           /\ \A m \in S : Append(q, m) \in Seq(S)
  BY SMT

\* What a new status does to the entry.
LEMMA StatusFacts ==
    ASSUME NEW e \in Entries, NEW s \in {0, 1, 3}
    PROVE  /\ [e EXCEPT !.status = s] \in Entries
           /\ [e EXCEPT !.status = s].script = e.script
           /\ [e EXCEPT !.status = s].owner = e.owner
  BY DEF Entries

\* A connection or a pong changes neither the state nor its owner.
LEMMA TouchFacts ==
    ASSUME entry \in Entries
    PROVE  MergeTouch \in Entries /\ MergeTouch.script = entry.script /\ MergeTouch.owner = entry.owner
<1>1. PICK s \in {0, 1, 3} : MergeTouch = [entry EXCEPT !.status = s]
  BY DEF MergeTouch, Entries
<1> QED BY <1>1, StatusFacts

LEMMA EntryFacts ==
    ASSUME NEW st \in {0, 1, 3}, NEW sc \in {"", "idle", "running"},
           NEW o \in Reporters \cup {NoReporter}, NEW q \in Nat
    PROVE  LET e == [status |-> st, script |-> sc, owner |-> o, seq |-> q]
           IN  e \in Entries /\ e.script = sc /\ e.owner = o
  BY DEF Entries

LEMMA BusyInit == ASSUME HeartbeatAssumption PROVE HeartbeatInit => BusyInv
<1> SUFFICES ASSUME HeartbeatInit PROVE BusyInv
  OBVIOUS
<1>1. ReporterTypes
  <2>1. messages = [r \in Reporters |-> <<>>]
    BY DEF HeartbeatInit
  <2>3. \A r \in Reporters : <<>> \in Seq(BeatsOf(r))
    OBVIOUS
  <2>2. script \in [Reporters -> {"idle", "running"}] /\ seq \in [Reporters -> Nat]
    BY DEF HeartbeatInit
  <2> QED BY <2>1, <2>2, <2>3 DEF ReporterTypes
<1>2. entry \in Entries
  BY EntryFacts DEF HeartbeatInit
<1>3. OwnerInv
  BY DEF HeartbeatInit, OwnerInv
<1> QED BY <1>1, <1>2, <1>3 DEF BusyInv

\* A heartbeat leaves with the name and the state of its reporter.
LEMMA ReportersStep ==
    ASSUME ReporterTypes, [HeartbeatNext]_heartbeatVars PROVE ReporterTypes'
<1>1. ASSUME NEW r \in Reporters, ChangeScript(r) PROVE ReporterTypes'
  <2>1. /\ script' = [script EXCEPT ![r] = IF @ = "idle" THEN "running" ELSE "idle"]
        /\ seq' = [seq EXCEPT ![r] = @ + 1]
    BY <1>1 DEF ChangeScript
  <2>2. script' \in [Reporters -> {"idle", "running"}] /\ seq' \in [Reporters -> Nat]
    BY <2>1 DEF ReporterTypes
  <2> DEFINE m == [from |-> r, script |-> script'[r], seq |-> seq'[r], transition |-> TRUE]
  <2>3. m \in BeatsOf(r)
    BY <2>2 DEF BeatsOf
  <2>4. messages' = [messages EXCEPT ![r] = Append(@, m)]
    BY <1>1 DEF ChangeScript, Send
  <2>5. Append(messages[r], m) \in Seq(BeatsOf(r))
    BY <2>3, SequenceFacts DEF ReporterTypes
  <2>6. DOMAIN messages' = Reporters /\ \A o \in Reporters : messages'[o] \in Seq(BeatsOf(o))
    BY <2>4, <2>5, Zenon DEF ReporterTypes
  <2> QED BY <2>2, <2>6 DEF ReporterTypes
<1>2. ASSUME NEW r \in Reporters, Heartbeat(r) PROVE ReporterTypes'
  BY <1>2, SequenceFacts DEF Heartbeat, Send, ReporterTypes, BeatsOf
<1>3. ASSUME NEW r \in Reporters, Receive(r) PROVE ReporterTypes'
  BY <1>3, SequenceFacts DEF Receive, phoneState, ReporterTypes
<1>4. CASE Pong \/ Connect
  BY <1>4 DEF Pong, Connect, ReporterTypes
<1>5. CASE HoldPasses \/ Disconnect \/ Removed
  BY <1>5 DEF HoldPasses, Disconnect, Removed, phoneState, ReporterTypes
<1>6. CASE FlushSteps \/ Age \/ MonitorOffline
  BY <1>6 DEF FlushSteps, FlushMark, FlushCopy, FlushWrite, FlushCompare, FlushDelete, Age,
              MonitorOffline, phoneState, ReporterTypes
<1>7. CASE UNCHANGED heartbeatVars
  BY <1>7 DEF heartbeatVars, ReporterTypes
<1> QED BY <1>1, <1>2, <1>3, <1>4, <1>5, <1>6, <1>7 DEF HeartbeatNext, FlushSteps

\* Receive: an idle report of another reporter does not change the entry of a live one.
LEMMA ReceiveKeepsOwner ==
    ASSUME HeartbeatAssumption, BusyInv, NEW r \in Reporters, Receive(r)
    PROVE  entry' \in Entries /\ OwnerInv'
<1> DEFINE m == Head(messages[r])
<1>1. m \in BeatsOf(r)
  BY SequenceFacts DEF BusyInv, ReporterTypes, Receive
<1>2. m.from = r /\ m.script \in {"idle", "running"} /\ m.seq \in Nat
  BY <1>1 DEF BeatsOf
<1>3. /\ entry' = MergeReport(m)
      /\ recent' = (recent \/ m.script = "running")
      /\ live' = IF m.script = "running" THEN r ELSE IF live = r THEN NoReporter ELSE live
  BY Zenon DEF Receive, Store
<1>4. CASE m.script = "running"
  <2>1. entry' = [status |-> 3, script |-> "running", owner |-> r, seq |-> m.seq]
    BY <1>2, <1>3, <1>4 DEF MergeReport
  <2>2. entry' \in Entries /\ entry'.script = "running" /\ entry'.owner = r
    BY <1>2, <2>1, EntryFacts
  <2> QED BY <1>3, <1>4, <2>2 DEF OwnerInv
<1>5. CASE m.script # "running"
  <2>1. \/ entry' = entry
        \/ entry' = [status |-> 1, script |-> "idle", owner |-> r, seq |-> m.seq]
    BY <1>2, <1>3, <1>5 DEF MergeReport
  <2>2. entry' \in Entries
    <3>1. [status |-> 1, script |-> "idle", owner |-> r, seq |-> m.seq] \in Entries
      BY <1>2, EntryFacts
    <3>2. entry \in Entries
      BY DEF BusyInv
    <3> QED BY <2>1, <3>1, <3>2, Zenon
  <2>3. live' \in Reporters \cup {NoReporter}
    BY <1>3, <1>5 DEF BusyInv, OwnerInv
  <2>4. ASSUME live' # NoReporter PROVE entry' = entry /\ live' = live /\ recent'
    <3>1. live' = live /\ live # r /\ live # NoReporter
      BY <1>3, <1>5, <2>4
    <3>2. Busy /\ recent /\ entry.owner # m.from
      BY <1>2, <3>1 DEF Busy, BusyInv, OwnerInv
    <3>3. entry' = entry
      BY <1>3, <1>5, <3>2 DEF MergeReport, OwnerStops
    <3> QED BY <1>3, <3>1, <3>2, <3>3
  <2> QED BY <2>2, <2>3, <2>4 DEF BusyInv, OwnerInv
<1> QED BY <1>4, <1>5

LEMMA BusyStep == ASSUME HeartbeatAssumption, BusyInv, [HeartbeatNext]_heartbeatVars PROVE BusyInv'
<1>1. ReporterTypes'
  BY ReportersStep DEF BusyInv
<1>2. entry' \in Entries /\ OwnerInv'
  <2>1. ASSUME NEW r \in Reporters, Receive(r) PROVE entry' \in Entries /\ OwnerInv'
    BY <2>1, ReceiveKeepsOwner
  <2>2. CASE Pong \/ Connect
    <3>1. entry' = MergeTouch /\ live' = live /\ recent' = recent
      BY <2>2 DEF Pong, Connect, Store
    <3> QED BY <3>1, TouchFacts DEF BusyInv, OwnerInv
  <2>3. CASE Removed
    <3>1. live' = live /\ recent' = recent
      BY <2>3 DEF Removed
    <3>2. entry' = entry \/ entry' = [entry EXCEPT !.status = 0]
      BY <2>3, Zenon DEF Removed, Store
    <3>3. entry' \in Entries /\ entry'.script = entry.script /\ entry'.owner = entry.owner
      BY <3>2, StatusFacts DEF BusyInv
    <3> QED BY <3>1, <3>3 DEF BusyInv, OwnerInv
  <2>4. CASE HoldPasses
    BY <2>4 DEF HoldPasses, BusyInv, OwnerInv
  <2>5. ASSUME NEW r \in Reporters, ChangeScript(r) \/ Heartbeat(r)
        PROVE  entry' \in Entries /\ OwnerInv'
    BY <2>5 DEF ChangeScript, Heartbeat, BusyInv, OwnerInv
  <2>6. CASE Disconnect \/ FlushSteps \/ Age \/ MonitorOffline
    BY <2>6 DEF Disconnect, FlushSteps, FlushMark, FlushCopy, FlushWrite, FlushCompare,
                FlushDelete, Age, MonitorOffline, BusyInv, OwnerInv
  <2>7. CASE UNCHANGED heartbeatVars
    BY <2>7 DEF heartbeatVars, BusyInv, OwnerInv
  <2> QED BY <2>1, <2>2, <2>3, <2>4, <2>5, <2>6, <2>7 DEF HeartbeatNext, FlushSteps
<1> QED BY <1>1, <1>2 DEF BusyInv

LEMMA BusyInductive == ASSUME HeartbeatAssumption PROVE HeartbeatSpec => []BusyInv
<1>1. ASSUME BusyInv, [HeartbeatNext]_heartbeatVars PROVE BusyInv'
  BY <1>1, BusyStep
<1> QED BY <1>1, BusyInit, PTL DEF HeartbeatSpec

\* mergeHeartbeat: an instance that reports idle, or reports late, does not cover the
\* one that said less than 25 s ago that it is running, nor does a pong, a new
\* connection or the end of one.
THEOREM BusyStaysVisible == ASSUME HeartbeatAssumption PROVE HeartbeatSpec => []BusyIsKept
<1>1. BusyInv => BusyIsKept
  BY DEF BusyInv, OwnerInv, BusyIsKept
<1> QED BY <1>1, BusyInductive, PTL

-----------------------------------------------------------------------------
(* The mark that flushHeartbeats compares and deletes. *)

\* The mark and the copy that flushHeartbeats works with.
Copies == [stage: {"none", "marked", "copied", "written", "matched"},
           status: {0, 1, 3}, newer: BOOLEAN, behind: BOOLEAN]

FlushTypes ==
    /\ flush \in Copies
    /\ dirty \in BOOLEAN /\ written \in BOOLEAN /\ overlapped \in BOOLEAN

\* An update is known to the flush before it can compare versions.
FlushInv ==
    /\ flush.behind => flush.newer /\ dirty
    /\ flush.stage = "written" /\ ~flush.newer => written
    /\ flush.stage = "matched" /\ ~overlapped => written
    /\ UnwrittenIsMarked

LEMMA NothingFlushed ==
    NoFlush \in Copies /\ NoFlush.stage = "none" /\ ~NoFlush.newer /\ ~NoFlush.behind
  BY DEF NoFlush, Copies

LEMMA FlushInit == HeartbeatInit => FlushTypes /\ FlushInv
  BY NothingFlushed DEF HeartbeatInit, FlushTypes, FlushInv, UnwrittenIsMarked

\* storeHeartbeat, at any point of the flush.
LEMMA StoreKeepsMark ==
    ASSUME FlushTypes, FlushInv, NEW e, Store(e) PROVE FlushTypes' /\ FlushInv'
  BY DEF Store, FlushTypes, FlushInv, Copies, UnwrittenIsMarked

LEMMA FlushStep ==
    ASSUME entry \in Entries, FlushTypes, FlushInv, [HeartbeatNext]_heartbeatVars
    PROVE  FlushTypes' /\ FlushInv'
<1>1. ASSUME NEW r \in Reporters, ChangeScript(r) \/ Heartbeat(r) PROVE FlushTypes' /\ FlushInv'
  <2>1. UNCHANGED <<flush, dirty, written, overlapped>>
    BY <1>1 DEF ChangeScript, Heartbeat, flushState
  <2> QED BY <2>1 DEF FlushTypes, FlushInv, UnwrittenIsMarked
<1>2. ASSUME NEW r \in Reporters, Receive(r) PROVE FlushTypes' /\ FlushInv'
  <2>1. PICK e : Store(e)
    BY <1>2, Zenon DEF Receive
  <2> QED BY <2>1, StoreKeepsMark
<1>3. CASE Pong \/ Connect
  <2>1. Store(MergeTouch)
    BY <1>3 DEF Pong, Connect
  <2> QED BY <2>1, StoreKeepsMark
<1>4. CASE Removed
  <2>1. CASE \E e : Store(e)
    BY <2>1, StoreKeepsMark
  <2>2. CASE UNCHANGED <<flush, dirty, written, overlapped>>
    BY <2>2 DEF FlushTypes, FlushInv, UnwrittenIsMarked
  <2> QED BY <1>4, <2>1, <2>2, Zenon DEF Removed
<1>5. CASE HoldPasses \/ Disconnect \/ Age \/ MonitorOffline
  <2>1. UNCHANGED <<flush, dirty, written, overlapped>>
    BY <1>5 DEF HoldPasses, Disconnect, Age, MonitorOffline, flushState
  <2> QED BY <2>1 DEF FlushTypes, FlushInv, UnwrittenIsMarked
<1>6. CASE FlushMark
  BY <1>6 DEF FlushMark, FlushTypes, FlushInv, Copies, UnwrittenIsMarked
<1>7. CASE FlushCopy
  <2>1. entry.status \in {0, 1, 3}
    BY DEF Entries
  <2> QED BY <1>7, <2>1 DEF FlushCopy, FlushTypes, FlushInv, Copies, UnwrittenIsMarked
<1>8. CASE FlushWrite
  <2>1. CASE flush' = NoFlush /\ UNCHANGED <<dirty, written, overlapped>>
    BY <2>1, NothingFlushed DEF FlushTypes, FlushInv, UnwrittenIsMarked
  <2>2. CASE flush' = [flush EXCEPT !.stage = "written"] /\ written' = ~flush.behind
             /\ UNCHANGED <<dirty, overlapped>>
    BY <2>2 DEF FlushTypes, FlushInv, Copies, UnwrittenIsMarked
  <2> QED BY <1>8, <2>1, <2>2 DEF FlushWrite
<1>9. CASE FlushCompare
  BY <1>9 DEF FlushCompare, SameVersion, NoFlush, FlushTypes, FlushInv, Copies,
     UnwrittenIsMarked
<1>10. CASE FlushDelete
  BY <1>10 DEF FlushDelete, NoFlush, FlushTypes, FlushInv, Copies, UnwrittenIsMarked
<1>11. CASE UNCHANGED heartbeatVars
  BY <1>11 DEF heartbeatVars, FlushTypes, FlushInv, UnwrittenIsMarked
<1> QED BY <1>1, <1>2, <1>3, <1>4, <1>5, <1>6, <1>7, <1>8, <1>9, <1>10, <1>11 DEF HeartbeatNext

\* flushHeartbeats: what is not written stays marked, unless an update comes between
\* the comparison of its version and the deletion of the mark.
THEOREM UnwrittenStaysMarked == ASSUME HeartbeatAssumption PROVE HeartbeatSpec => []UnwrittenIsMarked
<1>1. BusyInv /\ FlushTypes /\ FlushInv /\ [HeartbeatNext]_heartbeatVars => FlushTypes' /\ FlushInv'
  BY FlushStep DEF BusyInv
<1>2. FlushInv => UnwrittenIsMarked
  BY DEF FlushInv
<1> QED BY FlushInit, BusyInductive, <1>1, <1>2, PTL DEF HeartbeatSpec

-----------------------------------------------------------------------------
(* HeartbeatStore: the rest of its types.                                   *)

BeatFlags == connected \in BOOLEAN /\ removed \in BOOLEAN /\ recent \in BOOLEAN
Rows == [status: {0, 1, 3}, old: BOOLEAN]

\* A change of the script's state is reported with the next number.
BeatCounts == beats \in 0..MaxBeats /\ \A r \in Reporters : seq[r] <= beats
BeatMessages == \A r \in Reporters : messages[r] \in Seq(Beats) /\ Len(messages[r]) <= MaxHeld
BeatEntry == entry.seq \in 0..MaxBeats

BeatBoundsInv == BeatFlags /\ devices \in Rows /\ BeatCounts /\ BeatMessages /\ BeatEntry

LEMMA BeatLimits == ASSUME HeartbeatAssumption PROVE MaxBeats \in Nat /\ MaxHeld \in Nat
  BY DEF HeartbeatAssumption

LEMMA BoundsInit == ASSUME HeartbeatAssumption PROVE HeartbeatInit => BeatBoundsInv
<1> SUFFICES ASSUME HeartbeatInit PROVE BeatBoundsInv
  OBVIOUS
<1>1. BeatFlags
  BY Zenon DEF HeartbeatInit, BeatFlags
<1>2. devices \in Rows
  BY DEF HeartbeatInit, Rows
<1>3. BeatCounts
  <2>1. MaxBeats \in Nat
    BY BeatLimits
  <2>2. beats = 0 /\ seq = [r \in Reporters |-> 0]
    BY DEF HeartbeatInit
  <2> QED BY <2>1, <2>2 DEF BeatCounts
<1>4. BeatMessages
  <2> DEFINE e == <<>>
  <2>1. e \in Seq(Beats) /\ Len(e) = 0
    OBVIOUS
  <2>2. \A r \in Reporters : messages[r] = e
    BY DEF HeartbeatInit
  <2> HIDE DEF e
  <2>3. Len(e) <= MaxHeld
    BY <2>1, BeatLimits
  <2> QED BY <2>1, <2>2, <2>3, Zenon DEF BeatMessages
<1>5. BeatEntry
  <2>1. MaxBeats \in Nat
    BY BeatLimits
  <2>2. entry.seq = 0
    BY DEF HeartbeatInit
  <2> QED BY <2>1, <2>2 DEF BeatEntry
<1> QED BY <1>1, <1>2, <1>3, <1>4, <1>5 DEF BeatBoundsInv

LEMMA FlagsStep == ASSUME BeatFlags, [HeartbeatNext]_heartbeatVars PROVE BeatFlags'
<1>1. CASE \E r \in Reporters : ChangeScript(r) \/ Heartbeat(r)
  BY <1>1, Zenon DEF ChangeScript, Heartbeat, BeatFlags
<1>2. ASSUME NEW r \in Reporters, Receive(r) PROVE BeatFlags'
  <2>1. connected' = connected /\ removed' = removed
    BY <1>2 DEF Receive, phoneState
  <2>2. recent' = (recent \/ Head(messages[r]).script = "running")
    BY <1>2 DEF Receive
  <2>3. recent' \in BOOLEAN
    BY <2>2
  <2> QED BY <2>1, <2>3, Zenon DEF BeatFlags
<1>3. CASE Pong \/ Connect \/ HoldPasses \/ Disconnect \/ Removed
  BY <1>3, Zenon DEF Pong, Connect, HoldPasses, Disconnect, Removed, phoneState, BeatFlags
<1>4. CASE FlushSteps \/ Age \/ MonitorOffline
  <2>1. UNCHANGED <<connected, removed, recent>>
    BY <1>4 DEF FlushSteps, FlushMark, FlushCopy, FlushWrite, FlushCompare, FlushDelete, Age,
                MonitorOffline, phoneState
  <2> QED BY <2>1, Zenon DEF BeatFlags
<1>5. CASE UNCHANGED heartbeatVars
  <2>1. UNCHANGED <<connected, removed, recent>>
    BY <1>5 DEF heartbeatVars
  <2> QED BY <2>1, Zenon DEF BeatFlags
<1> QED BY <1>1, <1>2, <1>3, <1>4, <1>5 DEF HeartbeatNext, FlushSteps

LEMMA RowsStep == ASSUME devices \in Rows, flush \in Copies, [HeartbeatNext]_heartbeatVars PROVE devices' \in Rows
<1>1. CASE FlushWrite
  <2>1. CASE devices' = [status |-> flush.status, old |-> FALSE]
    <3> DEFINE s == flush.status
    <3>1. s \in {0, 1, 3}
      BY DEF Copies
    <3> HIDE DEF s
    <3>2. [status |-> s, old |-> FALSE] \in Rows
      BY <3>1 DEF Rows
    <3> QED BY <2>1, <3>2 DEF s
  <2>2. CASE devices' = devices
    BY <2>2
  <2> QED BY <1>1, <2>1, <2>2, Zenon DEF FlushWrite
<1>2. CASE Age
  BY <1>2 DEF Age, Rows
<1>3. CASE MonitorOffline
  BY <1>3 DEF MonitorOffline, Rows
<1>4. CASE (\E r \in Reporters : ChangeScript(r) \/ Heartbeat(r) \/ Receive(r))
             \/ Pong \/ Connect \/ HoldPasses \/ Disconnect \/ Removed
             \/ FlushMark \/ FlushCopy \/ FlushCompare \/ FlushDelete \/ UNCHANGED heartbeatVars
  <2>1. devices' = devices
    BY <1>4 DEF ChangeScript, Heartbeat, Receive, Pong, Connect, HoldPasses, Disconnect, Removed,
                FlushMark, FlushCopy, FlushCompare, FlushDelete, heartbeatVars, flushState
  <2> QED BY <2>1
<1> QED BY <1>1, <1>2, <1>3, <1>4 DEF HeartbeatNext

LEMMA CountsStep ==
    ASSUME HeartbeatAssumption, ReporterTypes, BeatCounts, [HeartbeatNext]_heartbeatVars
    PROVE  BeatCounts'
<1>1. ASSUME NEW r \in Reporters, ChangeScript(r) PROVE BeatCounts'
  <2>1. beats < MaxBeats /\ beats' = beats + 1 /\ seq' = [seq EXCEPT ![r] = seq[r] + 1]
    BY <1>1 DEF ChangeScript
  <2> QED BY <2>1, BeatLimits DEF BeatCounts, ReporterTypes
<1>2. CASE (\E r \in Reporters : Heartbeat(r)) \/ Pong \/ Connect
  <2>1. beats < MaxBeats /\ beats' = beats + 1 /\ seq' = seq
    BY <1>2 DEF Heartbeat, Pong, Connect
  <2> QED BY <2>1, BeatLimits DEF BeatCounts, ReporterTypes
<1>3. CASE (\E r \in Reporters : Receive(r)) \/ HoldPasses \/ Disconnect \/ Removed
             \/ FlushSteps \/ Age \/ MonitorOffline \/ UNCHANGED heartbeatVars
  <2>1. beats' = beats /\ seq' = seq
    BY <1>3 DEF Receive, HoldPasses, Disconnect, Removed, FlushSteps, FlushMark, FlushCopy, FlushWrite,
                FlushCompare, FlushDelete, Age, MonitorOffline, heartbeatVars, phoneState
  <2> QED BY <2>1 DEF BeatCounts
<1> QED BY <1>1, <1>2, <1>3 DEF HeartbeatNext, FlushSteps

\* What a reporter sends, in the types.
LEMMA SendStep ==
    ASSUME HeartbeatAssumption, ReporterTypes, BeatMessages, NEW r \in Reporters,
           NEW s \in {"idle", "running"}, NEW q \in 0..MaxBeats, NEW b \in BOOLEAN, Send(r, s, q, b)
    PROVE  BeatMessages'
<1> DEFINE m == [from |-> r, script |-> s, seq |-> q, transition |-> b]
           h == messages[r]
<1>1. m \in Beats
  BY DEF Beats
<1>2. messages' = [messages EXCEPT ![r] = Append(h, m)] /\ Len(h) < MaxHeld
  BY DEF Send
<1>3. h \in Seq(Beats)
  BY DEF BeatMessages
<1> HIDE DEF m, h
<1>4. Append(h, m) \in Seq(Beats) /\ Len(Append(h, m)) = Len(h) + 1 /\ Len(h) \in Nat
  BY <1>1, <1>3
<1>5. Len(Append(h, m)) <= MaxHeld
  BY <1>2, <1>4, BeatLimits
<1> QED BY <1>2, <1>4, <1>5 DEF BeatMessages, ReporterTypes

LEMMA MessagesStep ==
    ASSUME HeartbeatAssumption, ReporterTypes, ReporterTypes', BeatCounts, BeatCounts', BeatMessages,
           [HeartbeatNext]_heartbeatVars
    PROVE  BeatMessages'
<1>0. \A r \in Reporters : seq[r] \in 0..MaxBeats /\ seq'[r] \in 0..MaxBeats
  BY BeatLimits DEF ReporterTypes, BeatCounts
<1>1. ASSUME NEW r \in Reporters, ChangeScript(r) PROVE BeatMessages'
  <2>1. Send(r, script'[r], seq'[r], TRUE)
    BY <1>1 DEF ChangeScript
  <2>2. script'[r] \in {"idle", "running"} /\ seq'[r] \in 0..MaxBeats
    BY <1>0 DEF ReporterTypes
  <2> QED BY <2>1, <2>2, SendStep
<1>2. ASSUME NEW r \in Reporters, Heartbeat(r) PROVE BeatMessages'
  <2>1. Send(r, script[r], seq[r], FALSE)
    BY <1>2 DEF Heartbeat
  <2>2. script[r] \in {"idle", "running"} /\ seq[r] \in 0..MaxBeats
    BY <1>0 DEF ReporterTypes
  <2> QED BY <2>1, <2>2, SendStep
<1>3. ASSUME NEW r \in Reporters, Receive(r) PROVE BeatMessages'
  <2> DEFINE h == messages[r]
  <2>1. h # <<>> /\ messages' = [messages EXCEPT ![r] = Tail(h)]
    BY <1>3 DEF Receive
  <2>2. h \in Seq(Beats) /\ Len(h) <= MaxHeld
    BY DEF BeatMessages
  <2> HIDE DEF h
  <2>3. Tail(h) \in Seq(Beats) /\ Len(Tail(h)) = Len(h) - 1 /\ Len(h) \in Nat
    BY <2>1, <2>2
  <2>4. Len(Tail(h)) <= MaxHeld
    BY <2>2, <2>3, BeatLimits
  <2> QED BY <2>1, <2>3, <2>4 DEF BeatMessages, ReporterTypes
<1>4. CASE Pong \/ Connect \/ HoldPasses \/ Disconnect \/ Removed
             \/ FlushSteps \/ Age \/ MonitorOffline \/ UNCHANGED heartbeatVars
  <2>1. messages' = messages
    BY <1>4 DEF Pong, Connect, HoldPasses, Disconnect, Removed, FlushSteps, FlushMark, FlushCopy,
                FlushWrite, FlushCompare, FlushDelete, Age, MonitorOffline, heartbeatVars, phoneState
  <2> QED BY <2>1 DEF BeatMessages
<1> QED BY <1>1, <1>2, <1>3, <1>4 DEF HeartbeatNext, FlushSteps

LEMMA EntrySeqStep ==
    ASSUME HeartbeatAssumption, entry \in Entries, BeatMessages, BeatEntry, [HeartbeatNext]_heartbeatVars
    PROVE  BeatEntry'
<1>1. ASSUME NEW r \in Reporters, Receive(r) PROVE BeatEntry'
  <2> DEFINE h == messages[r]
             m == Head(h)
  <2>1. h # <<>> /\ entry' = MergeReport(m)
    BY <1>1 DEF Receive, Store
  <2>2. h \in Seq(Beats)
    BY DEF BeatMessages
  <2>3. m \in Beats
    <3> HIDE DEF h
    <3> QED BY <2>1, <2>2
  <2>4. m.seq \in 0..MaxBeats
    BY <2>3 DEF Beats
  <2>5. MergeReport(m).seq \in {m.seq, entry.seq}
    <3> HIDE DEF m
    <3> QED BY DEF MergeReport
  <2> HIDE DEF m
  <2> QED BY <2>1, <2>4, <2>5 DEF BeatEntry
<1>2. CASE Pong \/ Connect
  <2>1. entry' = MergeTouch
    BY <1>2 DEF Pong, Connect, Store
  <2>2. MergeTouch.seq = entry.seq
    BY DEF MergeTouch, Entries
  <2> QED BY <2>1, <2>2 DEF BeatEntry
<1>3. CASE Removed
  <2>1. entry' = entry \/ entry' = [entry EXCEPT !.status = 0]
    BY <1>3 DEF Removed, Store
  <2> QED BY <2>1 DEF BeatEntry, Entries
<1>4. CASE (\E r \in Reporters : ChangeScript(r) \/ Heartbeat(r)) \/ HoldPasses \/ Disconnect
             \/ FlushSteps \/ Age \/ MonitorOffline \/ UNCHANGED heartbeatVars
  <2>1. entry' = entry
    BY <1>4 DEF ChangeScript, Heartbeat, HoldPasses, Disconnect, FlushSteps, FlushMark, FlushCopy,
                FlushWrite, FlushCompare, FlushDelete, Age, MonitorOffline, heartbeatVars
  <2> QED BY <2>1 DEF BeatEntry
<1> QED BY <1>1, <1>2, <1>3, <1>4 DEF HeartbeatNext, FlushSteps

LEMMA HeartbeatTypesFollow ==
    ASSUME HeartbeatAssumption, BusyInv, FlushTypes, BeatBoundsInv PROVE HeartbeatTypeOK
<1>1. /\ script \in [Reporters -> {"idle", "running"}] /\ seq \in [Reporters -> 0..MaxBeats]
  BY BeatLimits DEF BusyInv, ReporterTypes, BeatBoundsInv, BeatCounts
<1>2. entry \in [status: {0, 1, 3}, script: {"", "idle", "running"},
                 owner: Reporters \cup {NoReporter}, seq: 0..MaxBeats]
  BY DEF BusyInv, Entries, BeatBoundsInv, BeatEntry
<1>3. connected \in BOOLEAN /\ removed \in BOOLEAN /\ recent \in BOOLEAN /\ dirty \in BOOLEAN
      /\ written \in BOOLEAN /\ overlapped \in BOOLEAN
  BY Zenon DEF BeatBoundsInv, BeatFlags, FlushTypes
<1>4. /\ flush \in [stage: {"none", "marked", "copied", "written", "matched"},
                    status: {0, 1, 3}, newer: BOOLEAN, behind: BOOLEAN]
      /\ devices \in [status: {0, 1, 3}, old: BOOLEAN]
  BY Zenon DEF BeatBoundsInv, FlushTypes, Copies, Rows
<1>5. /\ beats \in 0..MaxBeats /\ live \in Reporters \cup {NoReporter}
      /\ \A r \in Reporters : messages[r] \in Seq(Beats) /\ Len(messages[r]) <= MaxHeld
  BY Zenon DEF BusyInv, OwnerInv, BeatBoundsInv, BeatCounts, BeatMessages
<1> QED BY <1>1, <1>2, <1>3, <1>4, <1>5, Zenon DEF HeartbeatTypeOK

\* storeHeartbeat, mergeHeartbeat and flushHeartbeats keep their types; the number in an
\* entry is that of a report that was made, however late reports arrive.
THEOREM HeartbeatTypes == ASSUME HeartbeatAssumption PROVE HeartbeatSpec => []HeartbeatTypeOK
<1>1. BusyInv /\ FlushTypes /\ FlushInv /\ [HeartbeatNext]_heartbeatVars => FlushTypes' /\ FlushInv'
  BY FlushStep DEF BusyInv
<1>2. BusyInv /\ BusyInv' /\ FlushTypes /\ BeatBoundsInv /\ [HeartbeatNext]_heartbeatVars => BeatBoundsInv'
  <2> SUFFICES ASSUME BusyInv, BusyInv', FlushTypes, BeatBoundsInv, [HeartbeatNext]_heartbeatVars
               PROVE  BeatBoundsInv'
    OBVIOUS
  <2>1. ReporterTypes /\ ReporterTypes' /\ entry \in Entries
    BY DEF BusyInv
  <2>2. BeatFlags /\ devices \in Rows /\ BeatCounts /\ BeatMessages /\ BeatEntry /\ flush \in Copies
    BY DEF BeatBoundsInv, FlushTypes
  <2>3. BeatCounts'
    BY <2>1, <2>2, CountsStep
  <2>4. BeatFlags' /\ devices' \in Rows
    BY <2>2, FlagsStep, RowsStep
  <2>5. BeatMessages'
    BY <2>1, <2>2, <2>3, MessagesStep
  <2>6. BeatEntry'
    BY <2>1, <2>2, EntrySeqStep
  <2> QED BY <2>3, <2>4, <2>5, <2>6 DEF BeatBoundsInv
<1>3. BusyInv /\ FlushTypes /\ BeatBoundsInv => HeartbeatTypeOK
  BY HeartbeatTypesFollow
<1> QED BY FlushInit, BoundsInit, BusyInductive, <1>1, <1>2, <1>3, PTL DEF HeartbeatSpec

-----------------------------------------------------------------------------
(* CronRecovery                                                            *)

\* What the argument needs of the types; the bounds of CronTypeOK are left out.
NumberTypes ==
    now \in 0..MaxTime /\ nextRun \in Nat \ {0} /\ cronNext \in Nat \ {0}
TimesTypes == callback.times \subseteq Times /\ ran \in [Times -> Nat] /\ unsaved \in BOOLEAN
StageTypes == callback.stage \in CallbackStages
NoneBetween == server \in {"down", "load", "ready"} => callback.stage = "none"

TypeInv == NumberTypes /\ TimesTypes /\ StageTypes /\ NoneBetween

Fresh(t) == ran[t] = 0

\* A time that has not come is not executed.
FutureIsFresh == \A t \in Times : t > now => Fresh(t)

\* A callback is about to execute times that were not executed.
CallbackIsFresh == callback.stage = "execute" => \A t \in callback.times : Fresh(t) /\ t <= now

\* next_run_at stands for times that were not executed, except between the execution
\* in a callback and persistNextRun.
NextRunIsFresh ==
    /\ server = "catch up" \/ callback.stage \in {"none", "execute"} =>
            \A t \in Times : t >= nextRun => Fresh(t)
    /\ server = "catch up" => \A t \in callback.times : t < nextRun

\* The cron library calls back for times that were not executed.
CronIsFresh == server = "up" =>
    /\ \A t \in Times : t >= cronNext => Fresh(t)
    /\ callback.stage = "execute" => \A t \in callback.times : t < cronNext

TimesAreFresh ==
    /\ \A t \in Times : ran[t] <= 1
    /\ FutureIsFresh /\ CallbackIsFresh /\ NextRunIsFresh /\ CronIsFresh

CronInv == TypeInv /\ (~unsaved => TimesAreFresh)

LEMMA Order == \A a, b \in Int : (a >= b => ~(a < b)) /\ (a <= b => a < b + 1)
  OBVIOUS

LEMMA Clock == ASSUME CronAssumption PROVE MaxTime \in Nat
  BY DEF CronAssumption

\* Without a callback there are no times it is for.
LEMMA NoTimes ==
    NoCallback.stage = "none" /\ NoCallback.times \subseteq Times /\ \A t : t \notin NoCallback.times
  BY DEF NoCallback

LEMMA CronStarts == ASSUME CronAssumption PROVE CronInit => CronInv
<1> SUFFICES ASSUME CronInit PROVE CronInv
  OBVIOUS
<1>1. NumberTypes
  BY Clock DEF CronInit, NumberTypes
<1>2. TimesTypes
  BY NoTimes DEF CronInit, TimesTypes
<1>3. StageTypes /\ NoneBetween
  BY NoTimes DEF CronInit, StageTypes, NoneBetween, CallbackStages
<1>4. TimesAreFresh
  BY NoTimes DEF CronInit, TimesAreFresh, FutureIsFresh, CallbackIsFresh, NextRunIsFresh,
               CronIsFresh, Fresh, Times
<1> QED BY <1>1, <1>2, <1>3, <1>4 DEF CronInv, TypeInv

\* Each part of TypeInv is kept by every operation.
LEMMA NumbersStep == ASSUME MaxTime \in Nat, TypeInv, [CronStep]_cronVars PROVE NumberTypes'
<1> USE DEF TypeInv, NumberTypes
<1>1. CASE TimePasses
  BY <1>1 DEF TimePasses, faultState
<1>2. CASE Fire
  BY <1>2 DEF Fire, CronRuns, faultState
<1>3. CASE Execute
  BY <1>3 DEF Execute, CallbackGoesTo
<1>4. CASE Enqueue
  BY <1>4 DEF Enqueue, CallbackGoesTo
<1>5. CASE Persist
  <2>1. now + 1 \in Nat \ {0}
    OBVIOUS
  <2>2. nextRun' \in {nextRun, now + 1}
    BY <1>5, Zenon DEF Persist
  <2> QED BY <1>5, <2>1, <2>2 DEF Persist
<1>6. CASE Take \/ ReadTask \/ Dispatch \/ Complete
  BY <1>6 DEF Take, ReadTask, Dispatch, Complete, faultState
<1>7. CASE Crash
  BY <1>7 DEF Crash, Down
<1>8. CASE StopScheduler
  BY <1>8 DEF StopScheduler, CronRuns
<1>9. CASE Stopped
  BY <1>9 DEF Stopped, Down, faultState
<1>10. CASE Load
  BY <1>10 DEF Load, faultState
<1>11. CASE Schedule
  <2>1. now + 1 \in Nat \ {0}
    OBVIOUS
  <2>2. nextRun' \in {nextRun, now + 1}
    BY <1>11, Zenon DEF Schedule, Advance
  <2> QED BY <1>11, <2>1, <2>2 DEF Schedule
<1>12. CASE StartCron
  BY <1>12 DEF StartCron, faultState
<1>13. CASE UNCHANGED cronVars
  BY <1>13 DEF cronVars
<1> QED BY <1>1, <1>2, <1>3, <1>4, <1>5, <1>6, <1>7, <1>8, <1>9, <1>10, <1>11, <1>12, <1>13 DEF
       CronStep

LEMMA TimesStep == ASSUME MaxTime \in Nat, TypeInv, [CronStep]_cronVars PROVE TimesTypes'
<1> USE NoTimes DEF TypeInv, NumberTypes, TimesTypes
<1>1. CASE TimePasses
  BY <1>1 DEF TimePasses, faultState
<1>2. CASE Fire
  BY <1>2 DEF Fire, CronRuns, faultState, Times
<1>3. CASE Execute
  BY <1>3 DEF Execute, CallbackGoesTo
<1>4. CASE Enqueue
  BY <1>4 DEF Enqueue, CallbackGoesTo
<1>5. CASE Persist
  BY <1>5 DEF Persist
<1>6. CASE Take \/ ReadTask \/ Dispatch \/ Complete
  BY <1>6 DEF Take, ReadTask, Dispatch, Complete, faultState
<1>7. CASE Crash
  BY <1>7 DEF Crash, Down
<1>8. CASE StopScheduler
  BY <1>8 DEF StopScheduler, CronRuns
<1>9. CASE Stopped
  BY <1>9 DEF Stopped, Down, faultState
<1>10. CASE Load
  BY <1>10 DEF Load, faultState
<1>11. CASE Schedule
  <2>1. nextRun \in Int /\ now \in Int /\ \A t \in nextRun..now : t \in 1..MaxTime
    OBVIOUS
  <2>2. (callback' = callback) \/ (callback'.times = nextRun..now)
    BY <1>11 DEF Schedule
  <2> QED BY <1>11, <2>1, <2>2 DEF Schedule, Times
<1>12. CASE StartCron
  BY <1>12 DEF StartCron, faultState
<1>13. CASE UNCHANGED cronVars
  BY <1>13 DEF cronVars
<1> QED BY <1>1, <1>2, <1>3, <1>4, <1>5, <1>6, <1>7, <1>8, <1>9, <1>10, <1>11, <1>12, <1>13 DEF
       CronStep

LEMMA StagesStep == ASSUME TypeInv, [CronStep]_cronVars PROVE StageTypes'
<1> USE NoTimes DEF TypeInv, StageTypes, CallbackStages
<1>1. CASE TimePasses
  BY <1>1 DEF TimePasses, faultState
<1>2. CASE Fire
  BY <1>2 DEF Fire, CronRuns, faultState
<1>3. CASE Execute
  BY <1>3 DEF Execute, CallbackGoesTo
<1>4. CASE Enqueue
  BY <1>4 DEF Enqueue, CallbackGoesTo
<1>5. CASE Persist
  BY <1>5 DEF Persist
<1>6. CASE Take \/ ReadTask \/ Dispatch \/ Complete
  BY <1>6 DEF Take, ReadTask, Dispatch, Complete, faultState
<1>7. CASE Crash
  BY <1>7 DEF Crash, Down
<1>8. CASE StopScheduler
  BY <1>8 DEF StopScheduler, CronRuns
<1>9. CASE Stopped
  BY <1>9 DEF Stopped, Down, faultState
<1>10. CASE Load
  BY <1>10 DEF Load, faultState
<1>11. CASE Schedule
  BY <1>11 DEF Schedule, CatchesUp, Advance
<1>12. CASE StartCron
  BY <1>12 DEF StartCron, faultState
<1>13. CASE UNCHANGED cronVars
  BY <1>13 DEF cronVars
<1> QED BY <1>1, <1>2, <1>3, <1>4, <1>5, <1>6, <1>7, <1>8, <1>9, <1>10, <1>11, <1>12, <1>13 DEF
       CronStep

LEMMA BetweenStep == ASSUME TypeInv, [CronStep]_cronVars PROVE NoneBetween'
<1> USE NoTimes DEF TypeInv, NoneBetween
<1>1. CASE TimePasses
  BY <1>1 DEF TimePasses, faultState
<1>2. CASE Fire
  BY <1>2 DEF Fire, CronRuns, faultState
<1>3. CASE Execute
  BY <1>3 DEF Execute, CallbackGoesTo
<1>4. CASE Enqueue
  BY <1>4 DEF Enqueue, CallbackGoesTo
<1>5. CASE Persist
  BY <1>5 DEF Persist
<1>6. CASE Take \/ ReadTask \/ Dispatch \/ Complete
  BY <1>6 DEF Take, ReadTask, Dispatch, Complete, faultState
<1>7. CASE Crash
  BY <1>7 DEF Crash, Down
<1>8. CASE StopScheduler
  BY <1>8 DEF StopScheduler, CronRuns
<1>9. CASE Stopped
  BY <1>9 DEF Stopped, Down, faultState
<1>10. CASE Load
  BY <1>10 DEF Load, faultState
<1>11. CASE Schedule
  BY <1>11 DEF Schedule, CatchesUp, Advance
<1>12. CASE StartCron
  BY <1>12 DEF StartCron, faultState
<1>13. CASE UNCHANGED cronVars
  BY <1>13 DEF cronVars
<1> QED BY <1>1, <1>2, <1>3, <1>4, <1>5, <1>6, <1>7, <1>8, <1>9, <1>10, <1>11, <1>12, <1>13 DEF
       CronStep

LEMMA TypeStep == ASSUME CronAssumption, TypeInv, [CronStep]_cronVars PROVE TypeInv'
<1>1. MaxTime \in Nat
  BY Clock
<1> QED BY <1>1, NumbersStep, TimesStep, StagesStep, BetweenStep DEF TypeInv

\* A step that executes nothing and moves neither the clock nor next_run_at nor the
\* callback keeps the times fresh, if the cron library does not start with it.
LEMMA QuietStep ==
    ASSUME TypeInv, TimesAreFresh, UNCHANGED <<now, nextRun, callback, ran, cronNext>>,
           server' = server \/ (server' # "catch up" /\ server' # "up")
    PROVE  TimesAreFresh'
<1>1. \A t \in Times : ran'[t] <= 1
  BY DEF TimesAreFresh
<1>2. FutureIsFresh' /\ CallbackIsFresh'
  BY DEF TimesAreFresh, FutureIsFresh, CallbackIsFresh, Fresh
<1>3. NextRunIsFresh'
  BY DEF TimesAreFresh, NextRunIsFresh, Fresh
<1>4. CronIsFresh'
  BY DEF TimesAreFresh, CronIsFresh, Fresh
<1> QED BY <1>1, <1>2, <1>3, <1>4 DEF TimesAreFresh

\* A lost write of next_run_at stays lost.
LEMMA LostStaysLost == ASSUME TypeInv, [CronStep]_cronVars, ~unsaved' PROVE ~unsaved
  BY DEF TypeInv, TimesTypes, CronStep, cronVars, TimePasses, Fire, Execute, Enqueue, Persist,
     Take, ReadTask,
         Dispatch, Complete, Crash, StopScheduler, Stopped, Down, Load, Schedule, StartCron

\* The steps that execute, or that move the clock, next_run_at or the callback.
LEMMA FreshStep ==
    ASSUME CronAssumption, TypeInv, TypeInv', TimesAreFresh, [CronStep]_cronVars, ~unsaved'
    PROVE  TimesAreFresh'
<1>0. ~unsaved
  BY LostStaysLost
<1>i. /\ now \in Int /\ nextRun \in Int /\ cronNext \in Int /\ Times \subseteq Int
      /\ callback.times \subseteq Times
  BY DEF TypeInv, NumberTypes, TimesTypes, Times
<1>c. cronNext >= 1 /\ \A t \in Int : t \in 1..MaxTime => t \in Times
  BY DEF TypeInv, NumberTypes, Times
<1>r. ran \in [Times -> Nat]
  BY DEF TypeInv, TimesTypes
<1>1. CASE TimePasses
  <2>1. \A t \in Times : ran'[t] <= 1
    BY <1>0, <1>i, <1>1 DEF TimePasses, TimesAreFresh
  <2>2. FutureIsFresh'
    BY <1>0, <1>i, <1>1 DEF TimePasses, TimesAreFresh, FutureIsFresh, Fresh
  <2>3. CallbackIsFresh'
    <3> SUFFICES ASSUME callback'.stage = "execute", NEW t \in callback'.times
                 PROVE  ran'[t] = 0 /\ t <= now'
      BY DEF CallbackIsFresh, Fresh
    <3>1. callback' = callback /\ ran' = ran /\ now' = now + 1
      BY <1>1 DEF TimePasses
    <3>2. ran[t] = 0 /\ t <= now /\ t \in Int
      BY <1>i, <3>1 DEF TimesAreFresh, CallbackIsFresh, Fresh
    <3> QED BY <1>i, <3>1, <3>2
  <2>4. NextRunIsFresh'
    BY <1>0, <1>i, <1>1 DEF TimePasses, TimesAreFresh, FutureIsFresh, NextRunIsFresh, Fresh
  <2>5. CronIsFresh'
    BY <1>0, <1>i, <1>1 DEF TimePasses, TimesAreFresh, FutureIsFresh, CallbackIsFresh,
       NextRunIsFresh, CronIsFresh, Fresh
  <2> QED BY <2>1, <2>2, <2>3, <2>4, <2>5 DEF TimesAreFresh
<1>2. CASE Fire
  <2>1. \A t \in Times : ran'[t] <= 1
    BY <1>0, <1>i, <1>2 DEF Fire, CronRuns, TimesAreFresh
  <2>2. FutureIsFresh'
    BY <1>0, <1>i, <1>2 DEF Fire, CronRuns, TimesAreFresh, FutureIsFresh, Fresh
  <2>3. CallbackIsFresh'
    <3>1. server = "up" /\ cronNext <= now /\ ran' = ran /\ now' = now
      BY <1>2 DEF Fire, CronRuns
    <3>2. CASE callback.stage = "none"
      <4>1. callback' = [stage |-> "execute", times |-> {now}]
        BY <1>2, <3>2 DEF Fire
      <4>2. now \in Times /\ ran[now] = 0
        <5>1. now \in Times
          BY <1>i, <1>c, <3>1 DEF TypeInv, NumberTypes
        <5> QED BY <1>i, <3>1, <5>1 DEF TimesAreFresh, CronIsFresh, Fresh
      <4> QED BY <1>i, <3>1, <4>1, <4>2 DEF CallbackIsFresh, Fresh
    <3>3. CASE callback.stage # "none"
      <4>1. callback' = callback
        BY <1>2, <3>3 DEF Fire
      <4> QED BY <3>1, <4>1 DEF TimesAreFresh, CallbackIsFresh, Fresh
    <3> QED BY <3>2, <3>3
  <2>4. NextRunIsFresh'
    BY <1>0, <1>i, <1>2 DEF Fire, CronRuns, TimesAreFresh, FutureIsFresh, NextRunIsFresh, Fresh
  <2>5. CronIsFresh'
    BY <1>0, <1>i, <1>2 DEF Fire, CronRuns, TimesAreFresh, FutureIsFresh, CallbackIsFresh,
       NextRunIsFresh, CronIsFresh, Fresh
  <2> QED BY <2>1, <2>2, <2>3, <2>4, <2>5 DEF TimesAreFresh
<1>3. CASE Execute
  <2>0. UNCHANGED <<now, nextRun, server, cronNext>> /\ callback.stage = "execute"
    BY <1>3 DEF Execute
  <2>a. CASE UNCHANGED ran /\ CallbackGoesTo("persist")
    <3>1. callback'.stage = "persist" /\ callback'.times = callback.times /\ ran' = ran
      BY <2>a DEF CallbackGoesTo
    <3> QED BY <2>0, <3>1 DEF TimesAreFresh, FutureIsFresh, CallbackIsFresh, NextRunIsFresh,
                 CronIsFresh, Fresh
  <2>b. CASE ran' = [t \in Times |-> IF t \in callback.times THEN ran[t] + 1 ELSE ran[t]]
             /\ CallbackGoesTo("enqueue")
    <3>1. callback'.stage = "enqueue" /\ callback'.times = callback.times
      BY <2>b DEF CallbackGoesTo
    <3>2. \A t \in Times : t \in callback.times => ran'[t] = 1 /\ t <= now
      BY <1>r, <2>0, <2>b DEF TimesAreFresh, CallbackIsFresh, Fresh
    <3>3. \A t \in Times : t \notin callback.times => ran'[t] = ran[t]
      BY <2>b
    <3>4. \A t \in Times : ran'[t] <= 1
      BY <3>2, <3>3 DEF TimesAreFresh
    <3>5. FutureIsFresh'
      BY <1>i, <2>0, <3>2, <3>3 DEF TimesAreFresh, FutureIsFresh, Fresh
    <3>6. CallbackIsFresh'
      BY <3>1 DEF CallbackIsFresh
    <3>7. NextRunIsFresh'
      <4> SUFFICES ASSUME server = "catch up"
                   PROVE  /\ \A t \in Times : t >= nextRun => ran'[t] = 0
                          /\ \A t \in callback.times : t < nextRun
        BY <2>0, <3>1 DEF NextRunIsFresh, Fresh
      <4>1. \A t \in callback.times : t < nextRun
        BY DEF TimesAreFresh, NextRunIsFresh
      <4>2. \A t \in Times : t >= nextRun => t \notin callback.times
        <5> TAKE t \in Times
        <5>1. t \in callback.times => t < nextRun
          BY <4>1
        <5>2. t \in Int /\ nextRun \in Int
          BY <1>i
        <5>3. t >= nextRun => ~(t < nextRun)
          BY <5>2, Order, Zenon
        <5> QED BY <5>1, <5>3, Zenon
      <4>3. \A t \in Times : t >= nextRun => ran[t] = 0
        BY DEF TimesAreFresh, NextRunIsFresh, Fresh
      <4> QED BY <3>3, <4>1, <4>2, <4>3
    <3>8. CronIsFresh'
      <4> SUFFICES ASSUME server = "up"
                   PROVE  \A t \in Times : t >= cronNext => ran'[t] = 0
        BY <2>0, <3>1 DEF CronIsFresh, Fresh
      <4>1. \A t \in Times : t >= cronNext => ran[t] = 0 /\ t \notin callback.times
        BY <1>i, <2>0 DEF TimesAreFresh, CronIsFresh, Fresh
      <4> QED BY <3>3, <4>1
    <3> QED BY <3>4, <3>5, <3>6, <3>7, <3>8 DEF TimesAreFresh
  <2> QED BY <1>3, <2>a, <2>b DEF Execute
<1>4. CASE Enqueue
  BY <1>4 DEF Enqueue, CallbackGoesTo, TimesAreFresh, FutureIsFresh, CallbackIsFresh,
              NextRunIsFresh, CronIsFresh, Fresh
<1>5. CASE Persist
  <2>1. \A t \in Times : ran'[t] <= 1
    BY <1>0, <1>i, <1>5, NoTimes DEF Persist, TimesAreFresh
  <2>2. FutureIsFresh'
    BY <1>0, <1>i, <1>5, NoTimes DEF Persist, TimesAreFresh, FutureIsFresh, Fresh
  <2>3. CallbackIsFresh'
    BY <1>0, <1>i, <1>5, NoTimes DEF Persist, TimesAreFresh, FutureIsFresh, CallbackIsFresh,
       NextRunIsFresh, CronIsFresh, Fresh
  <2>4. NextRunIsFresh'
    <3>1. callback' = NoCallback /\ ran' = ran /\ now' = now
      BY <1>5 DEF Persist
    <3>2. CASE server = "catch up"
      <4>1. nextRun' = nextRun
        BY <1>5, <3>2 DEF Persist
      <4> QED BY NoTimes, <3>1, <3>2, <4>1 DEF TimesAreFresh, NextRunIsFresh, Fresh
    <3>3. CASE server # "catch up"
      <4>1. nextRun' = now + 1 /\ server' = server
        BY <1>5, <3>3 DEF Persist
      <4>2. \A t \in Times : t >= now + 1 => ran[t] = 0
        BY <1>i DEF TimesAreFresh, FutureIsFresh, Fresh
      <4> QED BY NoTimes, <3>1, <3>3, <4>1, <4>2 DEF NextRunIsFresh, Fresh
    <3> QED BY <3>2, <3>3
  <2>5. CronIsFresh'
    BY <1>0, <1>i, <1>5, NoTimes DEF Persist, TimesAreFresh, FutureIsFresh, CallbackIsFresh,
       NextRunIsFresh, CronIsFresh, Fresh
  <2> QED BY <2>1, <2>2, <2>3, <2>4, <2>5 DEF TimesAreFresh
<1>6. CASE Take \/ ReadTask \/ Dispatch \/ Complete
  BY <1>6, QuietStep DEF Take, ReadTask, Dispatch, Complete
<1>7. CASE Crash
  <2>1. \A t \in Times : ran'[t] <= 1
    BY <1>0, <1>i, <1>7, NoTimes DEF Crash, Down, TimesAreFresh
  <2>2. FutureIsFresh'
    BY <1>0, <1>i, <1>7, NoTimes DEF Crash, Down, TimesAreFresh, FutureIsFresh, Fresh
  <2>3. CallbackIsFresh'
    BY <1>0, <1>i, <1>7, NoTimes DEF Crash, Down, TimesAreFresh, FutureIsFresh,
       CallbackIsFresh, NextRunIsFresh, CronIsFresh, Fresh
  <2>4. NextRunIsFresh'
    <3>1. callback' = NoCallback /\ ran' = ran /\ nextRun' = nextRun /\ server' = "down"
      BY <1>7 DEF Crash, Down
    <3>2. server = "catch up" \/ callback.stage \notin {"enqueue", "persist"}
      BY <1>7 DEF Crash
    <3>3. server = "catch up" \/ callback.stage \in {"none", "execute"}
      BY <3>2 DEF TypeInv, StageTypes, CallbackStages
    <3> QED BY NoTimes, <3>1, <3>3 DEF TimesAreFresh, NextRunIsFresh, Fresh
  <2>5. CronIsFresh'
    BY <1>0, <1>i, <1>7, NoTimes DEF Crash, Down, TimesAreFresh, FutureIsFresh,
       CallbackIsFresh, NextRunIsFresh, CronIsFresh, Fresh
  <2> QED BY <2>1, <2>2, <2>3, <2>4, <2>5 DEF TimesAreFresh
<1>8. CASE StopScheduler
  BY <1>8, QuietStep DEF StopScheduler
<1>9. CASE Stopped
  <2>1. \A t \in Times : ran'[t] <= 1
    BY <1>0, <1>i, <1>9, NoTimes DEF Stopped, Down, TimesAreFresh
  <2>2. FutureIsFresh'
    BY <1>0, <1>i, <1>9, NoTimes DEF Stopped, Down, TimesAreFresh, FutureIsFresh, Fresh
  <2>3. CallbackIsFresh'
    BY <1>0, <1>i, <1>9, NoTimes DEF Stopped, Down, TimesAreFresh, FutureIsFresh,
       CallbackIsFresh, NextRunIsFresh, CronIsFresh, Fresh
  <2>4. NextRunIsFresh'
    BY <1>0, <1>i, <1>9, NoTimes DEF Stopped, Down, TimesAreFresh, FutureIsFresh,
       NextRunIsFresh, Fresh
  <2>5. CronIsFresh'
    BY <1>0, <1>i, <1>9, NoTimes DEF Stopped, Down, TimesAreFresh, FutureIsFresh,
       CallbackIsFresh, NextRunIsFresh, CronIsFresh, Fresh
  <2> QED BY <2>1, <2>2, <2>3, <2>4, <2>5 DEF TimesAreFresh
<1>10. CASE Load
  BY <1>10, QuietStep DEF Load
<1>11. CASE Schedule
  <2>1. /\ ran' = ran /\ now' = now /\ nextRun' = now + 1
        /\ server = "load" /\ server' \in {"catch up", "ready"} /\ callback.stage = "none"
    BY <1>11 DEF Schedule, Advance, TypeInv, NoneBetween
  <2>2. \A t \in Times : t >= nextRun => ran[t] = 0
    BY <2>1 DEF TimesAreFresh, NextRunIsFresh, Fresh
  <2>3. \A t \in Times : t >= now + 1 => ran[t] = 0
    BY <1>i DEF TimesAreFresh, FutureIsFresh, Fresh
  <2>4. \/ callback' = callback /\ server' = "ready"
        \/ callback' = [stage |-> "execute", times |-> nextRun..now] /\ server' = "catch up"
    BY <1>11 DEF Schedule
  <2>5. callback'.stage = "execute" =>
            \A t \in callback'.times : t \in Times /\ t >= nextRun /\ t <= now
    <3>1. \A t \in nextRun..now : t \in Times /\ t >= nextRun /\ t <= now
      <4>1. now \in 0..MaxTime /\ nextRun \in Nat \ {0} /\ MaxTime \in Nat
        BY Clock DEF TypeInv, NumberTypes
      <4> QED BY <4>1 DEF Times
    <3>2. callback' = callback => callback'.stage # "execute"
      BY <2>1
    <3>3. callback' = [stage |-> "execute", times |-> nextRun..now] =>
            callback'.times = nextRun..now
      OBVIOUS
    <3> QED BY <2>4, <3>1, <3>2, <3>3, Zenon
  <2>6. (\A t \in Times : ran'[t] <= 1) /\ FutureIsFresh'
    BY <2>1 DEF TimesAreFresh, FutureIsFresh, Fresh
  <2>7. CallbackIsFresh'
    BY <2>1, <2>2, <2>5 DEF CallbackIsFresh, Fresh
  <2>8. NextRunIsFresh'
    <3>1. server' = "catch up" => \A t \in callback'.times : t < now + 1
      <4> SUFFICES ASSUME server' = "catch up", NEW t \in callback'.times PROVE t < now + 1
        OBVIOUS
      <4>1. callback'.stage = "execute"
        <5>1. CASE callback' = callback /\ server' = "ready"
          BY <5>1
        <5>2. CASE callback' = [stage |-> "execute", times |-> nextRun..now]
          BY <5>2
        <5> QED BY <2>4, <5>1, <5>2, Zenon
      <4>2. t \in Times /\ t <= now
        BY <2>5, <4>1
      <4>3. t \in Int /\ now \in Int
        BY <1>i, <4>2, Zenon
      <4> QED BY <4>2, <4>3, Order, Zenon
    <3> QED BY <2>1, <2>3, <3>1 DEF NextRunIsFresh, Fresh
  <2>9. CronIsFresh'
    BY <2>1 DEF CronIsFresh
  <2> QED BY <2>6, <2>7, <2>8, <2>9 DEF TimesAreFresh
<1>12. CASE StartCron
  <2>1. \A t \in Times : ran'[t] <= 1
    BY <1>0, <1>i, <1>12 DEF StartCron, TypeInv, NoneBetween, TimesAreFresh
  <2>2. FutureIsFresh'
    BY <1>0, <1>i, <1>12 DEF StartCron, TypeInv, NoneBetween, TimesAreFresh, FutureIsFresh,
       Fresh
  <2>3. CallbackIsFresh'
    BY <1>0, <1>i, <1>12 DEF StartCron, TypeInv, NoneBetween, TimesAreFresh, FutureIsFresh,
       CallbackIsFresh, NextRunIsFresh, CronIsFresh, Fresh
  <2>4. NextRunIsFresh'
    BY <1>0, <1>i, <1>12 DEF StartCron, TypeInv, NoneBetween, TimesAreFresh, FutureIsFresh,
       NextRunIsFresh, Fresh
  <2>5. CronIsFresh'
    BY <1>0, <1>i, <1>12 DEF StartCron, TypeInv, NoneBetween, TimesAreFresh, FutureIsFresh,
       CallbackIsFresh, NextRunIsFresh, CronIsFresh, Fresh
  <2> QED BY <2>1, <2>2, <2>3, <2>4, <2>5 DEF TimesAreFresh
<1>13. CASE UNCHANGED cronVars
  BY <1>13, QuietStep DEF cronVars
<1> QED BY <1>1, <1>2, <1>3, <1>4, <1>5, <1>6, <1>7, <1>8, <1>9, <1>10, <1>11, <1>12, <1>13 DEF
       CronStep

LEMMA CronInductive == ASSUME CronAssumption PROVE CronSpec => []CronInv
<1>1. ASSUME CronInv, [CronStep]_cronVars PROVE CronInv'
  <2>1. TypeInv'
    BY <1>1, TypeStep DEF CronInv
  <2>2. ~unsaved' => TimesAreFresh'
    BY <1>1, <2>1, LostStaysLost, FreshStep DEF CronInv
  <2> QED BY <2>1, <2>2 DEF CronInv
<1> QED BY <1>1, CronStarts, PTL DEF CronSpec

\* README.md:22: no time of a task is executed twice, whatever the policy, wherever
\* the server stops or crashes, unless the write of next_run_at after it was lost.
THEOREM MissedTimesRunOnce == ASSUME CronAssumption PROVE CronSpec => []ExecutedOnce
<1>1. CronInv => ExecutedOnce
  BY DEF CronInv, TimesAreFresh, ExecutedOnce
<1> QED BY <1>1, CronInductive, PTL

-----------------------------------------------------------------------------
(* CronRecovery: the rest of its types.                                     *)

CronLimits ==
    /\ status \in 0..2 /\ nextRun \in 1..(MaxTime + 1) /\ cronNext \in 1..(MaxTime + 1)
    /\ server \in ServerStates /\ worker \in {"idle", "read", "dispatch"}
    /\ restarts \in 0..MaxRestarts /\ refusals \in 0..MaxRefusals
CronFlags == queued \in BOOLEAN /\ reached \in BOOLEAN
CronCallback == callback \in [stage: CallbackStages, times: SUBSET Times]

\* The times a callback is about to execute, and the lives of the server that have ended.
Due(t) == callback.stage = "execute" /\ t \in callback.times
Ended == server \in {"down", "load", "stopping"}

\* In each of its lives the server executes a time at most once.
OncePerLife ==
    /\ \A t \in Times : t > now => ran[t] = 0
    /\ \A t \in Times : Due(t) => t <= now
    /\ \A t \in Times : ran[t] <= restarts + 1
    /\ \A t \in Times : Due(t) \/ Ended => ran[t] <= restarts
    /\ \A t \in Times : Due(t) /\ Ended => ran[t] < restarts
    /\ \A t \in Times : server = "up" /\ t >= cronNext => ran[t] <= restarts
    /\ \A t \in Times : server = "up" /\ t >= cronNext => ~Due(t)

CronMore == CronLimits /\ CronFlags /\ CronCallback /\ OncePerLife

LEMMA MoreStarts == ASSUME CronAssumption PROVE CronInit => CronMore
<1> SUFFICES ASSUME CronInit PROVE CronMore
  OBVIOUS
<1>0. {MaxTime, MaxRestarts, MaxRefusals} \subseteq Nat
  BY DEF CronAssumption
<1>1. CronLimits
  BY <1>0 DEF CronInit, CronLimits, ServerStates
<1>2. CronFlags
  BY Zenon DEF CronInit, CronFlags
<1>3. CronCallback
  BY DEF CronInit, CronCallback, NoCallback, CallbackStages
<1>4. OncePerLife
  <2>1. \A t \in Times : ran[t] = 0
    BY DEF CronInit
  <2>2. callback.stage = "none" /\ restarts = 0 /\ server = "up"
    BY NoTimes DEF CronInit
  <2> QED BY <2>1, <2>2 DEF OncePerLife, Due, Ended
<1> QED BY <1>1, <1>2, <1>3, <1>4 DEF CronMore

LEMMA CronFlagsStep == ASSUME CronFlags, [CronStep]_cronVars PROVE CronFlags'
<1>1. CASE Enqueue
  <2>1. queued' = (queued \/ ~Pending) \/ queued' = queued
    BY <1>1, Zenon DEF Enqueue
  <2>2. (queued \/ ~Pending) \in BOOLEAN
    OBVIOUS
  <2>3. reached' = reached
    BY <1>1 DEF Enqueue
  <2> QED BY <2>1, <2>2, <2>3, Zenon DEF CronFlags
<1>2. CASE Execute \/ Dispatch \/ Complete \/ Take
  BY <1>2, Zenon DEF Execute, Dispatch, Complete, Take, CronFlags
<1>3. CASE Crash \/ Stopped
  BY <1>3, Zenon DEF Crash, Stopped, Down, CronFlags
<1>4. CASE TimePasses \/ Fire \/ Persist \/ ReadTask \/ StopScheduler \/ Load \/ Schedule \/ StartCron
             \/ UNCHANGED cronVars
  <2>1. queued' = queued /\ reached' = reached
    BY <1>4 DEF TimePasses, Fire, Persist, ReadTask, StopScheduler, Load, Schedule, StartCron, cronVars
  <2> QED BY <2>1, Zenon DEF CronFlags
<1> QED BY <1>1, <1>2, <1>3, <1>4 DEF CronStep

LEMMA CallbackStep ==
    ASSUME CronAssumption, TypeInv, CronCallback, [CronStep]_cronVars
    PROVE  CronCallback'
<1>0. \A s \in CallbackStages : \A x \in SUBSET Times : [stage |-> s, times |-> x] \in [stage: CallbackStages, times: SUBSET Times]
  OBVIOUS
<1>1. NoCallback \in [stage: CallbackStages, times: SUBSET Times]
  BY DEF NoCallback, CallbackStages
<1>2. callback.times \in SUBSET Times
  BY DEF CronCallback
<1>s. {"none", "execute", "enqueue", "persist"} \subseteq CallbackStages
  BY DEF CallbackStages
<1>t. server = "up" /\ cronNext <= now => {now} \in SUBSET Times
  BY Clock DEF TypeInv, NumberTypes, Times
<1>u. nextRun..now \in SUBSET Times
  BY Clock DEF TypeInv, NumberTypes, Times
<1>3. CASE Fire
  <2>1. callback' = callback \/ callback' = [stage |-> "execute", times |-> {now}]
    BY <1>3 DEF Fire
  <2>2. {now} \in SUBSET Times
    BY <1>3, <1>t DEF Fire, CronRuns
  <2> DEFINE x == {now}
  <2>3. [stage |-> "execute", times |-> x] \in [stage: CallbackStages, times: SUBSET Times]
    <3>1. x \in SUBSET Times
      BY <2>2
    <3> HIDE DEF x
    <3> QED BY <1>0, <1>s, <3>1
  <2> QED BY <2>1, <2>3 DEF CronCallback
<1>4. CASE Execute \/ Enqueue
  <2>1. PICK s \in CallbackStages : callback' = [stage |-> s, times |-> callback.times]
    BY <1>4, <1>s, Zenon DEF Execute, Enqueue, CallbackGoesTo, CallbackStages
  <2> QED BY <2>1, <1>0, <1>2 DEF CronCallback
<1>5. CASE Persist \/ Crash \/ Stopped
  <2>1. callback' = NoCallback
    BY <1>5 DEF Persist, Crash, Stopped, Down
  <2> QED BY <2>1, <1>1 DEF CronCallback
<1>6. CASE Schedule
  <2> DEFINE x == nextRun..now
  <2>1. callback' = callback \/ callback' = [stage |-> "execute", times |-> x]
    BY <1>6 DEF Schedule
  <2>2. [stage |-> "execute", times |-> x] \in [stage: CallbackStages, times: SUBSET Times]
    <3>1. x \in SUBSET Times
      BY <1>u
    <3> HIDE DEF x
    <3> QED BY <1>0, <1>s, <3>1
  <2> HIDE DEF x
  <2> QED BY <2>1, <2>2 DEF CronCallback
<1>7. CASE TimePasses \/ Take \/ ReadTask \/ Dispatch \/ Complete \/ StopScheduler \/ Load \/ StartCron
             \/ UNCHANGED cronVars
  <2>1. callback' = callback
    BY <1>7 DEF TimePasses, Take, ReadTask, Dispatch, Complete, StopScheduler, Load, StartCron, cronVars
  <2> QED BY <2>1 DEF CronCallback
<1> QED BY <1>3, <1>4, <1>5, <1>6, <1>7 DEF CronStep

LEMMA LimitsStep ==
    ASSUME CronAssumption, TypeInv, CronLimits, [CronStep]_cronVars
    PROVE  CronLimits'
<1>0. MaxTime \in Nat /\ MaxRestarts \in Nat /\ MaxRefusals \in Nat
  BY DEF CronAssumption
<1>s. \A x : x \in {0, 1, 2} \/ x = status => x \in 0..2
  BY DEF CronLimits
<1>n. now \in 0..MaxTime /\ now + 1 \in 1..(MaxTime + 1)
  BY <1>0 DEF TypeInv, NumberTypes
<1>f. refusals < MaxRefusals /\ refusals' = refusals + 1 => refusals' \in 0..MaxRefusals
  BY <1>0 DEF CronLimits
<1>r. restarts < MaxRestarts /\ restarts' = restarts + 1 => restarts' \in 0..MaxRestarts
  BY <1>0 DEF CronLimits
<1> USE DEF CronLimits, faultState, ServerStates, Refusal
<1>1. CASE TimePasses
  BY <1>1 DEF TimePasses
<1>2. CASE Fire
  BY <1>2, <1>n DEF Fire
<1>3. CASE Execute
  <2>1. refusals' = refusals \/ refusals' \in 0..MaxRefusals
    BY <1>3, <1>f, Zenon DEF Execute
  <2>2. status' \in {0, 1, 2} \/ status' = status
    BY <1>3, Zenon DEF Execute
  <2>3. UNCHANGED <<nextRun, cronNext, server, worker, restarts>>
    BY <1>3 DEF Execute
  <2>4. status' \in 0..2
    BY <2>2, <1>s, Zenon
  <2>5. worker' \in {"idle", "read", "dispatch"}
    BY <2>2, <2>3
  <2> QED BY <2>1, <2>3, <2>4, <2>5
<1>4. CASE Enqueue
  <2>1. refusals' = refusals \/ refusals' \in 0..MaxRefusals
    BY <1>4, <1>f, Zenon DEF Enqueue
  <2>2. status' \in {0, 1, 2} \/ status' = status
    BY <1>4, Zenon DEF Enqueue
  <2>3. UNCHANGED <<nextRun, cronNext, server, worker, restarts>>
    BY <1>4 DEF Enqueue
  <2>4. status' \in 0..2
    BY <2>2, <1>s, Zenon
  <2>5. worker' \in {"idle", "read", "dispatch"}
    BY <2>2, <2>3
  <2> QED BY <2>1, <2>3, <2>4, <2>5
<1>5. CASE Persist
  <2>1. refusals' = refusals \/ refusals' \in 0..MaxRefusals
    BY <1>5, <1>f, Zenon DEF Persist
  <2>2. nextRun' = nextRun \/ nextRun' = now + 1
    BY <1>5, Zenon DEF Persist
  <2>3. server' \in ServerStates
    BY <1>5 DEF Persist
  <2>4. UNCHANGED <<status, cronNext, worker, restarts>>
    BY <1>5 DEF Persist
  <2> QED BY <2>1, <2>2, <2>3, <2>4, <1>n
<1>6. CASE Take \/ ReadTask \/ Dispatch \/ Complete
  <2>1. status' \in {0, 1, 2} \/ status' = status
    BY <1>6 DEF Take, ReadTask, Dispatch, Complete
  <2>2. worker' = worker \/ worker' \in {"idle", "read", "dispatch"}
    BY <1>6 DEF Take, ReadTask, Dispatch, Complete
  <2>3. UNCHANGED <<nextRun, cronNext, server, restarts, refusals>>
    BY <1>6 DEF Take, ReadTask, Dispatch, Complete
  <2>4. status' \in 0..2
    BY <2>1, <1>s, Zenon
  <2>5. worker' \in {"idle", "read", "dispatch"}
    BY <2>2, <2>3
  <2> QED BY <2>1, <2>3, <2>4, <2>5
<1>7. CASE Crash
  BY <1>7, <1>r DEF Crash, Down
<1>8. CASE StopScheduler
  BY <1>8, <1>r DEF StopScheduler
<1>9. CASE Stopped
  BY <1>9 DEF Stopped, Down
<1>10. CASE Load
  BY <1>10 DEF Load
<1>11. CASE Schedule
  <2>1. refusals' = refusals \/ refusals' \in 0..MaxRefusals
    BY <1>11, <1>f, Zenon DEF Schedule
  <2>2. nextRun' = nextRun \/ nextRun' = now + 1
    BY <1>11, Zenon DEF Schedule, Advance
  <2>3. server' \in ServerStates
    BY <1>11 DEF Schedule
  <2>4. UNCHANGED <<status, cronNext, worker, restarts>>
    BY <1>11 DEF Schedule
  <2> QED BY <2>1, <2>2, <2>3, <2>4, <1>n
<1>12. CASE StartCron
  BY <1>12, <1>n DEF StartCron
<1>13. CASE UNCHANGED cronVars
  BY <1>13 DEF cronVars
<1> QED BY <1>1, <1>2, <1>3, <1>4, <1>5, <1>6, <1>7, <1>8, <1>9, <1>10, <1>11, <1>12, <1>13 DEF
       CronStep

\* Steps that execute nothing, and whose callback is the one of before or none, in the
\* same life of the server.
LEMMA LifeGoesOn ==
    ASSUME OncePerLife, TypeInv, CronLimits, ran' = ran, restarts' = restarts, now' = now,
           callback' = callback \/ callback'.stage # "execute",
           Ended' <=> Ended, server' = "up" => server = "up", cronNext' = cronNext
    PROVE  OncePerLife'
<1>1. \A t : Due(t)' => Due(t)
  BY DEF Due
<1> QED BY <1>1 DEF OncePerLife

LEMMA LifeStep ==
    ASSUME CronAssumption, TypeInv, CronLimits, OncePerLife, [CronStep]_cronVars
    PROVE  OncePerLife'
<1>0. /\ now \in Int /\ cronNext \in Int /\ nextRun \in Int /\ restarts \in Nat
      /\ ran \in [Times -> Nat] /\ Times \subseteq Int
  BY DEF TypeInv, NumberTypes, TimesTypes, CronLimits, Times
<1>1. CASE TimePasses
  BY <1>1, <1>0 DEF TimePasses, faultState, OncePerLife, Due, Ended
<1>2. CASE Fire
  <2>1. server = "up" /\ cronNext <= now /\ cronNext' = now + 1
        /\ UNCHANGED <<now, server, ran, restarts>>
    BY <1>2 DEF Fire, CronRuns, faultState
  <2>2. ~Ended /\ ~Ended'
    BY <2>1 DEF Ended
  <2>3. \A t \in Times : Due(t)' => Due(t) \/ t = now
    BY <1>2 DEF Fire, Due
  <2> QED BY <2>1, <2>2, <2>3, <1>0 DEF OncePerLife
<1>3. CASE Execute
  <2>1. UNCHANGED <<now, server, cronNext, restarts>> /\ callback.stage = "execute"
        /\ callback'.stage # "execute"
    BY <1>3 DEF Execute, CallbackGoesTo
  <2>2. \A t \in Times : ran'[t] = ran[t] \/ (Due(t) /\ ran'[t] = ran[t] + 1)
    BY <1>3 DEF Execute, Due
  <2>3. \A t : ~Due(t)'
    BY <2>1 DEF Due
  <2>4. Ended' <=> Ended
    BY <2>1 DEF Ended
  <2> QED BY <2>1, <2>2, <2>3, <2>4, <1>0 DEF OncePerLife
<1>4. CASE Enqueue
  BY <1>4, LifeGoesOn DEF Enqueue, CallbackGoesTo, Ended
<1>5. CASE Persist
  <2>1. callback'.stage # "execute" /\ UNCHANGED <<now, cronNext, ran, restarts>>
    BY <1>5, NoTimes DEF Persist
  <2>2. server' = server \/ (server = "catch up" /\ server' = "ready")
    BY <1>5, Zenon DEF Persist
  <2> QED BY <2>1, <2>2, LifeGoesOn DEF Ended
<1>6. CASE Take \/ ReadTask \/ Dispatch \/ Complete \/ UNCHANGED cronVars
  <2>1. UNCHANGED <<now, server, cronNext, callback, ran, restarts>>
    BY <1>6 DEF Take, ReadTask, Dispatch, Complete, faultState, cronVars
  <2> QED BY <2>1, LifeGoesOn DEF Ended
<1>7. CASE Crash
  <2>1. server' = "down" /\ restarts' = restarts + 1 /\ callback'.stage # "execute"
        /\ UNCHANGED <<now, ran>>
    BY <1>7, NoTimes DEF Crash, Down
  <2>2. \A t : ~Due(t)'
    BY <2>1 DEF Due
  <2> QED BY <2>1, <2>2, <1>0 DEF OncePerLife
<1>8. CASE StopScheduler
  <2>1. server = "up" /\ server' = "stopping" /\ restarts' = restarts + 1
        /\ UNCHANGED <<now, ran, callback>>
    BY <1>8 DEF StopScheduler, CronRuns
  <2>2. \A t : Due(t)' <=> Due(t)
    BY <2>1 DEF Due
  <2> QED BY <2>1, <2>2, <1>0 DEF OncePerLife
<1>9. CASE Stopped
  <2>1. server = "stopping" /\ server' = "down" /\ callback'.stage # "execute"
        /\ UNCHANGED <<now, cronNext, ran, restarts>>
    BY <1>9, NoTimes DEF Stopped, Down, faultState
  <2> QED BY <2>1, LifeGoesOn DEF Ended
<1>10. CASE Load
  <2>1. server = "down" /\ server' = "load" /\ UNCHANGED <<now, cronNext, callback, ran, restarts>>
    BY <1>10 DEF Load, faultState
  <2> QED BY <2>1, LifeGoesOn DEF Ended
<1>11. CASE Schedule
  <2>1. server = "load" /\ server' \in {"catch up", "ready"} /\ UNCHANGED <<now, ran, restarts>>
    BY <1>11 DEF Schedule
  <2>2. \A t \in Times : Due(t)' => t <= now
    <3>1. callback.stage = "none"
      BY <2>1 DEF TypeInv, NoneBetween
    <3>2. callback' = callback \/ callback'.times = nextRun..now
      BY <1>11 DEF Schedule
    <3> QED BY <3>1, <3>2, <1>0 DEF Due
  <2>3. Ended /\ ~Ended'
    BY <2>1 DEF Ended
  <2> QED BY <2>1, <2>2, <2>3, <1>0 DEF OncePerLife
<1>12. CASE StartCron
  <2>1. server = "ready" /\ server' = "up" /\ cronNext' = now + 1 /\ UNCHANGED <<now, callback, ran, restarts>>
    BY <1>12 DEF StartCron, faultState
  <2>2. \A t : ~Due(t) /\ ~Due(t)'
    BY <2>1 DEF TypeInv, NoneBetween, Due
  <2>3. ~Ended'
    BY <2>1 DEF Ended
  <2> QED BY <2>1, <2>2, <2>3, <1>0 DEF OncePerLife
<1> QED BY <1>1, <1>2, <1>3, <1>4, <1>5, <1>6, <1>7, <1>8, <1>9, <1>10, <1>11, <1>12 DEF CronStep

LEMMA MoreInductive == ASSUME CronAssumption PROVE CronSpec => []CronMore
<1>1. CronInv /\ CronMore /\ [CronStep]_cronVars => CronMore'
  BY CronFlagsStep, CallbackStep, LimitsStep, LifeStep DEF CronInv, CronMore
<1> QED BY <1>1, CronInductive, MoreStarts, PTL DEF CronSpec

\* Start, executeTask and the callbacks of cron keep their types; next_run_at and the
\* library's next callback are never beyond the time that follows now.
THEOREM CronTypes == ASSUME CronAssumption PROVE CronSpec => []CronTypeOK
<1>1. CronInv /\ CronMore => CronTypeOK
  <2> SUFFICES ASSUME CronInv, CronMore PROVE CronTypeOK
    OBVIOUS
  <2>0. MaxTime \in Nat /\ MaxRestarts \in Nat /\ MaxRefusals \in Nat
    BY DEF CronAssumption
  <2>1. now \in 0..MaxTime /\ unsaved \in BOOLEAN
    BY Zenon DEF CronInv, TypeInv, NumberTypes, TimesTypes
  <2>2. ran \in [Times -> 0..(MaxRestarts + MaxRefusals + 1)]
    <3>1. ran \in [Times -> Nat] /\ restarts \in 0..MaxRestarts /\ \A t \in Times : ran[t] <= restarts + 1
      BY DEF CronInv, TypeInv, TimesTypes, CronMore, CronLimits, OncePerLife
    <3>2. \A t \in Times : ran[t] \in 0..(MaxRestarts + MaxRefusals + 1)
      BY <3>1, <2>0
    <3> QED BY <3>1, <3>2
  <2> QED BY <2>1, <2>2, Zenon DEF CronTypeOK, CronMore, CronLimits, CronFlags, CronCallback
<1> QED BY <1>1, CronInductive, MoreInductive, PTL

\* scheduler.go, Start and the callbacks of cron: even if every write of next_run_at is
\* lost, a time is executed at most once in each life of the server.
THEOREM OneExecutionPerLife ==
    ASSUME CronAssumption
    PROVE  CronSpec => [](\A t \in Times : ran[t] <= restarts + 1)
<1>1. CronMore => \A t \in Times : ran[t] <= restarts + 1
  BY DEF CronMore, OncePerLife
<1> QED BY <1>1, MoreInductive, PTL
=============================================================================
