------------------------- MODULE PhoneChannels_proofs -------------------------
(***************************************************************************)
(* Proofs about PhoneChannels, for any numbers of WebSockets, transports   *)
(* and faults: the types, and that a phone does not go on using a          *)
(* WebSocket beside MQTT.                                                  *)
(***************************************************************************)
EXTENDS PhoneChannels, TLAPS

\* A thread waits for a connection of the kind it asked for.
WaitsInv == \A a \in Actors :
    /\ at[a].pc = "wait" => at[a].with \in Transports
    /\ at[a].pc = "ws wait" => at[a].with \in Sockets

ChannelsInv == TypeOK /\ WaitsInv

-----------------------------------------------------------------------------
(* Where a step leaves the actor that makes it.                             *)

States == [pc : Pcs, with : Links \cup {None}]

Moves(a, pc, with) == at' = [at EXCEPT ![a] = [pc |-> pc, with |-> with]]

LEMMA Moved ==
    ASSUME TypeOK, NEW a \in Actors, NEW pc, NEW with, Moves(a, pc, with)
    PROVE  /\ at'[a].pc = pc /\ at'[a].with = with
           /\ \A b \in Actors : b # a => at'[b] = at[b]
BY DEF Moves, TypeOK

LEMMA MoveTypes ==
    ASSUME ChannelsInv, NEW a \in Actors, NEW pc \in Pcs, NEW with \in Links \cup {None}, Moves(a, pc, with),
           pc = "wait" => with \in Transports, pc = "ws wait" => with \in Sockets,
           pc \in {"wait", "close ws", "ws wait"} => with # None
    PROVE  /\ at' \in [Actors -> States] /\ WaitsInv'
           /\ \A b \in Actors : at'[b].pc \in {"wait", "close ws", "ws wait"} => at'[b].with # None
<1>1. at' \in [Actors -> States]
    BY DEF ChannelsInv, TypeOK, Moves, States
<1>2. /\ at'[a].pc = pc /\ at'[a].with = with
      /\ \A b \in Actors : b # a => at'[b] = at[b]
    BY Moved DEF ChannelsInv
<1>3. \A b \in Actors : at[b].pc \in {"wait", "close ws", "ws wait"} => at[b].with # None
    BY DEF ChannelsInv, TypeOK
<1>4. WaitsInv'
    BY <1>2 DEF ChannelsInv, WaitsInv
<1>5. \A b \in Actors : at'[b].pc \in {"wait", "close ws", "ws wait"} => at'[b].with # None
    BY <1>2, <1>3
<1> QED BY <1>1, <1>4, <1>5

LEMMA Fields ==
    ASSUME TypeOK, NEW a \in Actors
    PROVE  /\ at[a].pc \in Pcs /\ at[a].with \in Links \cup {None}
           /\ at[a] = [pc |-> at[a].pc, with |-> at[a].with]
BY DEF TypeOK

LEMMA GotoMoves ==
    ASSUME TypeOK, NEW a \in Actors, NEW pc, Goto(a, pc)
    PROVE  Moves(a, pc, at[a].with)
<1> DEFINE p == at[a].pc
           w == at[a].with
<1>1. at[a] = [pc |-> p, with |-> w]
    BY Fields
<1> HIDE DEF p, w
<1>2. [[pc |-> p, with |-> w] EXCEPT !.pc = pc] = [pc |-> pc, with |-> w]
    OBVIOUS
<1> QED BY <1>1, <1>2 DEF Goto, Moves, w

LEMMA IdleIs ==
    /\ Idle = [pc |-> "idle", with |-> None]
    /\ \A pc : [Idle EXCEPT !.pc = pc] = [pc |-> pc, with |-> None]
BY DEF Idle

LEMMA ReturnMoves ==
    ASSUME TypeOK, NEW a \in Actors, Return(a)
    PROVE  Moves(a, "idle", None)
BY DEF Return, Idle, Moves

LEMMA SetMoves ==
    ASSUME NEW a, NEW pc, at' = [at EXCEPT ![a] = [Idle EXCEPT !.pc = pc]]
    PROVE  Moves(a, pc, None)
BY IdleIs DEF Moves

LEMMA Kinds ==
    /\ Sockets \subseteq Links /\ Transports \subseteq Links /\ Links \subseteq Actors /\ Threads \subseteq Actors
    /\ Sockets \cap Transports = {} /\ Threads \cap Links = {} /\ None \notin Links
    /\ "check" \in Threads /\ "retry" \in Threads /\ "switch" \in Threads
BY LinksAssumption, BoundsAssumption DEF Links, Actors, Threads

\* Only the actor of a step moves, with one exception: a WebSocket that is opened begins
\* to run its callback.
LEMMA StepMoves ==
    ASSUME TypeOK, NEW a \in Actors
    PROVE  LET w == at[a].with IN
           /\ ConnectCloud(a) => \E pc \in {"idle", "mqtt", "ws"} : \E x \in {None, w} : Moves(a, pc, x)
           /\ ConnectMqtt(a) => \E pc \in {"idle", "begin"} : \E x \in {None, w} : Moves(a, pc, x)
           /\ BeginMqtt(a) => \E m \in Transports : Moves(a, "wait", m)
           /\ MqttAnswers(a) => \E pc \in {"adopt", "failed"} : Moves(a, pc, w)
           /\ Adopt(a) => \E pc \in {"online", "close ws"} : Moves(a, pc, IF ws = None THEN None ELSE ws)
           /\ CloseOldWs(a) => Moves(a, "online", None)
           /\ MqttOnline(a) => Moves(a, "beat", w)
           /\ MqttFailed(a) => \E pc \in {"idle", "ws"} : Moves(a, pc, None)
           /\ ScheduleReconnect(a) => Moves(a, "idle", None)
           /\ WsOpened(a) => \E pc \in {"idle", "close self", "beat"} : \E x \in {None, w} : Moves(a, pc, x)
           /\ CloseSelf(a) => Moves(a, "idle", None)
           /\ WsClosed(a) => UNCHANGED at \/ Moves(a, "silence", w)
           /\ MqttClosed(a) => UNCHANGED at \/ \E pc \in {"beat", "silence"} : Moves(a, pc, w)
           /\ Silence(a) => Moves(a, "schedule", w)
           /\ StartHeartbeat(a) => Moves(a, "rearm", w)
           /\ ScheduleFirst(a) => Moves(a, "idle", None)
<1> DEFINE w == at[a].with
<1>1. ConnectCloud(a) => \E pc \in {"idle", "mqtt", "ws"} : \E x \in {None, w} : Moves(a, pc, x)
    BY GotoMoves, ReturnMoves DEF ConnectCloud
<1>2. ConnectMqtt(a) => \E pc \in {"idle", "begin"} : \E x \in {None, w} : Moves(a, pc, x)
    BY GotoMoves, ReturnMoves DEF ConnectMqtt
<1>3. BeginMqtt(a) => \E m \in Transports : Moves(a, "wait", m)
    <2> DEFINE m == CHOOSE l \in Transports : Garbage(l)
    <2>1. BeginMqtt(a) => m \in Transports
        BY DEF BeginMqtt
    <2>2. BeginMqtt(a) => at' = [at EXCEPT ![a] = [pc |-> "wait", with |-> m]]
        BY DEF BeginMqtt
    <2> HIDE DEF m
    <2> QED BY <2>1, <2>2 DEF Moves
<1>4. MqttAnswers(a) => \E pc \in {"adopt", "failed"} : Moves(a, pc, w)
    BY GotoMoves DEF MqttAnswers
<1>5. Adopt(a) => \E pc \in {"online", "close ws"} : Moves(a, pc, IF ws = None THEN None ELSE ws)
    <2>1. CASE ws = None
        BY <2>1, SetMoves DEF Adopt
    <2>2. CASE ws # None
        BY <2>2 DEF Adopt, Moves
    <2> QED BY <2>1, <2>2
<1>6. CloseOldWs(a) => Moves(a, "online", None)
    BY SetMoves DEF CloseOldWs
<1>7. MqttOnline(a) => Moves(a, "beat", w)
    BY GotoMoves DEF MqttOnline
<1>8. MqttFailed(a) => \E pc \in {"idle", "ws"} : Moves(a, pc, None)
    BY ReturnMoves, SetMoves DEF MqttFailed
<1>9. ScheduleReconnect(a) => Moves(a, "idle", None)
    BY ReturnMoves DEF ScheduleReconnect
<1>10. WsOpened(a) => \E pc \in {"idle", "close self", "beat"} : \E x \in {None, w} : Moves(a, pc, x)
    BY GotoMoves, ReturnMoves DEF WsOpened
<1>11. CloseSelf(a) => Moves(a, "idle", None)
    BY ReturnMoves DEF CloseSelf
<1>12. WsClosed(a) => UNCHANGED at \/ Moves(a, "silence", w)
    BY GotoMoves DEF WsClosed
<1>13. MqttClosed(a) => UNCHANGED at \/ \E pc \in {"beat", "silence"} : Moves(a, pc, w)
    BY GotoMoves DEF MqttClosed
<1>14. Silence(a) => Moves(a, "schedule", w)
    BY GotoMoves DEF Silence
<1>15. StartHeartbeat(a) => Moves(a, "rearm", w)
    BY GotoMoves DEF StartHeartbeat
<1>16. ScheduleFirst(a) => Moves(a, "idle", None)
    BY ReturnMoves DEF ScheduleFirst
<1> QED BY <1>1, <1>2, <1>3, <1>4, <1>5, <1>6, <1>7, <1>8, <1>9, <1>10, <1>11, <1>12, <1>13, <1>14, <1>15, <1>16

-----------------------------------------------------------------------------
(* The types.                                                               *)

Sheltered == /\ at \in [Actors -> States] /\ WaitsInv
             /\ \A a \in Actors : at[a].pc \in {"wait", "close ws", "ws wait"} => at[a].with # None

LinkTypes == link \in [Links -> LinkStates]

ChannelTypesOK ==
    /\ ws \in Sockets \cup {None} /\ mqtt \in Transports \cup {None}
    /\ connecting \in BOOLEAN /\ retryTimer \in BOOLEAN /\ token \in BOOLEAN /\ beat \in BOOLEAN
    /\ faults \in 0..MaxFaults

LEMMA InParts == ChannelsInv <=> (Sheltered /\ LinkTypes /\ ChannelTypesOK)
BY DEF ChannelsInv, TypeOK, Sheltered, LinkTypes, ChannelTypesOK, States

LEMMA ChannelsInit == Init => ChannelsInv
<1> SUFFICES ASSUME Init PROVE ChannelsInv
    OBVIOUS
<1>1. LinkTypes
    BY DEF Init, LinkTypes, LinkStates
<1>2. ChannelTypesOK
    <2>1. connecting \in BOOLEAN /\ retryTimer \in BOOLEAN /\ token \in BOOLEAN /\ beat \in BOOLEAN
        BY Zenon DEF Init
    <2>2. faults \in 0..MaxFaults /\ ws \in Sockets \cup {None} /\ mqtt \in Transports \cup {None}
        BY BoundsAssumption DEF Init
    <2> QED BY <2>1, <2>2, Zenon DEF ChannelTypesOK
<1>3. \A a \in Actors : at[a].pc \in {"idle", "cloud"} /\ at[a].with = None
    BY DEF Init, Idle
<1>4. at \in [Actors -> States]
    BY IdleIs DEF Init, States, Pcs
<1>5. Sheltered
    BY <1>3, <1>4 DEF Sheltered, WaitsInv
<1> QED BY <1>1, <1>2, <1>5, InParts

LEMMA MoveShelters ==
    ASSUME ChannelsInv, NEW a \in Actors, NEW pc \in Pcs, NEW with \in Links \cup {None}, Moves(a, pc, with),
           pc = "wait" => with \in Transports, pc = "ws wait" => with \in Sockets,
           pc \in {"wait", "close ws", "ws wait"} => with # None
    PROVE  Sheltered'
BY MoveTypes DEF Sheltered

LEMMA StepShelters ==
    ASSUME ChannelsInv, [Next]_vars
    PROVE  Sheltered'
<1> USE Kinds
<1>0. TypeOK /\ Sheltered
    BY InParts DEF ChannelsInv
<1>s. \A a \in Actors : at[a].with \in Links \cup {None}
    BY <1>0, Fields
<1>k. ASSUME UNCHANGED at PROVE Sheltered'
    BY <1>0, <1>k DEF Sheltered, WaitsInv
<1> DEFINE Quiet == Pcs \ {"wait", "close ws", "ws wait"}
<1>g. ASSUME NEW a \in Actors, NEW pc \in Quiet,
             NEW x \in Links \cup {None}, Moves(a, pc, x)
      PROVE  Sheltered'
    BY <1>g, MoveShelters
<1>q. {"idle", "stop", "cloud", "mqtt", "ws", "begin", "adopt", "failed", "online", "beat", "close self", "open",
       "silence", "schedule", "rearm"} \subseteq Quiet
    BY DEF Pcs
<1>h. ASSUME NEW a \in Actors, \E pc \in Quiet : \E x \in Links \cup {None} : Moves(a, pc, x)
      PROVE  Sheltered'
    BY <1>h, <1>g, Zenon
<1> HIDE DEF Quiet
<1>1. CASE Check
    BY <1>1, <1>0, <1>s, <1>q, <1>g, GotoMoves DEF Check
<1>2. CASE CheckStops
    BY <1>2, <1>0, <1>s, <1>q, <1>g, GotoMoves DEF CheckStops
<1>3. CASE RetryFires
    BY <1>3, <1>0, <1>s, <1>q, <1>g, GotoMoves DEF RetryFires
<1>4. CASE TokenIssued
    BY <1>4, <1>0, <1>s, <1>q, <1>g, GotoMoves DEF TokenIssued
<1>5. ASSUME NEW a \in Threads, Connect(a) PROVE Sheltered'
    <2>0. a \in Actors
        OBVIOUS
    <2>1. CASE ConnectCloud(a) \/ ConnectMqtt(a) \/ MqttAnswers(a)
        <3>1. \E pc \in Quiet : \E x \in {None, at[a].with} : Moves(a, pc, x)
            <4>1. CASE ConnectCloud(a)
                <5>1. \E pc \in {"idle", "mqtt", "ws"} : \E x \in {None, at[a].with} : Moves(a, pc, x)
                    BY <4>1, <2>0, <1>0, StepMoves
                <5> QED BY <5>1, <1>q
            <4>2. CASE ConnectMqtt(a)
                <5>1. \E pc \in {"idle", "begin"} : \E x \in {None, at[a].with} : Moves(a, pc, x)
                    BY <4>2, <2>0, <1>0, StepMoves
                <5> QED BY <5>1, <1>q
            <4>3. CASE MqttAnswers(a)
                BY <4>3, <2>0, <1>0, <1>q, StepMoves
            <4> QED BY <2>1, <4>1, <4>2, <4>3
        <3> QED BY <3>1, <2>0, <1>s, <1>h
    <2>2. CASE CloseOldWs(a) \/ MqttOnline(a) \/ MqttFailed(a) \/ ScheduleReconnect(a)
        <3>1. \E pc \in Quiet : \E x \in {None, at[a].with} : Moves(a, pc, x)
            BY <2>2, <2>0, <1>0, <1>q, StepMoves
        <3> QED BY <3>1, <2>0, <1>s, <1>h
    <2>3. CASE BeginMqtt(a)
        <3>1. PICK m \in Transports : Moves(a, "wait", m)
            BY <2>3, <2>0, <1>0, StepMoves
        <3> QED BY <3>1, <2>0, MoveShelters DEF Pcs
    <2>4. CASE Adopt(a)
        <3>1. ws \in Links \cup {None}
            BY <1>0 DEF TypeOK
        <3>2. CASE ws = None
            <4>1. Moves(a, "online", None)
                BY <2>4, <3>2, SetMoves DEF Adopt
            <4> QED BY <4>1, <2>0, <1>q, <1>g
        <3>3. CASE ws # None
            <4>1. Moves(a, "close ws", ws)
                BY <2>4, <3>3 DEF Adopt, Moves
            <4> QED BY <4>1, <2>0, <3>1, <3>3, MoveShelters DEF Pcs
        <3> QED BY <3>2, <3>3
    <2>5. CASE ConnectWs(a)
        <3>1. CASE Connected
            BY <3>1, <2>5, <2>0, <1>0, <1>q, <1>g, ReturnMoves DEF ConnectWs
        <3>2. CASE ~Connected
            <4> DEFINE w == CHOOSE l \in Sockets : Garbage(l)
            <4>1. w \in Sockets
                BY <2>5, <3>2 DEF ConnectWs
            <4>2. at' = [at EXCEPT ![a] = [pc |-> "ws wait", with |-> w]]
                BY <2>5, <3>2 DEF ConnectWs
            <4> HIDE DEF w
            <4>3. Moves(a, "ws wait", w)
                BY <4>2 DEF Moves
            <4> QED BY <4>1, <4>3, <2>0, MoveShelters DEF Pcs
        <3> QED BY <3>1, <3>2
    <2>6. CASE WsAnswers(a)
        <3> DEFINE w == at[a].with
        <3>1. w \in Sockets
            BY <2>6, <2>0, <1>0 DEF WsAnswers, At, Sheltered, WaitsInv
        <3>2. CASE at' = [at EXCEPT ![a] = [Idle EXCEPT !.pc = "schedule"]]
            BY <3>2, <2>0, <1>q, <1>g, SetMoves
        <3>3. CASE at' = [at EXCEPT ![a] = Idle, ![w] = [Idle EXCEPT !.pc = "open"]]
            <4> HIDE DEF w
            <4>1. at' = [at EXCEPT ![a] = [pc |-> "idle", with |-> None], ![w] = [pc |-> "open", with |-> None]]
                BY <3>3, IdleIs
            <4>2. w \in Actors /\ w # a
                BY <3>1
            <4>3. at' \in [Actors -> States]
                BY <4>1, <4>2, <2>0, <1>0 DEF Sheltered, States, Pcs
            <4>4. /\ at'[a] = [pc |-> "idle", with |-> None] /\ at'[w] = [pc |-> "open", with |-> None]
                  /\ \A b \in Actors : b # a /\ b # w => at'[b] = at[b]
                BY <4>1, <4>2, <2>0, <1>0 DEF Sheltered
            <4>5. /\ at'[a].pc = "idle" /\ at'[w].pc = "open"
                BY <4>4
            <4>6. WaitsInv'
                BY <4>4, <4>5, <1>0 DEF Sheltered, WaitsInv
            <4>7. \A b \in Actors : at'[b].pc \in {"wait", "close ws", "ws wait"} => at'[b].with # None
                BY <4>4, <4>5, <1>0 DEF Sheltered
            <4> QED BY <4>3, <4>6, <4>7 DEF Sheltered
        <3> QED BY <2>6, <3>2, <3>3 DEF WsAnswers
    <2> QED BY <1>5, <2>1, <2>2, <2>3, <2>4, <2>5, <2>6 DEF Connect
<1>6. ASSUME NEW l \in Links, Callback(l) \/ Drop(l) PROVE Sheltered'
    <2>0. l \in Actors
        OBVIOUS
    <2>1. CASE WsOpened(l) \/ CloseSelf(l) \/ Silence(l) \/ ScheduleReconnect(l)
        <3>1. \E pc \in Quiet : \E x \in {None, at[l].with} : Moves(l, pc, x)
            <4>1. CASE WsOpened(l)
                <5>1. \E pc \in {"idle", "close self", "beat"} : \E x \in {None, at[l].with} : Moves(l, pc, x)
                    BY <4>1, <2>0, <1>0, StepMoves
                <5> QED BY <5>1, <1>q
            <4>2. CASE CloseSelf(l) \/ Silence(l) \/ ScheduleReconnect(l)
                BY <4>2, <2>0, <1>0, <1>q, StepMoves
            <4> QED BY <2>1, <4>1, <4>2
        <3> QED BY <3>1, <2>0, <1>s, <1>h
    <2>2. CASE WsClosed(l) \/ MqttClosed(l)
        <3>1. UNCHANGED at \/ \E pc \in Quiet : \E x \in {None, at[l].with} : Moves(l, pc, x)
            BY <2>2, <2>0, <1>0, <1>q, StepMoves
        <3> QED BY <3>1, <2>0, <1>s, <1>k, <1>h
    <2>3. CASE Drop(l)
        BY <2>3, <1>k DEF Drop
    <2> QED BY <1>6, <2>1, <2>2, <2>3 DEF Callback
<1>7. ASSUME NEW a \in Actors, Heartbeat(a) PROVE Sheltered'
    <2>1. CASE StartHeartbeat(a)
        <3>1. Moves(a, "rearm", at[a].with)
            BY <2>1, <1>7, <1>0, StepMoves
        <3> QED BY <3>1, <1>7, <1>s, <1>q, <1>g
    <2>2. CASE ScheduleFirst(a)
        <3>1. Moves(a, "idle", None)
            BY <2>2, <1>7, <1>0, StepMoves
        <3> QED BY <3>1, <1>7, <1>q, <1>g
    <2> QED BY <1>7, <2>1, <2>2 DEF Heartbeat
<1>8. CASE BeatEnds \/ UNCHANGED vars
    BY <1>8, <1>k DEF BeatEnds, vars
<1> QED BY <1>1, <1>2, <1>3, <1>4, <1>5, <1>6, <1>7, <1>8 DEF Next

\* A step closes, drops or starts connections; one becomes "up" when it is answered.
Fades == \A l \in Links : link'[l] = "up" => link[l] = "up"

LEMMA ExceptFades ==
    ASSUME LinkTypes, NEW l, NEW s \in LinkStates \ {"up"}, link' = [link EXCEPT ![l] = s]
    PROVE  LinkTypes' /\ Fades
BY DEF LinkTypes, Fades, LinkStates

LEMMA SameFades == LinkTypes /\ UNCHANGED link => LinkTypes' /\ Fades
BY DEF LinkTypes, Fades

LEMMA UpTypes ==
    ASSUME LinkTypes, NEW l \in Links, NEW kind, Up(l, kind)
    PROVE  LinkTypes'
BY DEF LinkTypes, Up, LinkStates

LEMMA StepFades ==
    ASSUME LinkTypes, NEW a \in Actors
    PROVE  /\ Check \/ CheckStops \/ RetryFires \/ TokenIssued \/ BeatEnds => LinkTypes' /\ Fades
           /\ ConnectCloud(a) \/ Adopt(a) \/ MqttOnline(a) \/ ScheduleReconnect(a) \/ WsOpened(a)
                  \/ Silence(a) \/ StartHeartbeat(a) \/ ScheduleFirst(a) => LinkTypes' /\ Fades
           /\ ConnectMqtt(a) \/ BeginMqtt(a) \/ CloseOldWs(a) \/ MqttFailed(a) \/ ConnectWs(a)
                  \/ CloseSelf(a) \/ Drop(a) \/ WsClosed(a) \/ MqttClosed(a) => LinkTypes' /\ Fades
<1> DEFINE Low == LinkStates \ {"up"}
<1>1. "closed" \in Low /\ "connecting" \in Low /\ "dropped" \in Low
    BY DEF LinkStates
<1>2. ASSUME NEW l, NEW s \in Low, link' = [link EXCEPT ![l] = s] PROVE LinkTypes' /\ Fades
    BY <1>2, ExceptFades
<1> HIDE DEF Low
<1>3. Check \/ CheckStops \/ RetryFires \/ TokenIssued \/ BeatEnds => LinkTypes' /\ Fades
    BY SameFades DEF Check, CheckStops, RetryFires, TokenIssued, BeatEnds
<1>4. ConnectCloud(a) \/ Adopt(a) \/ MqttOnline(a) \/ ScheduleReconnect(a) \/ WsOpened(a)
          \/ Silence(a) \/ StartHeartbeat(a) \/ ScheduleFirst(a) => LinkTypes' /\ Fades
    BY SameFades DEF ConnectCloud, Adopt, MqttOnline, ScheduleReconnect, WsOpened, Silence, StartHeartbeat,
                     ScheduleFirst
<1>5. ConnectMqtt(a) \/ MqttFailed(a) => LinkTypes' /\ Fades
    BY <1>1, <1>2, SameFades DEF ConnectMqtt, MqttFailed
<1>6. CloseOldWs(a) \/ CloseSelf(a) \/ Drop(a) => LinkTypes' /\ Fades
    BY <1>1, <1>2 DEF CloseOldWs, CloseSelf, Drop
<1>7. WsClosed(a) \/ MqttClosed(a) => LinkTypes' /\ Fades
    BY <1>1, <1>2 DEF WsClosed, MqttClosed
<1>8. BeginMqtt(a) => LinkTypes' /\ Fades
    <2> DEFINE m == CHOOSE l \in Transports : Garbage(l)
    <2>1. BeginMqtt(a) => link' = [link EXCEPT ![m] = "connecting"]
        BY DEF BeginMqtt
    <2> HIDE DEF m
    <2> QED BY <2>1, <1>1, <1>2
<1>9. ConnectWs(a) => LinkTypes' /\ Fades
    <2> DEFINE w == CHOOSE l \in Sockets : Garbage(l)
    <2>1. ConnectWs(a) => UNCHANGED link \/ link' = [link EXCEPT ![w] = "connecting"]
        BY DEF ConnectWs
    <2> HIDE DEF w
    <2> QED BY <2>1, <1>1, <1>2, SameFades
<1> QED BY <1>3, <1>4, <1>5, <1>6, <1>7, <1>8, <1>9

LEMMA StepLinks ==
    ASSUME ChannelsInv, [Next]_vars
    PROVE  LinkTypes'
<1> USE Kinds
<1>0. LinkTypes /\ Sheltered
    BY InParts
<1>1. CASE Check \/ CheckStops \/ RetryFires \/ TokenIssued \/ BeatEnds
    BY <1>1, <1>0, StepFades
<1>2. ASSUME NEW a \in Threads, Connect(a) PROVE LinkTypes'
    <2>0. a \in Actors
        OBVIOUS
    <2>1. CASE MqttAnswers(a)
        <3>1. at[a].with \in Links
            BY <2>1, <2>0, <1>0 DEF MqttAnswers, At, Sheltered, WaitsInv
        <3> QED BY <2>1, <3>1, <1>0, UpTypes, ExceptFades DEF MqttAnswers, LinkStates
    <2>2. CASE WsAnswers(a)
        <3>1. at[a].with \in Links
            BY <2>2, <2>0, <1>0 DEF WsAnswers, At, Sheltered, WaitsInv
        <3> QED BY <2>2, <3>1, <1>0, UpTypes, ExceptFades DEF WsAnswers, LinkStates
    <2> QED BY <1>2, <2>0, <2>1, <2>2, <1>0, StepFades DEF Connect
<1>3. ASSUME NEW l \in Links, Callback(l) \/ Drop(l) PROVE LinkTypes'
    BY <1>3, <1>0, StepFades DEF Callback
<1>4. ASSUME NEW a \in Actors, Heartbeat(a) PROVE LinkTypes'
    BY <1>4, <1>0, StepFades DEF Heartbeat
<1>5. CASE UNCHANGED vars
    BY <1>5, <1>0, SameFades DEF vars
<1> QED BY <1>1, <1>2, <1>3, <1>4, <1>5 DEF Next

\* The flags of the phone, and the channels it refers to.
Flags == connecting \in BOOLEAN /\ retryTimer \in BOOLEAN /\ token \in BOOLEAN /\ beat \in BOOLEAN

LEMMA StepFlags ==
    ASSUME Flags, [Next]_vars
    PROVE  Flags'
<1>1. ASSUME Check \/ CheckStops \/ RetryFires \/ TokenIssued PROVE Flags'
    BY <1>1, Zenon DEF Flags, Check, CheckStops, RetryFires, TokenIssued, channels
<1>2. ASSUME NEW a \in Threads, Connect(a) PROVE Flags'
    <2>1. CASE ConnectCloud(a)
        BY <2>1, Zenon DEF Flags, ConnectCloud, channels
    <2>2. CASE ConnectMqtt(a) \/ Adopt(a)
        BY <2>2, Zenon DEF Flags, ConnectMqtt, Adopt
    <2>3. CASE BeginMqtt(a)
        BY <2>3, Zenon DEF Flags, BeginMqtt
    <2>4. CASE MqttAnswers(a) \/ CloseOldWs(a)
        BY <2>4, Zenon DEF Flags, MqttAnswers, CloseOldWs, channels
    <2>5. CASE MqttOnline(a) \/ MqttFailed(a)
        BY <2>5, Zenon DEF Flags, MqttOnline, MqttFailed
    <2>6. CASE ConnectWs(a) \/ WsAnswers(a)
        BY <2>6, Zenon DEF Flags, ConnectWs, WsAnswers
    <2>7. CASE ScheduleReconnect(a)
        BY <2>7, Zenon DEF Flags, ScheduleReconnect
    <2> QED BY <1>2, <2>1, <2>2, <2>3, <2>4, <2>5, <2>6, <2>7, Zenon DEF Connect
<1>3. ASSUME NEW l \in Links, Callback(l) \/ Drop(l) PROVE Flags'
    <2>1. CASE WsOpened(l) \/ CloseSelf(l) \/ WsClosed(l)
        BY <2>1, Zenon DEF Flags, WsOpened, CloseSelf, WsClosed, channels
    <2>2. CASE MqttClosed(l)
        BY <2>2, Zenon DEF Flags, MqttClosed
    <2>3. CASE Silence(l) \/ ScheduleReconnect(l) \/ Drop(l)
        BY <2>3, Zenon DEF Flags, Silence, ScheduleReconnect, Drop, channels
    <2> QED BY <1>3, <2>1, <2>2, <2>3, Zenon DEF Callback
<1>4. ASSUME NEW a \in Actors, Heartbeat(a) PROVE Flags'
    <2>1. CASE StartHeartbeat(a)
        BY <2>1, Zenon DEF Flags, StartHeartbeat, channels
    <2>2. CASE ScheduleFirst(a)
        BY <2>2, Zenon DEF Flags, ScheduleFirst, channels
    <2> QED BY <1>4, <2>1, <2>2, Zenon DEF Heartbeat
<1>5. CASE BeatEnds \/ UNCHANGED vars
    BY <1>5, Zenon DEF Flags, BeatEnds, vars, channels
<1> QED BY <1>1, <1>2, <1>3, <1>4, <1>5, Zenon DEF Next

\* How a step changes the channels in use, and how many faults it counts.
Shrinks == (ws' = ws \/ ws' = None) /\ (mqtt' = mqtt \/ mqtt' = None)
Counts  == faults' = faults \/ Fault

LEMMA StepShrinks ==
    ASSUME NEW a
    PROVE  /\ Check \/ CheckStops \/ RetryFires \/ TokenIssued \/ BeatEnds => Shrinks /\ Counts
           /\ ConnectCloud(a) \/ ConnectMqtt(a) \/ MqttAnswers(a) \/ Adopt(a) \/ CloseOldWs(a) \/ MqttOnline(a)
                  \/ MqttFailed(a) \/ WsAnswers(a) \/ ScheduleReconnect(a) => Shrinks /\ Counts
           /\ WsOpened(a) \/ CloseSelf(a) \/ WsClosed(a) \/ MqttClosed(a) \/ Silence(a) \/ Drop(a)
                  \/ StartHeartbeat(a) \/ ScheduleFirst(a) => Shrinks /\ Counts
<1>1. Check \/ CheckStops \/ RetryFires \/ TokenIssued \/ BeatEnds => Shrinks /\ Counts
    BY DEF Check, CheckStops, RetryFires, TokenIssued, BeatEnds, channels, Shrinks, Counts
<1>2. ConnectCloud(a) \/ ConnectMqtt(a) \/ MqttAnswers(a) \/ Adopt(a) \/ CloseOldWs(a) \/ MqttOnline(a)
          \/ MqttFailed(a) \/ WsAnswers(a) \/ ScheduleReconnect(a) => Shrinks /\ Counts
    BY DEF ConnectCloud, ConnectMqtt, MqttAnswers, Adopt, CloseOldWs, MqttOnline, MqttFailed, WsAnswers,
           ScheduleReconnect, channels, NoFault, Shrinks, Counts
<1>3. WsOpened(a) \/ CloseSelf(a) \/ WsClosed(a) \/ MqttClosed(a) \/ Silence(a) \/ Drop(a)
          \/ StartHeartbeat(a) \/ ScheduleFirst(a) => Shrinks /\ Counts
    BY DEF WsOpened, CloseSelf, WsClosed, MqttClosed, Silence, Drop, StartHeartbeat, ScheduleFirst, channels,
           Shrinks, Counts
<1> QED BY <1>1, <1>2, <1>3

\* The channels in use are a WebSocket and a transport.
Refers == ws \in Sockets \cup {None} /\ mqtt \in Transports \cup {None} /\ faults \in 0..MaxFaults

LEMMA StepRefers ==
    ASSUME Refers, [Next]_vars
    PROVE  Refers'
<1>0. Counts => faults' \in 0..MaxFaults
    BY BoundsAssumption DEF Counts, Fault, Refers
<1>1. ASSUME Shrinks, Counts PROVE Refers'
    BY <1>0, <1>1 DEF Shrinks, Refers
<1>2. ASSUME NEW a, BeginMqtt(a) PROVE Refers'
    BY <1>2 DEF BeginMqtt, Refers
<1>3. ASSUME NEW a, ConnectWs(a) PROVE Refers'
    BY <1>3 DEF ConnectWs, Refers
<1>4. CASE Check \/ CheckStops \/ RetryFires \/ TokenIssued \/ BeatEnds
    BY <1>4, <1>1, StepShrinks
<1>5. ASSUME NEW a \in Threads, Connect(a) PROVE Refers'
    BY <1>5, <1>1, <1>2, <1>3, StepShrinks DEF Connect
<1>6. ASSUME NEW l \in Links, Callback(l) \/ Drop(l) PROVE Refers'
    BY <1>6, <1>1, StepShrinks DEF Callback
<1>7. ASSUME NEW a \in Actors, Heartbeat(a) PROVE Refers'
    BY <1>7, <1>1, StepShrinks DEF Heartbeat
<1>8. CASE UNCHANGED vars
    BY <1>8 DEF vars, channels, Refers
<1> QED BY <1>4, <1>5, <1>6, <1>7, <1>8 DEF Next

LEMMA ChannelsStep == ChannelsInv /\ [Next]_vars => ChannelsInv'
<1> SUFFICES ASSUME ChannelsInv, [Next]_vars PROVE ChannelsInv'
    OBVIOUS
<1>1. Sheltered' /\ LinkTypes'
    BY StepShelters, StepLinks
<1>2. Flags /\ Refers
    BY InParts, Zenon DEF ChannelTypesOK, Flags, Refers
<1>3. Flags' /\ Refers'
    BY <1>2, StepFlags, StepRefers
<1>4. ChannelTypesOK'
    BY <1>3, Zenon DEF ChannelTypesOK, Flags, Refers
<1>5. ChannelsInv' <=> Sheltered' /\ LinkTypes' /\ ChannelTypesOK'
    BY DEF ChannelsInv, TypeOK, Sheltered, LinkTypes, ChannelTypesOK, States
<1> QED BY <1>1, <1>4, <1>5

\* Whatever the network loses and whichever threads connect at the same time, the phone
\* waits only for connections of the kind it asked for: main.js:1053 (connectMQTT),
\* main.js:1159 (connectWS).
THEOREM ChannelTypes == Spec => []TypeOK
<1>1. ChannelsInv => TypeOK
    BY DEF ChannelsInv
<1> QED BY <1>1, ChannelsInit, ChannelsStep, PTL DEF Spec

-----------------------------------------------------------------------------
(* One main channel.                                                        *)

\* The states in which a WebSocket beside MQTT is excused.
Leaving == {"adopt", "open"}

LEMMA UpAre ==
    ASSUME Refers
    PROVE  /\ MqttUp => mqtt \in Transports /\ link[mqtt] = "up"
           /\ WsUp => ws \in Sockets /\ link[ws] = "up"
BY DEF Refers, MqttUp, WsUp

\* A step in which nothing comes up and nobody ceases to be about to close the WebSocket.
LEMMA FadesKeepOne ==
    ASSUME Refers, LinkTypes, Sheltered, OneMainChannel, Shrinks, Fades,
           UNCHANGED at \/ \E a \in Actors : at[a].pc \notin Leaving
                               /\ \A b \in Actors : b # a => at'[b] = at[b]
    PROVE  OneMainChannel'
<1> USE Kinds
<1> SUFFICES ASSUME MqttUp', WsUp'
             PROVE  (\E b \in Threads : at'[b].pc = "adopt") \/ at'[ws'].pc = "open"
    BY DEF OneMainChannel, At
<1>1. ws' = ws /\ mqtt' = mqtt /\ ws \in Sockets /\ mqtt \in Transports
    BY DEF MqttUp, WsUp, Shrinks, Refers
<1>2. link'[ws] = "up" /\ link'[mqtt] = "up"
    BY <1>1 DEF MqttUp, WsUp
<1>3. MqttUp /\ WsUp
    BY <1>1, <1>2 DEF MqttUp, WsUp, Fades
<1>4. (\E b \in Threads : at[b].pc = "adopt") \/ at[ws].pc = "open"
    BY <1>3 DEF OneMainChannel, At
<1>5. \A b \in Actors : at[b].pc \in Leaving => at'[b] = at[b]
    OBVIOUS
<1> QED BY <1>1, <1>4, <1>5 DEF Leaving

LEMMA MovesOnly ==
    ASSUME ChannelsInv, NEW a \in Actors
    PROVE  /\ ConnectCloud(a) \/ ConnectMqtt(a) \/ MqttAnswers(a) \/ CloseOldWs(a) \/ MqttOnline(a) \/ MqttFailed(a)
                  \/ ScheduleReconnect(a) => \A b \in Actors : b # a => at'[b] = at[b]
           /\ CloseSelf(a) \/ WsClosed(a) \/ MqttClosed(a) \/ Silence(a) \/ StartHeartbeat(a) \/ ScheduleFirst(a)
                  => \A b \in Actors : b # a => at'[b] = at[b]
           /\ WsOpened(a) => \A b \in Actors : b # a => at'[b] = at[b]
<1>0. TypeOK
    BY DEF ChannelsInv
<1>1. ASSUME \E pc : \E x : Moves(a, pc, x) PROVE \A b \in Actors : b # a => at'[b] = at[b]
    BY <1>1, <1>0, Moved
<1>2. ASSUME NEW pc, NEW x, Moves(a, pc, x) PROVE \A b \in Actors : b # a => at'[b] = at[b]
    BY <1>2, <1>1
<1>3. ConnectCloud(a) \/ ConnectMqtt(a) \/ MqttAnswers(a) \/ CloseOldWs(a) \/ MqttOnline(a) \/ MqttFailed(a)
          \/ ScheduleReconnect(a) => \A b \in Actors : b # a => at'[b] = at[b]
    BY <1>0, <1>2, StepMoves
<1>4. CloseSelf(a) \/ WsClosed(a) \/ MqttClosed(a) \/ Silence(a) \/ StartHeartbeat(a) \/ ScheduleFirst(a)
          => \A b \in Actors : b # a => at'[b] = at[b]
    BY <1>0, <1>2, StepMoves
<1>5. WsOpened(a) => \A b \in Actors : b # a => at'[b] = at[b]
    BY <1>0, <1>2, StepMoves
<1> QED BY <1>3, <1>4, <1>5

LEMMA OneMainChannelStep ==
    ASSUME ChannelsInv, OneMainChannel, [Next]_vars
    PROVE  OneMainChannel'
<1> USE Kinds
<1>0. TypeOK /\ Refers /\ LinkTypes /\ Sheltered
    BY InParts DEF ChannelsInv, Refers, ChannelTypesOK
<1>i. Sheltered' /\ LinkTypes'
    BY StepShelters, StepLinks
<1>k. ASSUME Shrinks, Fades, UNCHANGED at PROVE OneMainChannel'
    BY <1>k, <1>0, FadesKeepOne
<1>f. ASSUME NEW a \in Actors, Shrinks, Fades, at[a].pc \notin Leaving, \A b \in Actors : b # a => at'[b] = at[b]
      PROVE  OneMainChannel'
    BY <1>f, <1>0, FadesKeepOne
<1>1. CASE Check \/ CheckStops \/ RetryFires \/ TokenIssued
    <2>1. Shrinks /\ Fades
        BY <1>1, <1>0, StepFades, StepShrinks
    <2>2. PICK a \in {"check", "retry", "switch"} : \E pc : Goto(a, pc) /\ at[a].pc \in {"idle", "stop"}
        BY <1>1 DEF Check, CheckStops, RetryFires, TokenIssued, At
    <2>3. \A b \in Actors : b # a => at'[b] = at[b]
        BY <2>2, <1>0, GotoMoves, Moved
    <2> QED BY <2>1, <2>2, <2>3, <1>f DEF Leaving
<1>2. ASSUME NEW a \in Threads, Connect(a) PROVE OneMainChannel'
    <2>0. a \in Actors
        OBVIOUS
    <2>1. CASE ConnectCloud(a) \/ ConnectMqtt(a) \/ CloseOldWs(a) \/ MqttOnline(a) \/ MqttFailed(a)
                   \/ ScheduleReconnect(a)
        <3>1. Shrinks /\ Fades
            BY <2>1, <2>0, <1>0, StepFades, StepShrinks
        <3>2. at[a].pc \notin Leaving
            BY <2>1 DEF ConnectCloud, ConnectMqtt, CloseOldWs, MqttOnline, MqttFailed, ScheduleReconnect, At, Leaving
        <3>3. \A b \in Actors : b # a => at'[b] = at[b]
            BY <2>1, <2>0, MovesOnly
        <3> QED BY <3>1, <3>2, <3>3, <2>0, <1>f
    <2>2. CASE BeginMqtt(a)
        <3>1. link'[mqtt'] = "connecting"
            <4> DEFINE m == CHOOSE l \in Transports : Garbage(l)
            <4>1. m \in Transports /\ mqtt' = m /\ link' = [link EXCEPT ![m] = "connecting"]
                BY <2>2 DEF BeginMqtt
            <4> HIDE DEF m
            <4> QED BY <4>1, <1>0 DEF LinkTypes
        <3> QED BY <3>1 DEF OneMainChannel, MqttUp
    <2>3. CASE MqttAnswers(a)
        <3> DEFINE m == at[a].with
        <3>1. CASE link' = [link EXCEPT ![m] = "closed"]
            <4>1. Fades
                BY <3>1, <1>0, ExceptFades DEF LinkStates
            <4>2. Shrinks
                BY <2>3, StepShrinks
            <4>3. at[a].pc \notin Leaving
                BY <2>3 DEF MqttAnswers, At, Leaving
            <4>4. \A b \in Actors : b # a => at'[b] = at[b]
                BY <2>3, <2>0, MovesOnly
            <4> QED BY <4>1, <4>2, <4>3, <4>4, <2>0, <1>f
        <3>2. CASE Goto(a, "adopt")
            <4>1. at'[a].pc = "adopt"
                BY <3>2, <2>0, <1>0, GotoMoves, Moved
            <4> QED BY <4>1 DEF OneMainChannel, At
        <3> QED BY <2>3, <3>1, <3>2 DEF MqttAnswers
    <2>4. CASE Adopt(a)
        BY <2>4 DEF Adopt, OneMainChannel, WsUp
    <2>5. CASE ConnectWs(a)
        <3>1. CASE Connected
            <4>1. Fades
                BY <2>5, <2>0, <1>0, StepFades
            <4>2. Shrinks /\ Return(a) /\ at[a].pc = "ws"
                BY <2>5, <3>1 DEF ConnectWs, Shrinks, At
            <4>3. \A b \in Actors : b # a => at'[b] = at[b]
                BY <4>2, <2>0, <1>0, ReturnMoves, Moved
            <4> QED BY <4>1, <4>2, <4>3, <2>0, <1>f DEF Leaving
        <3>2. CASE ~Connected
            <4> DEFINE w == CHOOSE l \in Sockets : Garbage(l)
            <4>1. w \in Sockets /\ ws' = w /\ link' = [link EXCEPT ![w] = "connecting"]
                BY <2>5, <3>2 DEF ConnectWs
            <4> HIDE DEF w
            <4>2. link'[ws'] = "connecting"
                BY <4>1, <1>0 DEF LinkTypes
            <4> QED BY <4>2 DEF OneMainChannel, WsUp
        <3> QED BY <3>1, <3>2
    <2>6. CASE WsAnswers(a)
        <3> DEFINE w == at[a].with
        <3>0. w \in Sockets /\ at[a].pc = "ws wait"
            BY <2>6, <2>0, <1>0 DEF WsAnswers, At, Sheltered, WaitsInv
        <3>1. CASE link' = [link EXCEPT ![w] = "closed"] /\ at' = [at EXCEPT ![a] = [Idle EXCEPT !.pc = "schedule"]]
            <4>1. Fades
                BY <3>1, <1>0, ExceptFades DEF LinkStates
            <4>2. Shrinks
                BY <2>6, StepShrinks
            <4>3. \A b \in Actors : b # a => at'[b] = at[b]
                BY <3>1, <2>0, <1>0, SetMoves, Moved
            <4> QED BY <4>1, <4>2, <4>3, <3>0, <2>0, <1>f DEF Leaving
        <3>2. CASE /\ Up(w, Sockets) /\ UNCHANGED ws
                   /\ at' = [at EXCEPT ![a] = Idle, ![w] = [Idle EXCEPT !.pc = "open"]]
            <4> HIDE DEF w
            <4>1. at'[w].pc = "open"
                <5>1. at' = [at EXCEPT ![a] = Idle, ![w] = [pc |-> "open", with |-> None]]
                    BY <3>2, IdleIs
                <5>2. at'[w] = [pc |-> "open", with |-> None]
                    BY <5>1, <3>0, <1>0 DEF Sheltered
                <5> QED BY <5>2
            <4>2. WsUp' => ws' = w
                <5>1. ws \in Sockets /\ ws # w => link'[ws] # "up"
                    BY <3>2, <3>0, <1>0 DEF Up, LinkTypes
                <5>2. ws' = ws /\ ws \in Sockets \cup {None}
                    BY <3>2, <1>0 DEF Refers
                <5> QED BY <5>1, <5>2 DEF WsUp
            <4> QED BY <4>1, <4>2 DEF OneMainChannel, At
        <3> QED BY <2>6, <3>1, <3>2 DEF WsAnswers
    <2> QED BY <1>2, <2>1, <2>2, <2>3, <2>4, <2>5, <2>6 DEF Connect
<1>3. ASSUME NEW l \in Links, Callback(l) \/ Drop(l) PROVE OneMainChannel'
    <2>0. l \in Actors /\ l \notin Threads
        OBVIOUS
    <2>1. CASE WsOpened(l)
        <3>1. Shrinks /\ Fades /\ at[l].pc = "open"
            BY <2>1, <2>0, <1>0, StepFades, StepShrinks DEF WsOpened, At
        <3>2. \A b \in Actors : b # l => at'[b] = at[b]
            BY <2>1, <2>0, MovesOnly
        <3>3. CASE ws # l
            <4> SUFFICES ASSUME MqttUp', WsUp'
                         PROVE  (\E b \in Threads : at'[b].pc = "adopt") \/ at'[ws'].pc = "open"
                BY DEF OneMainChannel, At
            <4>1. ws' = ws /\ mqtt' = mqtt /\ ws \in Sockets /\ mqtt \in Transports
                BY <3>1, <1>0 DEF MqttUp, WsUp, Shrinks, Refers
            <4>2. MqttUp /\ WsUp
                BY <4>1, <3>1 DEF MqttUp, WsUp, Fades
            <4>3. (\E b \in Threads : at[b].pc = "adopt") \/ at[ws].pc = "open"
                BY <4>2 DEF OneMainChannel, At
            <4> QED BY <4>1, <4>3, <3>2, <3>3, <2>0
        <3>4. CASE ws = l /\ MqttUp
            BY <2>1, <3>4 DEF WsOpened, OneMainChannel, WsUp
        <3>5. CASE ws = l /\ ~MqttUp
            <4>1. mqtt' = mqtt /\ link' = link
                BY <2>1 DEF WsOpened
            <4> QED BY <4>1, <3>5 DEF OneMainChannel, MqttUp
        <3> QED BY <3>3, <3>4, <3>5
    <2>2. CASE CloseSelf(l) \/ Silence(l) \/ ScheduleReconnect(l)
        <3>1. Shrinks /\ Fades
            BY <2>2, <2>0, <1>0, StepFades, StepShrinks
        <3>2. at[l].pc \notin Leaving
            BY <2>2 DEF CloseSelf, Silence, ScheduleReconnect, At, Leaving
        <3>3. \A b \in Actors : b # l => at'[b] = at[b]
            BY <2>2, <2>0, MovesOnly
        <3> QED BY <3>1, <3>2, <3>3, <2>0, <1>f
    <2>3. CASE WsClosed(l) \/ MqttClosed(l)
        <3>1. Shrinks /\ Fades
            BY <2>3, <2>0, <1>0, StepFades, StepShrinks
        <3>2. at[l].pc \notin Leaving
            BY <2>3 DEF WsClosed, MqttClosed, At, Leaving
        <3>3. \A b \in Actors : b # l => at'[b] = at[b]
            BY <2>3, <2>0, MovesOnly
        <3> QED BY <3>1, <3>2, <3>3, <2>0, <1>f
    <2>4. CASE Drop(l)
        <3>1. Shrinks /\ Fades
            BY <2>4, <2>0, <1>0, StepFades, StepShrinks
        <3> QED BY <2>4, <3>1, <1>k DEF Drop
    <2> QED BY <1>3, <2>1, <2>2, <2>3, <2>4 DEF Callback
<1>4. ASSUME NEW a \in Actors, Heartbeat(a) PROVE OneMainChannel'
    <2>1. Shrinks /\ Fades
        BY <1>4, <1>0, StepFades, StepShrinks DEF Heartbeat
    <2>2. at[a].pc \notin Leaving
        BY <1>4 DEF Heartbeat, StartHeartbeat, ScheduleFirst, At, Leaving
    <2>3. \A b \in Actors : b # a => at'[b] = at[b]
        BY <1>4, MovesOnly DEF Heartbeat
    <2> QED BY <2>1, <2>2, <2>3, <1>4, <1>f
<1>5. CASE BeatEnds
    <2>1. Shrinks /\ Fades
        BY <1>5, <1>0, StepFades, StepShrinks
    <2> QED BY <1>5, <2>1, <1>k DEF BeatEnds
<1>6. CASE UNCHANGED vars
    BY <1>6 DEF vars, channels, OneMainChannel, MqttUp, WsUp, At
<1> QED BY <1>1, <1>2, <1>3, <1>4, <1>5, <1>6 DEF Next

\* The phone does not go on using a WebSocket beside MQTT, whichever of the two is answered
\* first and whoever connects meanwhile: main.js:1129 closes the WebSocket when MQTT comes up,
\* main.js:1191 closes one that opens when MQTT is up already.
THEOREM OneMainChannelKept == Spec => []OneMainChannel
<1>1. Init => OneMainChannel
    BY DEF Init, OneMainChannel, WsUp
<1>2. ChannelsInv /\ OneMainChannel /\ [Next]_vars => OneMainChannel'
    BY OneMainChannelStep
<1> QED BY <1>1, <1>2, ChannelsInit, ChannelsStep, PTL DEF Spec

=============================================================================
