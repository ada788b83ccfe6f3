---------------------------- MODULE PhoneChannels ----------------------------
(***************************************************************************)
(* How the phone stays connected: connectCloud, connectMQTT, connectWS,    *)
(* scheduleReconnect and the heartbeat of client/easyclick/src/js/main.js, *)
(* with the transport of slib/mqtt_transport.js: MQTT is preferred, the    *)
(* WebSocket is the fallback.                                              *)
(*                                                                         *)
(* main and its 15-second check, the reconnect timer and the switch to     *)
(* MQTT after the first registration call these functions in threads of    *)
(* their own, and every connection has a thread for its callbacks. A step  *)
(* ends where the code calls the network, the storage or a timer; a test   *)
(* of globals and the assignments that follow it are one step.             *)
(***************************************************************************)
EXTENDS Integers, FiniteSets

CONSTANTS
    Sockets,        \* bound: WebSockets at a time
    Transports,     \* bound: MQTT transports at a time
    None,
    Mqtt,           \* CLOUD_TRANSPORT is "mqtt" and the address is no https or wss
    MaxFaults       \* bound: lost connections and failed attempts in a behaviour

Threads == {"check", "retry", "switch"}
Links   == Sockets \cup Transports
Actors  == Threads \cup Links

ASSUME LinksAssumption == IsFiniteSet(Links) /\ Sockets \cap Transports = {} /\ Threads \cap Links = {}
ASSUME BoundsAssumption == None \notin Links /\ Mqtt \in BOOLEAN /\ MaxFaults \in Nat

VARIABLES
    ws,             \* gWebSocket
    mqtt,           \* gMqttTransport
    connecting,     \* gMqttConnecting
    retryTimer,     \* gReconnectTimer is armed
    token,          \* the device token has been issued
    link,           \* what each connection is doing
    beat,           \* gHeartbeatTimer is armed, or its callback runs and will arm it
    at,             \* what each thread executes
    faults          \* history: faults so far

channels == <<ws, mqtt, connecting, retryTimer, token>>
vars     == <<channels, link, beat, at, faults>>

LinkStates == {"closed", "connecting", "up", "dropped"}
Pcs == {"idle", "stop", "cloud", "mqtt", "begin", "wait", "adopt", "close ws", "online", "failed",
        "ws", "ws wait", "schedule", "open", "close self", "lost", "silence",
        "beat", "rearm"}

TypeOK ==
    /\ ws \in Sockets \cup {None} /\ mqtt \in Transports \cup {None}
    /\ connecting \in BOOLEAN /\ retryTimer \in BOOLEAN /\ token \in BOOLEAN /\ beat \in BOOLEAN
    /\ link \in [Links -> LinkStates]
    /\ at \in [Actors -> [pc : Pcs, with : Links \cup {None}]]
    /\ \A a \in Actors : at[a].pc \in {"wait", "close ws", "ws wait"} => at[a].with # None
    /\ faults \in 0..MaxFaults

Idle == [pc |-> "idle", with |-> None]

Init ==
    /\ ws = None /\ mqtt = None /\ connecting = FALSE /\ retryTimer = FALSE /\ token = FALSE
    /\ link = [l \in Links |-> "closed"]
    /\ beat = FALSE
    /\ at = [a \in Actors |-> IF a = "check" THEN [Idle EXCEPT !.pc = "cloud"] ELSE Idle]
    /\ faults = 0

At(a, pc) == at[a].pc = pc
Goto(a, pc) == at' = [at EXCEPT ![a].pc = pc]
Return(a) == at' = [at EXCEPT ![a] = Idle]
Fault == faults < MaxFaults /\ faults' = faults + 1
NoFault == UNCHANGED faults

MqttUp == mqtt # None /\ link[mqtt] = "up"
WsUp   == ws # None /\ link[ws] = "up"
Connected == MqttUp \/ WsUp

\* A connection object that nothing refers to any more.
Garbage(l) ==
    /\ link[l] = "closed" /\ l # ws /\ l # mqtt /\ at[l] = Idle
    /\ \A a \in Actors : at[a].with # l

-----------------------------------------------------------------------------
(* Who connects.                                                            *)

\* main calls connectCloud and then sets an interval, every 15 s:
\* if (!isCloudConnected()) { stopHeartbeat(); connectCloud(); }
Check ==
    /\ At("check", "idle") /\ ~Connected
    /\ Goto("check", "stop")
    /\ UNCHANGED <<channels, link, beat, faults>>

CheckStops ==
    /\ At("check", "stop")
    /\ beat' = FALSE
    /\ Goto("check", "cloud")
    /\ UNCHANGED <<channels, link, faults>>

RetryFires ==
    /\ retryTimer /\ At("retry", "idle")
    /\ retryTimer' = FALSE
    /\ Goto("retry", "cloud")
    /\ UNCHANGED <<ws, mqtt, connecting, token, link, beat, faults>>

\* The server answers the first register with a device token: one second later MQTT
\* is tried with it.
TokenIssued ==
    /\ Connected /\ ~token /\ token' = TRUE
    /\ At("switch", "idle") /\ Goto("switch", "mqtt")
    /\ UNCHANGED <<ws, mqtt, connecting, retryTimer, link, beat, faults>>

ConnectCloud(a) ==
    /\ At(a, "cloud")
    /\ IF Connected THEN Return(a)
       ELSE Goto(a, IF Mqtt THEN "mqtt" ELSE "ws")
    /\ UNCHANGED <<channels, link, beat, faults>>

-----------------------------------------------------------------------------
(* connectMQTT                                                              *)

\* The server keeps one connection of a kind for a device and drops the older ones.
Up(l, kind) == link' = [k \in Links |->
    IF k = l THEN "up" ELSE IF k \in kind /\ link[k] = "up" THEN "dropped" ELSE link[k]]

\* A transport that was left behind is detached and closed.
ConnectMqtt(a) ==
    /\ At(a, "mqtt")
    /\ IF ~MqttUp /\ ~connecting
       THEN /\ mqtt' = None
            /\ link' = IF mqtt = None THEN link ELSE [link EXCEPT ![mqtt] = "closed"]
            /\ Goto(a, "begin")
       ELSE Return(a) /\ UNCHANGED <<mqtt, link>>
    /\ UNCHANGED <<ws, connecting, retryTimer, token, beat, faults>>

BeginMqtt(a) == LET m == CHOOSE l \in Transports : Garbage(l) IN
    /\ At(a, "begin") /\ \E l \in Transports : Garbage(l)
    /\ connecting' = TRUE /\ mqtt' = m
    /\ link' = [link EXCEPT ![m] = "connecting"]
    /\ at' = [at EXCEPT ![a] = [pc |-> "wait", with |-> m]]
    /\ UNCHANGED <<ws, retryTimer, token, beat, faults>>

\* CloudMqttTransport.connect: the reader thread and the ping timer start when the
\* broker has accepted; it may never answer, but then the connection breaks in the end.
MqttAnswers(a) == LET m == at[a].with IN
    /\ At(a, "wait")
    /\ \/ link[m] = "connecting" /\ NoFault
          /\ Up(m, Transports) /\ Goto(a, "adopt")
       \/ (IF link[m] = "connecting" THEN Fault ELSE NoFault)
          /\ link' = [link EXCEPT ![m] = "closed"] /\ Goto(a, "failed")
    /\ UNCHANGED <<channels, beat>>

\* main.js:1129: the old WebSocket is closed, so that one main channel is left.
\* Mutant: it is kept.
KeepWs(a) ==
    /\ At(a, "adopt")
    /\ Goto(a, "online")
    /\ UNCHANGED <<channels, link, beat, faults>>

Adopt(a) ==
    /\ At(a, "adopt")
    /\ ws' = None
    /\ at' = [at EXCEPT ![a] = IF ws = None THEN [Idle EXCEPT !.pc = "online"]
                               ELSE [pc |-> "close ws", with |-> ws]]
    /\ UNCHANGED <<mqtt, connecting, retryTimer, token, link, beat, faults>>

CloseOldWs(a) ==
    /\ At(a, "close ws")
    /\ link' = [link EXCEPT ![at[a].with] = "closed"]
    /\ at' = [at EXCEPT ![a] = [Idle EXCEPT !.pc = "online"]]
    /\ UNCHANGED <<channels, beat, faults>>

MqttOnline(a) ==
    /\ At(a, "online")
    /\ connecting' = FALSE
    /\ Goto(a, "beat")
    /\ UNCHANGED <<ws, mqtt, retryTimer, token, link, beat, faults>>

\* Mutant: the flag is left set when the attempt fails.
MqttFailedStillConnecting(a) ==
    /\ At(a, "failed")
    /\ mqtt' = None
    /\ link' = IF mqtt = None THEN link ELSE [link EXCEPT ![mqtt] = "closed"]
    /\ IF a = "switch" THEN Return(a) ELSE at' = [at EXCEPT ![a] = [Idle EXCEPT !.pc = "ws"]]
    /\ UNCHANGED <<ws, connecting, retryTimer, token, beat, faults>>

\* The catch of connectMQTT closes whatever gMqttTransport is by then.
MqttFailed(a) ==
    /\ At(a, "failed")
    /\ connecting' = FALSE /\ mqtt' = None
    /\ link' = IF mqtt = None THEN link ELSE [link EXCEPT ![mqtt] = "closed"]
    /\ IF a = "switch" THEN Return(a) ELSE at' = [at EXCEPT ![a] = [Idle EXCEPT !.pc = "ws"]]
    /\ UNCHANGED <<ws, retryTimer, token, beat, faults>>

-----------------------------------------------------------------------------
(* connectWS and scheduleReconnect                                          *)

ConnectWs(a) ==
    /\ At(a, "ws")
    /\ IF Connected
       THEN Return(a) /\ UNCHANGED <<ws, link>>
       ELSE LET w == CHOOSE l \in Sockets : Garbage(l) IN
            /\ \E l \in Sockets : Garbage(l)
            /\ ws' = w
            /\ link' = [link EXCEPT ![w] = "connecting"]
            /\ at' = [at EXCEPT ![a] = [pc |-> "ws wait", with |-> w]]
    /\ UNCHANGED <<mqtt, connecting, retryTimer, token, beat, faults>>

WsAnswers(a) == LET w == at[a].with IN
    /\ At(a, "ws wait")
    /\ \/ /\ link[w] = "connecting" /\ NoFault
          /\ Up(w, Sockets)
          /\ at' = [at EXCEPT ![a] = Idle, ![w] = [Idle EXCEPT !.pc = "open"]]
          /\ UNCHANGED ws
       \/ /\ IF link[w] = "connecting" THEN Fault ELSE NoFault
          /\ link' = [link EXCEPT ![w] = "closed"]
          /\ ws' = IF ws = w THEN None ELSE ws
          /\ at' = [at EXCEPT ![a] = [Idle EXCEPT !.pc = "schedule"]]
    /\ UNCHANGED <<mqtt, connecting, retryTimer, token, beat>>

\* Only the delay grows with the number of attempts.
ScheduleReconnect(a) ==
    /\ At(a, "schedule")
    /\ retryTimer' = TRUE
    /\ Return(a)
    /\ UNCHANGED <<ws, mqtt, connecting, token, link, beat, faults>>

\* onOpen: an open socket that is not gWebSocket any more is left as it is.
WsOpened(w) ==
    /\ At(w, "open")
    /\ IF ws # w THEN Return(w) /\ UNCHANGED ws
       ELSE IF MqttUp THEN ws' = None /\ Goto(w, "close self")
       ELSE Goto(w, "beat") /\ UNCHANGED ws
    /\ UNCHANGED <<mqtt, connecting, retryTimer, token, link, beat, faults>>

CloseSelf(w) ==
    /\ At(w, "close self")
    /\ link' = [link EXCEPT ![w] = "closed"]
    /\ Return(w)
    /\ UNCHANGED <<channels, beat, faults>>

-----------------------------------------------------------------------------
(* A connection is lost: the callbacks onClose of the two channels.         *)

Drop(l) ==
    /\ link[l] = "up" /\ Fault
    /\ link' = [link EXCEPT ![l] = "dropped"]
    /\ UNCHANGED <<channels, beat, at>>

\* The socket's thread reads the end of the stream.
WsClosed(w) ==
    /\ link[w] = "dropped" /\ At(w, "idle")
    /\ link' = [link EXCEPT ![w] = "closed"]
    /\ ws' = IF ws = w THEN None ELSE ws
    /\ IF ws = w /\ ~MqttUp THEN Goto(w, "silence") ELSE UNCHANGED at
    /\ UNCHANGED <<mqtt, connecting, retryTimer, token, beat, faults>>

MqttClosed(m) ==
    /\ link[m] = "dropped" /\ At(m, "idle")
    /\ link' = [link EXCEPT ![m] = "closed"]
    /\ IF mqtt = m
       THEN /\ connecting' = FALSE /\ mqtt' = None
            /\ Goto(m, IF WsUp THEN "beat" ELSE "silence")
       ELSE UNCHANGED <<connecting, mqtt, at>>
    /\ UNCHANGED <<ws, retryTimer, token, beat, faults>>

\* stopHeartbeat before scheduleReconnect
Silence(l) ==
    /\ At(l, "silence")
    /\ beat' = FALSE
    /\ Goto(l, "schedule")
    /\ UNCHANGED <<channels, link, faults>>

-----------------------------------------------------------------------------
(* startHeartbeat and the chain of heartbeat timers.                        *)

\* The old timer is stopped; sendHeartbeatNow flushes the outbox and sends ...
StartHeartbeat(a) ==
    /\ At(a, "beat")
    /\ beat' = FALSE
    /\ Goto(a, "rearm")
    /\ UNCHANGED <<channels, link, faults>>

\* ... before scheduleNextHeartbeat.
ScheduleFirst(a) ==
    /\ At(a, "rearm")
    /\ beat' = IF Connected THEN TRUE ELSE beat
    /\ Return(a)
    /\ UNCHANGED <<channels, link, faults>>

\* The timer's callback sends and arms the next timer, unless there is no connection.
BeatEnds ==
    /\ beat /\ ~Connected
    /\ beat' = FALSE
    /\ UNCHANGED <<channels, link, at, faults>>

-----------------------------------------------------------------------------
Connect(a) ==
    \/ ConnectCloud(a) \/ ConnectMqtt(a) \/ BeginMqtt(a) \/ MqttAnswers(a)
    \/ Adopt(a) \/ CloseOldWs(a) \/ MqttOnline(a) \/ MqttFailed(a)
    \/ ConnectWs(a) \/ WsAnswers(a) \/ ScheduleReconnect(a)

Heartbeat(a) == StartHeartbeat(a) \/ ScheduleFirst(a)

Callback(l) ==
    \/ l \in Sockets /\ (WsOpened(l) \/ CloseSelf(l) \/ WsClosed(l))
    \/ l \in Transports /\ MqttClosed(l)
    \/ Silence(l) \/ ScheduleReconnect(l)

Next ==
    \/ Check \/ CheckStops \/ RetryFires \/ TokenIssued
    \/ \E a \in Threads : Connect(a)
    \/ \E l \in Links : Callback(l) \/ Drop(l)
    \/ \E a \in Actors : Heartbeat(a)
    \/ BeatEnds

Spec == Init /\ [][Next]_vars

(* Threads run, timers fire, and an attempt to connect comes to an end.     *)
Fairness ==
    /\ WF_vars(Check) /\ WF_vars(CheckStops) /\ WF_vars(RetryFires)
    /\ \A a \in Threads : WF_vars(Connect(a))
    /\ \A l \in Links : WF_vars(Callback(l))
    /\ \A a \in Actors : WF_vars(Heartbeat(a))

FairSpec == Spec /\ Fairness

-----------------------------------------------------------------------------
(* Properties.                                                              *)

\* main.js:1129, docs/生产级云控优化说明.md:7: a WebSocket the phone uses beside MQTT
\* is about to be closed.
OneMainChannel == MqttUp /\ WsUp =>
    \/ \E a \in Threads : At(a, "adopt")
    \/ At(ws, "open")

\* main.js:1373: the phone is not offline for good.
StaysOnline == []<>Connected

\* README.md:14: a phone that stays connected goes on sending heartbeats.
ConnectedBeats == <>[]Connected => []<>beat
=============================================================================
