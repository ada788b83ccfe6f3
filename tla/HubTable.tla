------------------------------- MODULE HubTable -------------------------------
(***************************************************************************)
(* Which connection the server sends a device's commands to: the table of  *)
(* the hub (server/handlers/websocket.go), kept by one loop from two       *)
(* queues, and the embedded broker's own table (server/handlers/mqtt.go).  *)
(* One device; its connections are numbered in the order it opens them.    *)
(***************************************************************************)
EXTENDS Integers, Sequences, FiniteSets

CONSTANTS
    MaxConnections,     \* bound: connections the device opens
    MaxTimeouts         \* bound: queues that stay full for 2 s

HubAssumption == MaxConnections \in Nat \ {0} /\ MaxTimeouts \in Nat

VARIABLES
    kind,           \* of each connection: WebSocket or MQTT
    phase,          \* how far the goroutine of the connection is
    up,             \* its socket is open
    clients,        \* WSHub.clients of the device, or None
    brokered,       \* MQTTBroker.clients of the device, or None
    register,       \* the two channels of the hub
    unregister,
    timeouts,       \* history: queues that stayed full
    overtaken       \* history: a connection was registered after a newer one

hubVars == <<kind, phase, up, clients, brokered, register, unregister, timeouts, overtaken>>

None == 0
Connections == 1..MaxConnections
Opened == {c \in Connections : phase[c] # "new"}
Newest(c) == \A d \in Opened : d <= c

Phases == {"new", "accepted", "brokered", "open", "ending", "done"}

HubTypeOK ==
    /\ kind \in [Connections -> {"ws", "mqtt"}] /\ phase \in [Connections -> Phases]
    /\ up \in [Connections -> BOOLEAN]
    /\ clients \in Connections \cup {None} /\ brokered \in Connections \cup {None}
    /\ register \in Seq(Connections) /\ unregister \in Seq(Connections)
    /\ timeouts \in 0..MaxTimeouts /\ overtaken \in BOOLEAN

HubInit ==
    /\ kind = [c \in Connections |-> "ws"] /\ phase = [c \in Connections |-> "new"]
    /\ up = [c \in Connections |-> FALSE]
    /\ clients = None /\ brokered = None /\ register = <<>> /\ unregister = <<>>
    /\ timeouts = 0 /\ overtaken = FALSE

Closed(c) == IF c = None THEN up ELSE [up EXCEPT ![c] = FALSE]
GoOn(c, s) == phase' = [phase EXCEPT ![c] = s]
Timeout == timeouts < MaxTimeouts /\ timeouts' = timeouts + 1

\* IsMQTTDevice: the WebSocket is the second choice.
MqttActive == clients # None /\ kind[clients] = "mqtt"

\* DeviceWSHandler up to Upgrade, serveClient up to AuthenticateDevice.
Accept(c, k) ==
    /\ phase[c] = "new" /\ \A d \in 1..(c - 1) : phase[d] # "new"
    /\ k = "ws" => ~MqttActive
    /\ kind' = [kind EXCEPT ![c] = k] /\ up' = [up EXCEPT ![c] = TRUE]
    /\ GoOn(c, "accepted")
    /\ UNCHANGED <<clients, brokered, register, unregister, timeouts, overtaken>>

\* MQTTBroker.register closes the connection it replaces.
BrokerRegister(c) ==
    /\ kind[c] = "mqtt" /\ phase[c] = "accepted" /\ GoOn(c, "brokered")
    /\ brokered' = c /\ up' = Closed(brokered)
    /\ UNCHANGED <<kind, clients, register, unregister, timeouts, overtaken>>

\* After a timeout the connection is closed; the broker's entry is left.
EnqueueRegister(c) ==
    /\ phase[c] = IF kind[c] = "ws" THEN "accepted" ELSE "brokered"
    /\ \/ register' = Append(register, c) /\ GoOn(c, "open")
          /\ UNCHANGED <<up, timeouts>>
       \/ Timeout /\ up' = Closed(c) /\ GoOn(c, "done") /\ UNCHANGED register
    /\ UNCHANGED <<kind, clients, brokered, unregister, overtaken>>

\* The hub's loop. The client it replaces is closed if it is a WebSocket.
Register ==
    /\ register # <<>> /\ register' = Tail(register)
    /\ LET c == Head(register) IN
        /\ clients' = c
        /\ up' = IF clients # None /\ kind[clients] = "ws" THEN Closed(clients) ELSE up
        /\ overtaken' = (overtaken \/ \E d \in Opened : d > c /\ phase[d] = "open"
                            /\ \A i \in DOMAIN register : register[i] # d)
    /\ UNCHANGED <<kind, phase, brokered, unregister, timeouts>>

\* Mutant: the entry is deleted without a look at whose it is.
LeavesNone(c) == None

\* Only the current client of the device is removed.
Leaves(c) == IF clients = c THEN None ELSE clients

\* select takes the two channels in any order.
Unregister ==
    /\ unregister # <<>> /\ unregister' = Tail(unregister)
    /\ clients' = Leaves(Head(unregister))
    /\ UNCHANGED <<kind, phase, up, brokered, register, timeouts, overtaken>>

\* The phone, the network, DisconnectUserDevices, a full send queue of the broker.
Drop(c) ==
    /\ up[c] /\ up' = Closed(c)
    /\ UNCHANGED <<kind, phase, clients, brokered, register, unregister, timeouts, overtaken>>

\* The read loop of readPump or serveClient fails.
ReadEnds(c) ==
    /\ phase[c] = "open" /\ ~up[c] /\ GoOn(c, "ending")
    /\ brokered' = IF brokered = c THEN None ELSE brokered
    /\ UNCHANGED <<kind, up, clients, register, unregister, timeouts, overtaken>>

EnqueueUnregister(c) ==
    /\ phase[c] = "ending" /\ GoOn(c, "done")
    /\ \/ unregister' = Append(unregister, c) /\ UNCHANGED timeouts
       \/ Timeout /\ UNCHANGED unregister
    /\ UNCHANGED <<kind, up, clients, brokered, register, overtaken>>

HubNext ==
    \/ \E c \in Connections :
        \/ \E k \in {"ws", "mqtt"} : Accept(c, k)
        \/ BrokerRegister(c) \/ EnqueueRegister(c)
        \/ Drop(c) \/ ReadEnds(c) \/ EnqueueUnregister(c)
    \/ Register \/ Unregister

HubSpec == HubInit /\ [][HubNext]_hubVars

-----------------------------------------------------------------------------
Registered(c) == phase[c] = "open" /\ \A i \in DOMAIN register : register[i] # c

\* websocket.go:416 and :423 (an old connection must not mark a newer one offline):
\* the newest connection of a device, once registered, is the one commands are sent
\* to for as long as it is open, unless an older one was registered after it.
NewestIsReachable == ~overtaken =>
    \A c \in Opened : Newest(c) /\ Registered(c) /\ up[c] => clients = c

\* Refuted by TLC: mqtt.go:179 registers with broker and hub in two steps.
NewestIsReachableAlways ==
    \A c \in Opened : Newest(c) /\ Registered(c) /\ up[c] => clients = c

\* websocket.go:700: an entry of the table belongs to a connection whose end is still
\* to come. Refuted by TLC: select can take the end of a connection before its start.
NoGhost == clients # None => phase[clients] # "done"
                                \/ \E i \in DOMAIN unregister : unregister[i] = clients
=============================================================================
