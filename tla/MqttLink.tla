------------------------------- MODULE MqttLink -------------------------------
(***************************************************************************)
(* One connection of the phone's MQTT client:                              *)
(* client/easyclick/src/slib/mqtt_transport.js. The thread that connects   *)
(* starts a timer, which pings the broker and looks for its answers, and a *)
(* reader; any thread may send, and any thread may call close(). Writes    *)
(* are serialised by a lock, everything else is not.                       *)
(***************************************************************************)
EXTENDS Integers, Sequences

CONSTANTS
    MaxBreaks,      \* bound: times the network fails
    MaxSends,       \* bound: calls of sendObject
    Lengths         \* lengths of packet bodies that are tried

Actors == {"caller", "reader", "ticker", "sender", "closer"}
NoActor == "nobody"
Refused == -1

LinkAssumption == MaxBreaks \in Nat /\ MaxSends \in Nat /\ Lengths \subseteq Nat

VARIABLES
    net,            \* the network under the socket
    full,           \* the socket's send buffer is full: a write blocks
    refs,           \* socket, input and output are not null
    running, closing,
    pinging,        \* heartbeatTimer is armed
    stale,          \* lastInboundAt is older than staleAfter
    lock,           \* the holder of writeLock
    body,           \* the length of the packet in hand, as written and as read
    doing,          \* what each thread executes
    told,           \* onCloseCallback has been called
    breaks, sends   \* history: failures of the network and sends so far

linkVars == <<net, full, refs, running, closing, pinging, stale, lock, body, doing, told, breaks, sends>>
socket   == <<net, full>>
flags    == <<running, closing>>
counters == <<breaks, sends>>


\* "silent": nothing arrives any more, and no error is reported; "shut": socket.close()
\* was called on this side.
Nets == {"none", "open", "silent", "broken", "shut"}

Steps == {"idle", "connect", "connack", "subscribe", "run", "arm", "start reader", "give up",
          "loop", "read", "handle", "caught", "tell", "tick", "disconnect", "shut down", "done",
          "lock", "write"}

TypeOK ==
    /\ net \in Nets /\ full \in BOOLEAN /\ refs \in BOOLEAN
    /\ running \in BOOLEAN /\ closing \in BOOLEAN /\ pinging \in BOOLEAN /\ stale \in BOOLEAN
    /\ lock \in Actors \cup {NoActor}
    /\ doing \in [Actors -> [step : Steps, next : Steps]]
    /\ \A a \in Actors : doing[a].step = "write" => lock = a
    /\ body.sent \in Lengths \cup {0} /\ body.read \in Nat \cup {Refused}
    /\ told \in BOOLEAN
    /\ breaks \in 0..MaxBreaks /\ sends \in 0..MaxSends

Doing(s) == [step |-> s, next |-> "idle"]

Init ==
    /\ net = "none" /\ full = FALSE /\ refs = FALSE
    /\ running = FALSE /\ closing = FALSE /\ pinging = FALSE /\ stale = FALSE
    /\ lock = NoActor
    /\ doing = [a \in Actors |-> Doing(IF a = "caller" THEN "connect" ELSE "idle")]
    /\ body = [sent |-> 0, read |-> 0] /\ told = FALSE /\ breaks = 0 /\ sends = 0

At(a, s) == doing[a].step = s
Goto(a, s) == doing' = [doing EXCEPT ![a] = Doing(s)]
WriteThen(a, s) == doing' = [doing EXCEPT ![a] = [step |-> "lock", next |-> s]]

IsConnected == running /\ refs /\ net # "shut"

\* socket.close()
Shut == net' = (IF net = "none" THEN net ELSE "shut") /\ UNCHANGED full

-----------------------------------------------------------------------------
(* _remainingLength and _readRemainingLength, with the limit of _readPacket *)

Power128(i) == CASE i = 0 -> 1 [] i = 1 -> 128 [] i = 2 -> 16384 [] i = 3 -> 2097152

Digits(n) == CHOOSE k \in 1..4 : (k = 4 \/ n < Power128(k)) /\ (k = 1 \/ n >= Power128(k - 1))

Digit(n, i) == (n \div Power128(i - 1)) % 128

\* Digits of seven bits, the lowest first; all but the last have the eighth bit set.
Encode(n) ==
    [i \in 1..Digits(n) |-> Digit(n, i) + (IF i < Digits(n) THEN 128 ELSE 0)]

MaxPacket == 2 * 1024 * 1024

Decode(bytes) ==
    LET ends == {i \in 1..Len(bytes) : i <= 4 /\ bytes[i] < 128}
        k == CHOOSE i \in ends : \A j \in ends : i <= j
        digit(i) == IF i <= k THEN (bytes[i] % 128) * Power128(i - 1) ELSE 0
        value == digit(1) + digit(2) + digit(3) + digit(4) IN
    IF ends = {} \/ value > MaxPacket THEN Refused ELSE value

-----------------------------------------------------------------------------
(* _write                                                                   *)

\* Mutant: the lock is taken without waiting for its holder.
LockAtOnce(a) ==
    /\ At(a, "lock")
    /\ lock' = a
    /\ doing' = [doing EXCEPT ![a].step = "write"]
    /\ UNCHANGED <<socket, refs, flags, pinging, stale, body, told, counters>>

Lock(a) ==
    /\ At(a, "lock") /\ lock = NoActor
    /\ lock' = a
    /\ doing' = [doing EXCEPT ![a].step = "write"]
    /\ UNCHANGED <<socket, refs, flags, pinging, stale, body, told, counters>>

Failing == net \in {"broken", "shut"} \/ ~refs

\* Mutant: the lock is given back only after a write without an exception.
WriteKeepsLock(a) ==
    /\ At(a, "write")
    /\ Failing \/ ~full
    /\ full' \in IF net = "silent" /\ ~Failing THEN BOOLEAN ELSE {full}
    /\ lock' = IF Failing THEN lock ELSE NoActor
    /\ Goto(a, IF Failing /\ a = "caller" THEN "give up" ELSE doing[a].next)
    /\ UNCHANGED <<net, refs, flags, pinging, stale, body, told, counters>>

\* A write blocks while the buffer is full and ends when the socket is closed or
\* fails. Nobody but connect looks at its result.
Write(a) ==
    /\ At(a, "write")
    /\ Failing \/ ~full
    /\ full' \in IF net = "silent" /\ ~Failing THEN BOOLEAN ELSE {full}
    /\ lock' = NoActor
    /\ Goto(a, IF Failing /\ a = "caller" THEN "give up" ELSE doing[a].next)
    /\ UNCHANGED <<net, refs, flags, pinging, stale, body, told, counters>>

-----------------------------------------------------------------------------
(* connect                                                                  *)

Connect ==
    /\ At("caller", "connect")
    /\ closing' = FALSE /\ refs' = TRUE
    /\ \/ net' = "open" /\ WriteThen("caller", "connack") /\ UNCHANGED breaks
       \/ net' = "broken" /\ Goto("caller", "give up")
          /\ breaks < MaxBreaks /\ breaks' = breaks + 1
    /\ UNCHANGED <<full, running, pinging, stale, lock, body, told, sends>>

\* The CONNACK is read, for as long as it takes.
ReadConnack ==
    /\ At("caller", "connack")
    /\ \/ net = "open" /\ refs /\ WriteThen("caller", "run")
       \/ Failing /\ Goto("caller", "give up")
    /\ UNCHANGED <<socket, refs, flags, pinging, stale, lock, body, told, counters>>

Run ==
    /\ At("caller", "run")
    /\ running' = TRUE /\ stale' = FALSE
    /\ Goto("caller", "arm")
    /\ UNCHANGED <<socket, refs, closing, pinging, lock, body, told, counters>>

StartHeartbeat ==
    /\ At("caller", "arm")
    /\ pinging' = TRUE
    /\ Goto("caller", "start reader")
    /\ UNCHANGED <<socket, refs, flags, stale, lock, body, told, counters>>

StartReader ==
    /\ At("caller", "start reader")
    /\ doing' = [doing EXCEPT !["caller"] = Doing("done"), !["reader"] = Doing("loop")]
    /\ UNCHANGED <<socket, refs, flags, pinging, stale, lock, body, told, counters>>

GiveUp ==
    /\ At("caller", "give up")
    /\ running' = FALSE /\ closing' = TRUE /\ pinging' = FALSE
    /\ Shut
    /\ Goto("caller", "done")
    /\ UNCHANGED <<refs, stale, lock, body, told, counters>>

-----------------------------------------------------------------------------
(* _readerLoop and _handlePacket                                            *)

ReaderLoop ==
    /\ At("reader", "loop")
    /\ Goto("reader", IF running THEN "read" ELSE "caught")
    /\ UNCHANGED <<socket, refs, flags, pinging, stale, lock, body, told, counters>>

\* A packet arrives; a command with QoS 1 is acknowledged before it is handled.
ReadPacket ==
    /\ At("reader", "read")
    /\ \/ net = "open" /\ refs
          /\ \E n \in Lengths :
                LET read == Decode(Encode(n)) IN
                /\ body' = [sent |-> n, read |-> read]
                /\ IF read = Refused THEN Goto("reader", "caught") /\ UNCHANGED stale
                   ELSE /\ stale' = FALSE
                        /\ Goto("reader", "handle") \/ WriteThen("reader", "handle")
       \/ Failing /\ Goto("reader", "caught") /\ UNCHANGED <<stale, body>>
    /\ UNCHANGED <<socket, refs, flags, pinging, lock, told, counters>>

HandlePacket ==
    /\ At("reader", "handle")
    /\ body' = [sent |-> 0, read |-> 0]
    /\ Goto("reader", "loop")
    /\ UNCHANGED <<socket, refs, flags, pinging, stale, lock, told, counters>>

ReaderEnds ==
    /\ At("reader", "caught")
    /\ IF running
       THEN /\ running' = FALSE /\ closing' = TRUE /\ pinging' = FALSE
            /\ Shut
            /\ Goto("reader", "tell")
       ELSE Goto("reader", "done") /\ UNCHANGED <<socket, flags, pinging>>
    /\ UNCHANGED <<refs, stale, lock, body, told, counters>>

TellClosed ==
    /\ At("reader", "tell")
    /\ told' = TRUE
    /\ Goto("reader", "done")
    /\ UNCHANGED <<socket, refs, flags, pinging, stale, lock, body, counters>>

-----------------------------------------------------------------------------
(* The heartbeat timer, sendObject and close.                               *)

\* Mutant: running is cleared before the silent socket is closed.
TickStopsFirst ==
    /\ pinging /\ At("ticker", "idle") /\ IsConnected
    /\ IF stale THEN Shut /\ running' = FALSE /\ UNCHANGED doing
       ELSE WriteThen("ticker", "idle") /\ UNCHANGED <<socket, running>>
    /\ UNCHANGED <<refs, closing, pinging, stale, lock, body, told, counters>>

\* The watchdog closes a socket on which nothing came for too long.
Tick ==
    /\ pinging /\ At("ticker", "idle") /\ IsConnected
    /\ IF stale THEN Shut /\ UNCHANGED doing
       ELSE WriteThen("ticker", "idle") /\ UNCHANGED socket
    /\ UNCHANGED <<refs, flags, pinging, stale, lock, body, told, counters>>

Send ==
    /\ At("sender", "idle") /\ IsConnected
    /\ sends < MaxSends /\ sends' = sends + 1
    /\ WriteThen("sender", "idle")
    /\ UNCHANGED <<socket, refs, flags, pinging, stale, lock, body, told, breaks>>

\* DISCONNECT is written only if the connection was up.
Close ==
    /\ At("closer", "idle")
    /\ closing' = TRUE /\ running' = FALSE /\ pinging' = FALSE
    /\ IF running /\ refs THEN WriteThen("closer", "shut down") ELSE Goto("closer", "shut down")
    /\ UNCHANGED <<socket, refs, stale, lock, body, told, counters>>

ShutDown ==
    /\ At("closer", "shut down")
    /\ IF refs THEN Shut ELSE UNCHANGED socket
    /\ refs' = FALSE
    /\ Goto("closer", "done")
    /\ UNCHANGED <<flags, pinging, stale, lock, body, told, counters>>

-----------------------------------------------------------------------------
(* The network.                                                             *)

Break ==
    /\ net \in {"open", "silent"} /\ breaks < MaxBreaks
    /\ breaks' = breaks + 1
    /\ net' \in {"silent", "broken"} \ {net}
    /\ UNCHANGED <<full, refs, flags, pinging, stale, lock, body, doing, told, sends>>

\* TCP gives up repeating what the peer does not acknowledge.
TcpGivesUp ==
    /\ net = "silent" /\ full
    /\ net' = "broken"
    /\ UNCHANGED <<full, refs, flags, pinging, stale, lock, body, doing, told, counters>>

\* Nothing was read for staleAfter: nothing came, or the reader was busy with a command.
GrowsStale ==
    /\ ~stale /\ running
    /\ net # "open" \/ ~At("reader", "read")
    /\ stale' = TRUE
    /\ UNCHANGED <<socket, refs, flags, pinging, lock, body, doing, told, counters>>

CallerStep == Connect \/ ReadConnack \/ Run \/ StartHeartbeat \/ StartReader \/ GiveUp
ReaderStep == ReaderLoop \/ HandlePacket \/ ReaderEnds \/ TellClosed
WriteStep(a) == Lock(a) \/ Write(a)

Next ==
    \/ CallerStep \/ ReaderStep \/ ReadPacket
    \/ \E a \in Actors : WriteStep(a)
    \/ Tick \/ Send \/ Close \/ ShutDown
    \/ Break \/ TcpGivesUp \/ GrowsStale

Spec == Init /\ [][Next]_linkVars

(* Threads run, the lock goes round, time passes, and TCP gives up. Nobody  *)
(* need send or call close.                                                 *)
Fairness ==
    /\ WF_linkVars(CallerStep) /\ WF_linkVars(ReaderStep) /\ WF_linkVars(ReadPacket)
    /\ \A a \in Actors : SF_linkVars(Lock(a)) /\ WF_linkVars(Write(a))
    /\ WF_linkVars(Tick) /\ WF_linkVars(ShutDown)
    /\ WF_linkVars(TcpGivesUp) /\ WF_linkVars(GrowsStale)

FairSpec == Spec /\ Fairness

-----------------------------------------------------------------------------
(* Properties.                                                              *)

\* README.md:26: the client notices a connection that is lost, also one on which
\* nothing arrives and no error is reported, and says so unless it was closed itself.
LostIsTold ==
    (At("caller", "done") /\ running /\ net \in {"silent", "broken", "shut"})
        ~> (told \/ ~At("closer", "idle"))

\* close() returns, although it writes a DISCONNECT and the timer that would close a
\* silent connection is disarmed by then.
CloseReturns == ~At("closer", "idle") ~> At("closer", "done")
=============================================================================
