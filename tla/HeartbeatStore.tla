---------------------------- MODULE HeartbeatStore ----------------------------
(***************************************************************************)
(* What the server knows of a device's state: heartbeats merged into       *)
(* heartbeatCache and written to the devices table by flushHeartbeats      *)
(* every 30 s (server/handlers/websocket.go), and monitorOffline of        *)
(* scheduler.go, which marks silent devices every 60 s. One device, on     *)
(* which two instances of the script may report.                           *)
(***************************************************************************)
EXTENDS Integers, Sequences, FiniteSets

CONSTANTS
    Reporters,      \* instance_id values
    NoReporter,
    MaxBeats,       \* bound: heartbeats, pongs and connections
    MaxHeld         \* bound: messages of one reporter on their way

HeartbeatAssumption == NoReporter \notin Reporters /\ {MaxBeats, MaxHeld} \subseteq Nat

VARIABLES
    script, seq,    \* of each reporter: currentScriptStatus, gScriptStateSeq
    messages,       \* of each reporter: its heartbeats on their way, in order
    connected,      \* the device has a connection
    removed,           \* the hub has processed the end of the last one, or never will
    entry,          \* the device's entry of heartbeatCache
    recent,         \* LastBusyAt is at most 25 s ago
    dirty,          \* its mark in heartbeatDirty, which has the version of the entry
    flush,          \* how far flushHeartbeats is, its copy of the status, and whether the
                    \* entry was updated since its version, and since it, was read
    devices,        \* the row: status, and whether last_heartbeat is 5 min old
    beats,          \* history: heartbeats, pongs and connections
    written,        \* history: the row has the newest entry
    live,           \* history: the reporter last heard to be running
    overlapped           \* history: an update came between the comparison and the deletion
                    \* of its version

heartbeatVars == <<script, seq, messages, connected, removed, entry, recent, dirty,
    flush, devices, beats, written, live, overlapped>>

phoneState == <<script, seq, connected, removed, beats>>
flushState == <<flush, devices, written>>

Beats == [from: Reporters, script: {"idle", "running"}, seq: 0..MaxBeats, transition: BOOLEAN]
NoFlush == [stage |-> "none", status |-> 0, newer |-> FALSE, behind |-> FALSE]

HeartbeatTypeOK ==
    /\ script \in [Reporters -> {"idle", "running"}] /\ seq \in [Reporters -> 0..MaxBeats]
    /\ \A r \in Reporters : messages[r] \in Seq(Beats) /\ Len(messages[r]) <= MaxHeld
    /\ connected \in BOOLEAN /\ removed \in BOOLEAN
    /\ entry \in [status: {0, 1, 3}, script: {"", "idle", "running"},
                  owner: Reporters \cup {NoReporter}, seq: 0..MaxBeats]
    /\ recent \in BOOLEAN /\ dirty \in BOOLEAN
    /\ flush \in [stage: {"none", "marked", "copied", "written", "matched"},
                  status: {0, 1, 3}, newer: BOOLEAN, behind: BOOLEAN]
    /\ devices \in [status: {0, 1, 3}, old: BOOLEAN]
    /\ beats \in 0..MaxBeats /\ written \in BOOLEAN
    /\ live \in Reporters \cup {NoReporter} /\ overlapped \in BOOLEAN

HeartbeatInit ==
    /\ script = [r \in Reporters |-> "idle"] /\ seq = [r \in Reporters |-> 0]
    /\ messages = [r \in Reporters |-> <<>>]
    /\ connected = TRUE /\ removed = FALSE
    /\ entry = [status |-> 1, script |-> "", owner |-> NoReporter, seq |-> 0]
    /\ recent = FALSE /\ dirty = FALSE
    /\ flush = NoFlush /\ devices = [status |-> 1, old |-> FALSE]
    /\ beats = 0 /\ written = TRUE /\ live = NoReporter /\ overlapped = FALSE

-----------------------------------------------------------------------------
(* The phone. *)

Send(r, s, q, transition) ==
    /\ connected /\ Len(messages[r]) < MaxHeld
    /\ messages' = [messages EXCEPT ![r] = Append(@,
            [from |-> r, script |-> s, seq |-> q, transition |-> transition])]

\* sendScriptState(true)
ChangeScript(r) ==
    /\ beats < MaxBeats /\ beats' = beats + 1
    /\ script[r] = "idle" => \A o \in Reporters : script[o] = "idle"
    /\ script' = [script EXCEPT ![r] = IF @ = "idle" THEN "running" ELSE "idle"]
    /\ seq' = [seq EXCEPT ![r] = @ + 1]
    /\ Send(r, script'[r], seq'[r], TRUE)
    /\ UNCHANGED <<connected, removed, entry, recent, dirty, live, overlapped, flushState>>

\* sendHeartbeatNow
Heartbeat(r) ==
    /\ beats < MaxBeats /\ beats' = beats + 1
    /\ Send(r, script[r], seq[r], FALSE)
    /\ UNCHANGED <<script, seq, connected, removed, entry, recent, dirty, live, overlapped, flushState>>

-----------------------------------------------------------------------------
(* The server. *)

\* storeHeartbeat: the entry, then its mark, under a mutex the flush does not take.
Store(e) ==
    /\ entry' = e /\ dirty' = TRUE /\ written' = FALSE
    /\ flush' = IF flush.stage = "none" THEN flush
                ELSE [flush EXCEPT !.newer = TRUE, !.behind = flush.stage # "marked"]
    /\ overlapped' = (overlapped \/ flush.stage = "matched")

Busy == entry.script = "running" \/ entry.status = 3

\* Mutant: a stop of any instance counts as one of the owner's.
OwnerStopsAny(m) == m.transition /\ (m.seq = 0 \/ m.seq >= entry.seq)

OwnerStops(m) == m.transition /\ m.from = entry.owner /\ (m.seq = 0 \/ m.seq >= entry.seq)

\* mergeHeartbeat of a report of the script. An idle one does not end a busy state
\* that was confirmed less than 25 s ago, unless its owner ended it.
MergeReport(m) ==
    IF m.script = "running"
    THEN [status |-> 3, script |-> "running", owner |-> m.from, seq |-> m.seq]
    ELSE IF Busy /\ recent /\ ~OwnerStops(m) THEN entry
    ELSE [status |-> 1, script |-> "idle", owner |-> m.from, seq |-> m.seq]

\* mergeHeartbeat of touchHeartbeat(1): a connection or a pong.
MergeTouch ==
    [entry EXCEPT !.status =
        IF Busy /\ recent THEN (IF entry.script = "running" THEN 3
                                ELSE IF entry.script = "idle" THEN 1 ELSE @)
        ELSE IF @ = 0 THEN 1 ELSE @]

\* The heartbeat branch of handleMessage, in the read loop of the connection.
Receive(r) ==
    /\ messages[r] # <<>> /\ messages' = [messages EXCEPT ![r] = Tail(@)]
    /\ LET m == Head(messages[r]) IN
        /\ Store(MergeReport(m))
        /\ recent' = (recent \/ m.script = "running")
        /\ live' = IF m.script = "running" THEN r ELSE IF live = r THEN NoReporter ELSE live
    /\ UNCHANGED <<phoneState, devices>>

Pong ==
    /\ connected /\ beats < MaxBeats /\ beats' = beats + 1
    /\ Store(MergeTouch)
    /\ UNCHANGED <<script, seq, connected, removed, messages, recent, live, devices>>

\* The hub registers a new connection of the device.
Connect ==
    /\ ~connected /\ connected' = TRUE /\ removed' = FALSE
    /\ beats < MaxBeats /\ beats' = beats + 1
    /\ Store(MergeTouch)
    /\ UNCHANGED <<script, seq, messages, recent, live, devices>>

\* 25 s without a report that the script is running.
HoldPasses ==
    /\ recent /\ recent' = FALSE /\ live' = NoReporter
    /\ UNCHANGED <<phoneState, messages, entry, dirty, overlapped, flushState>>

\* The device is gone. What its connections had received is still handled.
Disconnect ==
    /\ connected /\ connected' = FALSE
    /\ UNCHANGED <<script, seq, removed, beats, messages, entry, recent, dirty,
                   live, overlapped, flushState>>

\* touchHeartbeat(0) when the hub removes the connection, which it may fail to do.
Removed ==
    /\ ~connected /\ ~removed /\ removed' = TRUE
    /\ \/ Store([entry EXCEPT !.status = 0])
       \/ UNCHANGED <<entry, dirty, flush, written, overlapped>>
    /\ UNCHANGED <<script, seq, connected, beats, messages, recent, live, devices>>

-----------------------------------------------------------------------------
(* flushHeartbeats, and monitorOffline. *)

\* heartbeatDirty.Range ...
FlushMark ==
    /\ flush.stage = "none" /\ dirty
    /\ flush' = [flush EXCEPT !.stage = "marked"]
    /\ UNCHANGED <<phoneState, messages, entry, recent, dirty, live, overlapped, devices, written>>

\* ... heartbeatCache.Load ...
FlushCopy ==
    /\ flush.stage = "marked"
    /\ flush' = [flush EXCEPT !.stage = "copied", !.status = entry.status]
    /\ UNCHANGED <<phoneState, messages, entry, recent, dirty, live, overlapped, devices, written>>

\* ... the upsert, which may fail ...
FlushWrite ==
    /\ flush.stage = "copied"
    /\ \/ /\ flush' = [flush EXCEPT !.stage = "written"] /\ written' = ~flush.behind
          /\ devices' = [status |-> flush.status, old |-> FALSE]
       \/ flush' = NoFlush /\ UNCHANGED <<devices, written>>
    /\ UNCHANGED <<phoneState, messages, entry, recent, dirty, live, overlapped>>

\* Mutant: the mark is deleted whatever version it has.
SameVersionAlways == TRUE

SameVersion == ~flush.newer

\* ... the comparison of the mark ...
FlushCompare ==
    /\ flush.stage = "written"
    /\ flush' = IF SameVersion THEN [flush EXCEPT !.stage = "matched"] ELSE NoFlush
    /\ UNCHANGED <<phoneState, messages, entry, recent, dirty, live, overlapped, devices, written>>

\* ... and its deletion.
FlushDelete ==
    /\ flush.stage = "matched" /\ flush' = NoFlush /\ dirty' = FALSE
    /\ UNCHANGED <<phoneState, messages, entry, recent, live, overlapped, devices, written>>

\* Five minutes without a heartbeat in the row.
Age ==
    /\ ~devices.old /\ devices' = [devices EXCEPT !.old = TRUE]
    /\ UNCHANGED <<phoneState, messages, entry, recent, dirty, live, overlapped, flush, written>>

\* Mutant: only idle devices are looked at.
OverdueIfIdle == devices.status = 1 /\ devices.old

Overdue == devices.status > 0 /\ devices.old

MonitorOffline ==
    /\ Overdue /\ devices' = [devices EXCEPT !.status = 0]
    /\ UNCHANGED <<phoneState, messages, entry, recent, dirty, live, overlapped, flush, written>>

-----------------------------------------------------------------------------
FlushSteps == FlushMark \/ FlushCopy \/ FlushWrite \/ FlushCompare \/ FlushDelete

HeartbeatNext ==
    \/ \E r \in Reporters : ChangeScript(r) \/ Heartbeat(r) \/ Receive(r)
    \/ Pong \/ Connect \/ HoldPasses \/ Disconnect \/ Removed
    \/ FlushMark \/ FlushCopy \/ FlushWrite \/ FlushCompare \/ FlushDelete
    \/ Age \/ MonitorOffline

HeartbeatSpec == HeartbeatInit /\ [][HeartbeatNext]_heartbeatVars

\* The server's goroutines run and time passes; the phone need not do anything, and
\* the database may refuse every write of the flush.
HeartbeatFairness ==
    /\ \A r \in Reporters : WF_heartbeatVars(Receive(r))
    /\ WF_heartbeatVars(FlushSteps) /\ WF_heartbeatVars(Age)
    /\ WF_heartbeatVars(MonitorOffline)

-----------------------------------------------------------------------------
\* websocket.go:940 (an idle instance must not cover the one that runs): while a
\* reporter has said less than 25 s ago that it is running, and not since that it
\* stopped, the device is shown with a running script.
BusyIsKept == live # NoReporter => entry.script = "running"

\* websocket.go:1167 (the version of a mark is compared before it is deleted): what is
\* not written is marked, unless an update came between comparison and deletion.
UnwrittenIsMarked == ~overlapped => (~written => dirty)

\* The same without the exception: refuted by TLC.
UnwrittenIsMarkedAlways == ~written => dirty

\* scheduler.go:89 (silent devices are marked as offline): a device that is gone is
\* offline in its row in the end, also if the hub never told so and a flush under way
\* writes an old state.
GoneIsOffline == <>[](~connected) => <>[](devices.status = 0)
=============================================================================
