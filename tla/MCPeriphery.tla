----------------------------- MODULE MCPeriphery -----------------------------
(***************************************************************************)
(* Eleven parts that share nothing, checked in one run: a behaviour picks  *)
(* one of them, runs it and leaves the others as they start.               *)
(***************************************************************************)
EXTENDS RuntimeLease, HubTable, HeartbeatStore, CronRecovery

CONSTANTS MaxBreaks, MaxSends, Lengths                  \* MqttLink
VARIABLES net, full, refs, running, closing, pinging, stale, lock, body, doing, told, breaks, sends
linkState == <<net, full, refs, running, closing, pinging, stale, lock, body, doing, told,
    breaks, sends>>
Link == INSTANCE MqttLink

CONSTANTS QueueLimit, BatchLimit, MaxEntries            \* LogQueue
VARIABLES gLogQueue, batch, passed, logged, sent, evicted, raced
logState == <<gLogQueue, batch, passed, logged, sent, evicted, raced>>
Log == INSTANCE LogQueue

CONSTANT MaxSessions                                    \* ScreenStream
VARIABLES timer, current, loop, deadlines, starting, stopping
streamState == <<timer, current, loop, deadlines, starting, stopping>>
Stream == INSTANCE ScreenStream

CONSTANTS Limit, MaxStarts, MaxFaults                   \* AutomationLoop
VARIABLES mode, limited, most, at, count, stored, over, noHomeCount, night, made, today,
          starts, faults, forgets
loopState == <<mode, limited, most, at, count, stored, over, noHomeCount, night, made, today,
    starts, faults, forgets>>
Loop == INSTANCE AutomationLoop

CONSTANTS Tokens, NoToken, MaxEvents                    \* WebSession
VARIABLES token, isAuthenticated, user, checking, authErrorFlag, page, calls, issued, valid, events
webState == <<token, isAuthenticated, user, checking, authErrorFlag, page, calls, issued,
    valid, events>>
Web == INSTANCE WebSession

CONSTANTS Filters, NoFilter, MaxChanges, MaxErrors      \* WebTables
VARIABLES view, want, shown, requests, requestInFlight, loading, changes, errors
tablesState == <<view, want, shown, requests, requestInFlight, loading, changes, errors>>
Tables == INSTANCE WebTables

CONSTANTS PacketIds, InflightLimit, SendLimit, MaxAttempts, MaxCommands     \* MqttQoS1
VARIABLES pending, nextId, bridge, retries, send, open, device, published
qosState == <<pending, nextId, bridge, retries, send, open, device, published>>
QoS == INSTANCE MqttQoS1

VARIABLE part       \* the one that runs

ASSUME LinkBounds   == Link!LinkAssumption
ASSUME LogBounds    == Log!QueueAssumption
ASSUME StreamBounds == Stream!StreamAssumption
ASSUME LoopBounds   == Loop!LoopAssumption
ASSUME WebBounds    == Web!SessionAssumption
ASSUME TableBounds  == Tables!TablesAssumption
ASSUME HubBounds    == HubAssumption
ASSUME BeatBounds   == HeartbeatAssumption
ASSUME CronBounds   == CronAssumption
ASSUME QoSBounds    == QoS!QoSAssumption

Parts == {"lease", "link", "log", "stream", "loop", "web", "tables", "hub", "beat", "cron", "qos"}

\* The parts that do not run have one initial state.
PeripheryInit ==
    /\ part \in Parts
    /\ Init /\ Link!Init /\ Log!Init /\ Stream!Init /\ Web!Init
    /\ HubInit /\ HeartbeatInit /\ CronInit /\ QoS!Init
    /\ Loop!Init /\ (part # "loop" => mode = "all" /\ ~limited /\ most = Loop!None)
    /\ Tables!Init /\ (part # "tables" => view = "DeviceLogs" /\ want = NoFilter)

Runs(p) ==
    /\ part = p /\ UNCHANGED part
    /\ IF p = "lease" THEN TRUE ELSE UNCHANGED leaseVars
    /\ IF p = "link" THEN TRUE ELSE UNCHANGED linkState
    /\ IF p = "log" THEN TRUE ELSE UNCHANGED logState
    /\ IF p = "stream" THEN TRUE ELSE UNCHANGED streamState
    /\ IF p = "loop" THEN TRUE ELSE UNCHANGED loopState
    /\ IF p = "web" THEN TRUE ELSE UNCHANGED webState
    /\ IF p = "tables" THEN TRUE ELSE UNCHANGED tablesState
    /\ IF p = "hub" THEN TRUE ELSE UNCHANGED hubVars
    /\ IF p = "beat" THEN TRUE ELSE UNCHANGED heartbeatVars
    /\ IF p = "cron" THEN TRUE ELSE UNCHANGED cronVars
    /\ IF p = "qos" THEN TRUE ELSE UNCHANGED qosState

PeripheryNext ==
    \/ Runs("lease") /\ Next
    \/ Runs("link") /\ Link!Next
    \/ Runs("log") /\ Log!Next
    \/ Runs("stream") /\ Stream!Next
    \/ Runs("loop") /\ Loop!Next
    \/ Runs("web") /\ Web!Next
    \/ Runs("tables") /\ Tables!Next
    \/ Runs("hub") /\ HubNext
    \/ Runs("beat") /\ HeartbeatNext
    \/ Runs("cron") /\ CronStep
    \/ Runs("qos") /\ QoS!Next

allVars == <<part, leaseVars, linkState, logState, streamState, loopState,
             webState, tablesState, hubVars, heartbeatVars, cronVars, qosState>>

PeripherySpec == PeripheryInit /\ [][PeripheryNext]_allVars

-----------------------------------------------------------------------------
\* The type invariants of the parts.
TypesOK ==
    /\ TypeOK /\ Link!TypeOK /\ Log!TypeOK /\ Stream!TypeOK /\ Loop!TypeOK
    /\ Web!TypeOK /\ Tables!TypeOK /\ HubTypeOK /\ HeartbeatTypeOK /\ CronTypeOK /\ QoS!TypeOK

\* LogQueue, flushCloudLogs: an entry leaves the queue when it was sent.
LogsAreSent == Log!LogsAreSent

\* AutomationLoop, hidcs: the limit of visits holds over restarts of the script.
QuotaKept == Loop!QuotaKept

\* MqttLink, the watchdog of a silent connection: its loss is noticed and told.
LostIsTold == part = "link" /\ Link!Fairness => Link!LostIsTold

\* MqttLink, close(): it returns, although another thread holds the lock.
CloseReturns == part = "link" /\ Link!Fairness => Link!CloseReturns

\* ScreenStream, the limit of five minutes: every stream ends.
StreamEnds == part = "stream" /\ Stream!Fairness => Stream!StreamEnds

\* AutomationLoop, hidcs: a script that has a limit ends.
LoopEnds == part = "loop" /\ Loop!Fairness => Loop!LoopEnds

\* WebSession, checkToken: a session the server ended ends in the console.
RevokedSessionEnds == part = "web" /\ Web!Fairness => Web!RevokedSessionEnds

\* WebTables, the timers of the tables: the rows come to belong to the filter.
TableCatchesUp == part = "tables" /\ Tables!Fairness => Tables!TableCatchesUp

\* HeartbeatStore, monitorOffline: a device that is gone is shown offline in the end.
GoneIsOfflineIfFair == part = "beat" /\ HeartbeatFairness => GoneIsOffline

\* MqttQoS1, retryQoS1Loop: a command is acknowledged, or its connection closed.
SentIsSettled == part = "qos" /\ QoS!Fairness => QoS!SentIsSettled
=============================================================================
