----------------------------- MODULE ScreenStream -----------------------------
(***************************************************************************)
(* The phone's screen stream: startScreenStream and stopScreenStream of    *)
(* client/easyclick/src/js/main.js. A stream is a session with a loop of   *)
(* timers: each captures a frame, sends it and arms the next one. Commands *)
(* are handled in one thread, every timer runs in a thread of its own, and *)
(* a capture takes long: it may still run when its session is over.        *)
(***************************************************************************)
EXTENDS Integers

CONSTANT MaxSessions        \* bound: streams started in a behaviour

StreamAssumption == MaxSessions \in Nat

Sessions  == 1..MaxSessions
NoTimer   == 0
NoSession == 0              \* a number that no loop has: it only matters which ones differ
Stoppers == {"command", "limit"}

VARIABLES
    timer,          \* the session whose loop set gStreamTimer last, or NoTimer
    current,        \* gStreamSessionId
    loop,           \* what the loop of each session does
    deadlines,      \* sessions whose five minutes run
    starting,       \* how far the thread of commands is with a start
    stopping        \* how far the two callers of stopScreenStream are

streamVars == <<timer, current, loop, deadlines, starting, stopping>>

LoopStates == {"none", "begun", "armed", "capturing", "arming", "over"}

TypeOK ==
    /\ timer \in Sessions \cup {NoTimer} /\ current \in Sessions \cup {NoSession}
    /\ loop \in [Sessions -> LoopStates] /\ deadlines \subseteq Sessions
    /\ starting \in {"no", "permission", "arm"}
    /\ stopping \in [Stoppers -> {"no", "timer", "session"}]
    /\ starting = "arm" => \E s \in Sessions : loop[s] = "begun"
    /\ timer # NoTimer => loop[timer] \notin {"none", "begun"}

Init ==
    /\ timer = NoTimer /\ current = NoSession
    /\ loop = [s \in Sessions |-> "none"] /\ deadlines = {}
    /\ starting = "no" /\ stopping = [t \in Stoppers |-> "no"]

CommandsIdle == starting = "no" /\ stopping["command"] = "no"

\* screen_stream_start: nothing happens while there is a timer; else the permission
\* to capture is asked for, which takes up to ten seconds.
Start ==
    /\ CommandsIdle /\ timer = NoTimer
    /\ starting' = "permission"
    /\ UNCHANGED <<timer, current, loop, deadlines, stopping>>

BeginSession == \E s \in Sessions :
    /\ starting = "permission"
    /\ loop[s] = "none" /\ \A r \in 1..(s - 1) : loop[r] # "none"
    /\ current' = s /\ loop' = [loop EXCEPT ![s] = "begun"]
    /\ starting' = "arm"
    /\ UNCHANGED <<timer, deadlines, stopping>>

\* The loop's first timer, and the one that stops it after five minutes.
ArmFirst == \E s \in Sessions :
    /\ starting = "arm" /\ loop[s] = "begun"
    /\ loop' = [loop EXCEPT ![s] = "armed"]
    /\ timer' = s /\ deadlines' = deadlines \cup {s}
    /\ starting' = "no"
    /\ UNCHANGED <<current, stopping>>

\* captureAndSchedule
Fire(s) ==
    /\ loop[s] = "armed"
    /\ loop' = [loop EXCEPT ![s] = IF s = current THEN "capturing" ELSE "over"]
    /\ UNCHANGED <<timer, current, deadlines, starting, stopping>>

\* After the frame the session is compared again; with a low battery, when no frame
\* is captured, it is not.
Captured(s) ==
    /\ loop[s] = "capturing"
    /\ \E low \in BOOLEAN :
        loop' = [loop EXCEPT ![s] = IF low \/ s = current THEN "arming" ELSE "over"]
    /\ UNCHANGED <<timer, current, deadlines, starting, stopping>>

ArmNext(s) ==
    /\ loop[s] = "arming"
    /\ loop' = [loop EXCEPT ![s] = "armed"] /\ timer' = s
    /\ UNCHANGED <<current, deadlines, starting, stopping>>

-----------------------------------------------------------------------------
(* stopScreenStream                                                         *)

StopCommand ==
    /\ CommandsIdle
    /\ stopping' = [stopping EXCEPT !["command"] = "timer"]
    /\ UNCHANGED <<timer, current, loop, deadlines, starting>>

\* The five minutes of a session are over.
LimitReached(s) ==
    /\ s \in deadlines /\ stopping["limit"] = "no"
    /\ deadlines' = deadlines \ {s}
    /\ stopping' = [stopping EXCEPT !["limit"] = IF timer # NoTimer /\ s = current THEN "timer" ELSE "no"]
    /\ UNCHANGED <<timer, current, loop, starting>>

CancelTimer(t) ==
    /\ stopping[t] = "timer"
    /\ timer' = NoTimer
    /\ loop' = IF timer # NoTimer /\ loop[timer] = "armed" THEN [loop EXCEPT ![timer] = "over"] ELSE loop
    /\ stopping' = [stopping EXCEPT ![t] = "session"]
    /\ UNCHANGED <<current, deadlines, starting>>

\* Mutant: the session goes on; only its timer is cancelled.
EndNoSession(t) ==
    /\ stopping[t] = "session"
    /\ stopping' = [stopping EXCEPT ![t] = "no"]
    /\ UNCHANGED <<timer, current, loop, deadlines, starting>>

EndSession(t) ==
    /\ stopping[t] = "session"
    /\ current' = NoSession
    /\ stopping' = [stopping EXCEPT ![t] = "no"]
    /\ UNCHANGED <<timer, loop, deadlines, starting>>

LoopStep(s) == Fire(s) \/ Captured(s) \/ ArmNext(s)
CommandStep == BeginSession \/ ArmFirst
StopStep(t) == CancelTimer(t) \/ EndSession(t)

Next ==
    \/ Start \/ StopCommand \/ CommandStep
    \/ \E s \in Sessions : LoopStep(s) \/ LimitReached(s)
    \/ \E t \in Stoppers : StopStep(t)

Spec == Init /\ [][Next]_streamVars

(* Timers fire and threads run; nobody need send a command.                 *)
Fairness ==
    /\ WF_streamVars(CommandStep)
    /\ \A s \in Sessions : WF_streamVars(LoopStep(s)) /\ WF_streamVars(LimitReached(s))
    /\ \A t \in Stoppers : WF_streamVars(StopStep(t))

FairSpec == Spec /\ Fairness

-----------------------------------------------------------------------------
(* Properties.                                                              *)

\* main.js:1582: every stream ends within five minutes, also when it is stopped,
\* started again or reaches its limit while a frame is captured.
StreamEnds == \A s \in Sessions : (loop[s] = "armed") ~> (loop[s] = "over")

\* A loop that is over has left no gStreamTimer behind, which would keep every later
\* start from doing anything: refuted by TLC, when a stop comes between the
\* comparison of the session and the arming of the next timer.
StartsAreHeard == timer # NoTimer => loop[timer] # "over"
=============================================================================
