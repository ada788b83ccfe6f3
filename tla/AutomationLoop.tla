---------------------------- MODULE AutomationLoop ----------------------------
(***************************************************************************)
(* The automation script a task runs on the phone: hidcs() of              *)
(* client/easyclick/src/js/douyin.js. It goes round one of four loops      *)
(* until its running time is over or, in the modes "live" and "keyword",   *)
(* until it has made the visits it may make. The visits are counted in     *)
(* memory and in storage, and any thread that stops the task ends the      *)
(* script between two statements.                                          *)
(***************************************************************************)
EXTENDS Integers

CONSTANTS
    Limit,          \* bound: LIVE_DAILY_LIMIT, KW_DAILY_LIMIT are at most this
    MaxStarts,      \* bound: starts of the script
    MaxFaults       \* bound: storage faults, and stops of a visit that is not saved yet

LoopAssumption == {Limit, MaxStarts, MaxFaults} \subseteq Nat

Visits == {"live", "keyword"}
Modes  == Visits \cup {"recommend", "all"}
MaxNoHomeRetry == 3

VARIABLES
    mode,           \* LIVE_CONFIG.MODE
    limited,        \* runTimeMs > 0
    most,           \* maxLiveRooms, maxKeywordVideos; 0 when switched off
    at,             \* the next thing the loop does
    count,          \* liveRoomCount, keywordVideoCount
    stored,         \* daily_live_rooms, daily_keywords
    over,           \* there is a running time, and it is over
    noHomeCount,
    night,          \* not isActiveHours()
    made,           \* history: visits made
    today,          \* history: which kinds were made since the morning
    starts, faults, forgets     \* history; forgets: starts that could not read the storage

loopVars == <<mode, limited, most, at, count, stored, over, noHomeCount, night, made, today,
              starts, faults, forgets>>
setup    == <<mode, limited, most>>
clock    == <<over, night>>
tallies  == <<made, today>>
history  == <<starts, faults, forgets>>

\* "live": about to enter a live room; "live made": the visit has begun; ...
Points == {"off", "top", "page", "live", "live made", "keyword", "keyword made"}
Made(k) == IF k = "live" THEN "live made" ELSE "keyword made"
AfterVisit(k) == IF mode = "all" /\ k = "live" THEN "keyword" ELSE "top"

TypeOK ==
    /\ mode \in Modes /\ limited \in BOOLEAN /\ most \in [Visits -> 0..Limit]
    /\ at \in Points /\ over \in BOOLEAN /\ night \in BOOLEAN
    /\ count \in [Visits -> Nat] /\ stored \in [Visits -> Nat]
    /\ \A k \in Visits : count[k] <= most[k] /\ stored[k] <= most[k]
    /\ noHomeCount \in 0..(MaxNoHomeRetry - 1)
    /\ made \in [Visits -> Nat] /\ today \subseteq Visits
    /\ starts \in 0..MaxStarts /\ faults \in 0..MaxFaults /\ forgets \in 0..MaxFaults

None == [k \in Visits |-> 0]

Init ==
    /\ mode \in Modes /\ limited \in BOOLEAN /\ most \in [Visits -> {0, Limit}]
    /\ at = "off" /\ count = None /\ stored = None
    /\ over = FALSE /\ noHomeCount = 0 /\ night = FALSE
    /\ made = None /\ today = {} /\ starts = 0 /\ faults = 0 /\ forgets = 0

Fault == faults + forgets < MaxFaults

\* The counters are read in one try: when the first read fails, so does the other.
Start ==
    /\ at = "off" /\ starts < MaxStarts /\ starts' = starts + 1
    /\ \/ count' = stored /\ UNCHANGED forgets
       \/ /\ Fault /\ forgets' = forgets + 1
          /\ count' \in {None, [stored EXCEPT !["keyword"] = 0]}
    /\ at' = "top"
    /\ UNCHANGED <<setup, stored, clock, noHomeCount, tallies, faults>>

\* The script is over, and its variables are gone.
Ends == at' = "off" /\ count' = None /\ noHomeCount' = 0 /\ over' = FALSE

\* The top of each loop: ensureActive waits for the morning, and the time and the
\* visits are compared.
Exhausted(k) == count[k] >= most[k]

Top ==
    /\ at = "top" /\ ~night
    /\ \/ /\ over \/ (mode \in Visits /\ Exhausted(mode))
          /\ Ends
       \/ /\ ~over /\ (mode \in Visits => ~Exhausted(mode))
          /\ at' = (IF mode \in Visits THEN mode ELSE "page")
          /\ UNCHANGED <<count, over, noHomeCount>>
    /\ UNCHANGED <<setup, stored, night, tallies, history>>

\* Mutant: the round begins again without a look at the clock.
PageUntilHome ==
    /\ at = "page"
    /\ \/ noHomeCount' = 0 /\ at' = (IF mode = "all" THEN "live" ELSE "top")
       \/ noHomeCount' = (noHomeCount + 1) % MaxNoHomeRetry /\ UNCHANGED at
    /\ UNCHANGED <<setup, count, stored, clock, tallies, history>>

\* Is it on the home page? The third time that it is not, the app is restarted and
\* the round begins again; else the round goes on, also on another page.
Page ==
    /\ at = "page"
    /\ \/ noHomeCount' = 0 /\ at' = (IF mode = "all" THEN "live" ELSE "top")
       \/ IF noHomeCount + 1 >= MaxNoHomeRetry
          THEN noHomeCount' = 0 /\ at' = "top"
          ELSE /\ noHomeCount' = noHomeCount + 1
               /\ at' = (IF mode = "all" THEN "live" ELSE "top")
       \/ noHomeCount' = 0 /\ mode = "recommend" /\ at' = "top"       \* after a long rest
    /\ UNCHANGED <<setup, count, stored, clock, tallies, history>>

Visit(k) ==
    /\ at = k
    /\ \/ /\ mode = "all" => ~Exhausted(k)
          /\ at' = Made(k)
          /\ made' = [made EXCEPT ![k] = @ + 1] /\ today' = today \cup {k}
       \/ mode = "all" /\ at' = AfterVisit(k) /\ UNCHANGED tallies
    /\ UNCHANGED <<setup, count, stored, clock, noHomeCount, history>>

Counts(k) == {[count EXCEPT ![k] = @ + 1]}

\* Mutant: the counter is saved before it is incremented.
SavesOld(k) == count[k]

Saves(k) == count'[k]

\* performLiveRoomAction or performKeywordVideoAction has returned; a failing
\* putString is not noticed.
Count(k) ==
    /\ at = Made(k)
    /\ count' \in Counts(k)
    /\ \/ stored' = [stored EXCEPT ![k] = Saves(k)] /\ UNCHANGED faults
       \/ Fault /\ faults' = faults + 1 /\ UNCHANGED stored
    /\ at' = AfterVisit(k)
    /\ UNCHANGED <<setup, clock, noHomeCount, tallies, starts, forgets>>

\* The task is stopped, the process dies, or a step throws.
Kill ==
    /\ at # "off" /\ Ends
    /\ IF \E k \in Visits : at = Made(k) THEN Fault /\ faults' = faults + 1 ELSE UNCHANGED faults
    /\ UNCHANGED <<setup, stored, night, tallies, starts, forgets>>

TimeIsUp ==
    /\ at # "off" /\ limited /\ over' = TRUE
    /\ UNCHANGED <<setup, at, count, stored, noHomeCount, night, tallies, history>>

Evening ==
    /\ ~night /\ night' = TRUE
    /\ UNCHANGED <<setup, at, count, stored, over, noHomeCount, tallies, history>>

Morning ==
    /\ night /\ night' = FALSE /\ today' = {}
    /\ UNCHANGED <<setup, at, count, stored, over, noHomeCount, made, history>>

LoopStep == Top \/ Page \/ \E k \in Visits : Visit(k) \/ Count(k)

Next == Start \/ LoopStep \/ Kill \/ TimeIsUp \/ Evening \/ Morning

Spec == Init /\ [][Next]_loopVars

(* The script's thread runs, time passes, and an evening does not come each *)
(* time the loop is about to look at the clock.                             *)
Fairness == SF_loopVars(Top) /\ WF_loopVars(LoopStep) /\ WF_loopVars(TimeIsUp) /\ WF_loopVars(Morning)

FairSpec == Spec /\ Fairness

-----------------------------------------------------------------------------
\* douyin.js:459: the limit holds over stops and starts of the script; each stop
\* between a visit and its putString, and each failing putString, costs one visit,
\* and each failing read no more than the limit.
QuotaKept == \A k \in Visits : made[k] <= most[k] * (1 + forgets) + faults

\* douyin.js:371, 460: a script with a running time, or in a mode with a limit, comes to an
\* end, although the app is lost and restarted and nights are slept through.
LoopEnds == (at # "off" /\ (limited \/ mode \in Visits)) ~> at = "off"

\* "daily" (douyin.js:460): a script that is started on a day without visits may make
\* some. Refuted by TLC: nothing ever sets the counters back.
QuotaIsDaily ==
    [][(Start /\ mode \in Visits /\ today = {} /\ most[mode] > 0) =>
            count'[mode] < most[mode]]_loopVars
=============================================================================
