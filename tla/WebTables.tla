------------------------------- MODULE WebTables -------------------------------
(***************************************************************************)
(* The tables of the web console that refresh themselves every three       *)
(* seconds: web/src/views/DeviceList.vue, DeviceLogs.vue and TaskList.vue. *)
(* A request takes the filter of its moment with it, and its answer is     *)
(* shown whatever the filter is by then. The first two pages never have    *)
(* two requests on their way, and drop what the user asks for meanwhile;   *)
(* the third has no such guard, but its timer waits for an answer.         *)
(***************************************************************************)
EXTENDS Integers, FiniteSets

CONSTANTS
    Filters,        \* page, keyword, status; the device of DeviceLogs
    NoFilter,       \* DeviceLogs: no device is chosen
    MaxChanges,     \* bound: changes of the filter
    MaxErrors       \* bound: requests that fail

TablesAssumption ==
    IsFiniteSet(Filters) /\ NoFilter \notin Filters /\ {MaxChanges, MaxErrors} \subseteq Nat

Views == {"DeviceList", "DeviceLogs", "TaskList"}
Guarded == {"DeviceList", "DeviceLogs"}

VARIABLES
    view,               \* which of the pages is open
    want,               \* the filter that is set
    shown,              \* the filter the rows on the screen belong to
    requests,           \* filters of the requests on their way
    requestInFlight,    \* deviceRequestInFlight of DeviceList
    loading,
    changes, errors     \* history

tableVars == <<view, want, shown, requests, requestInFlight, loading, changes, errors>>

TypeOK ==
    /\ view \in Views
    /\ want \in Filters \cup {NoFilter} /\ (want = NoFilter => view = "DeviceLogs")
    /\ shown \in Filters \cup {NoFilter} /\ requests \subseteq Filters
    /\ requestInFlight \in BOOLEAN /\ loading \in BOOLEAN
    /\ view \in Guarded => Cardinality(requests) <= 1
    /\ changes \in 0..MaxChanges /\ errors \in 0..MaxErrors

Init ==
    /\ view \in Views /\ shown = NoFilter
    /\ want \in (IF view = "DeviceLogs" THEN Filters \cup {NoFilter} ELSE Filters)
    /\ requests = {} /\ requestInFlight = FALSE /\ loading = FALSE
    /\ changes = 0 /\ errors = 0

\* loadData(silent) for the filter f
LoadData(f, silent) ==
    IF f = NoFilter
    THEN shown' = NoFilter /\ UNCHANGED <<requests, requestInFlight, loading>>
    ELSE /\ UNCHANGED shown
         /\ IF view \in Guarded /\ requestInFlight
            THEN UNCHANGED <<requests, requestInFlight, loading>>
            ELSE /\ requests' = requests \cup {f}
                 /\ requestInFlight' = (view \in Guarded)
                 /\ loading' = (loading \/ ~silent)

ChangeFilter(f) ==
    /\ f # want /\ (f = NoFilter => view = "DeviceLogs")
    /\ changes < MaxChanges /\ changes' = changes + 1
    /\ want' = f
    /\ LoadData(f, FALSE)
    /\ UNCHANGED <<view, errors>>

\* The timer; DeviceLogs has none without a device, TaskList asks when nothing loads.
Refresh ==
    /\ want # NoFilter /\ (view = "TaskList" => ~loading)
    /\ LoadData(want, view \in Guarded)
    /\ UNCHANGED <<view, want, changes, errors>>

\* Mutant: the flags are reset only after a request that succeeded.
ResetIfAnswered(ok) == requestInFlight' = (requestInFlight /\ ~ok) /\ loading' = (loading /\ ~ok)

\* finally; a silent request leaves loading to whoever set it, but none is on its way.
Reset(ok) == requestInFlight' = FALSE /\ loading' = FALSE

Answer(f) ==
    /\ f \in requests /\ requests' = requests \ {f}
    /\ \E ok \in BOOLEAN :
        /\ IF ok THEN shown' = f /\ UNCHANGED errors
           ELSE errors < MaxErrors /\ errors' = errors + 1 /\ UNCHANGED shown
        /\ Reset(ok)
    /\ UNCHANGED <<view, want, changes>>

Next ==
    \/ Refresh
    \/ \E f \in Filters \cup {NoFilter} : ChangeFilter(f)
    \/ \E f \in Filters : Answer(f)

Spec == Init /\ [][Next]_tableVars

(* The page stays visible, its timer fires, and requests are answered.      *)
Fairness == WF_tableVars(Refresh) /\ \A f \in Filters : WF_tableVars(Answer(f))

FairSpec == Spec /\ Fairness

-----------------------------------------------------------------------------
\* onMounted of the three pages (DeviceList.vue:443): the table comes to show what the
\* filter asks for and keeps to it, although a change is dropped while a request is on
\* its way, and answers overtake one another.
TableCatchesUp == <>[](want = NoFilter \/ shown = want)

\* DeviceLogs without a device shows no rows: refuted by TLC. The answer for the device
\* that was chosen before is still shown when it comes.
NoDeviceNoRows == want = NoFilter => shown = NoFilter
=============================================================================
