----------------------------- MODULE RuntimeLease -----------------------------
(***************************************************************************)
(* The lease that is to keep a second instance of the script off a phone:  *)
(* acquireRuntimeLease, refreshRuntimeLease and releaseRuntimeLease of     *)
(* client/easyclick/src/js/main.js. EasyClick's autostart and a click of   *)
(* the user can both start the script. The lease is a record in storage:   *)
(* it is read, written and read back, and nothing locks it meanwhile.      *)
(***************************************************************************)
EXTENDS Integers, FiniteSets

CONSTANTS
    Instances,      \* gCloudInstanceId; a process has a new one
    Nobody,
    MaxStalls       \* bound: leases that lapse although their owner runs, and storage faults

ASSUME InstancesAssumption == Nobody \notin Instances /\ MaxStalls \in Nat

VARIABLES
    lease,          \* instance_id of the record in storage
    fresh,          \* updated_at is less than CLOUD_RUNTIME_LEASE_TTL ago
    stage,          \* how far each instance is
    stalls,         \* history: stalls and faults so far
    breach          \* history: two instances were between reading and writing at a
                    \* time, or a running one lost its lease, or ran without one

leaseVars == <<lease, fresh, stage, stalls, breach>>

\* A running instance has gRuntimeLeaseTimer armed, unless it found no storage.
Stages == {"new", "read", "write", "verify", "running", "running unleased",
           "releasing", "clearing", "closing", "gone"}

TypeOK ==
    /\ lease \in Instances \cup {Nobody} /\ fresh \in BOOLEAN
    /\ stage \in [Instances -> Stages]
    /\ stalls \in 0..MaxStalls /\ breach \in BOOLEAN

Init ==
    /\ lease = Nobody /\ fresh = FALSE
    /\ stage = [i \in Instances |-> "new"]
    /\ stalls = 0 /\ breach = FALSE

At(i, s) == stage[i] = s
Goto(i, s) == stage' = [stage EXCEPT ![i] = s]
Stall == stalls < MaxStalls /\ stalls' = stalls + 1

\* It has written the lease and not given it up.
Holds(i) == stage[i] \in {"verify", "running", "releasing", "clearing"}

\* It handles commands and keeps the connection: cleanup gives up the lease first, and
\* handleMessage does not look at gShouldStop.
Serves(i) == stage[i] \in {"running", "running unleased", "releasing", "clearing", "closing"}

Start(i) ==
    /\ At(i, "new") /\ Goto(i, "read")
    /\ UNCHANGED <<lease, fresh, stalls, breach>>

\* Mutant: the comparison with gCloudInstanceId is the wrong way round.
RefusedIfOwn(i) == lease = i /\ fresh

\* Another instance's record is recent.
Refused(i) == lease \notin {Nobody, i} /\ fresh

\* Without storage the script runs all the same.
ReadLease(i) ==
    /\ At(i, "read")
    /\ \/ /\ Goto(i, IF Refused(i) THEN "gone" ELSE "write")
          /\ breach' = (breach \/ (~Refused(i) /\ \E j \in Instances \ {i} : At(j, "write")))
          /\ UNCHANGED stalls
       \/ Stall /\ Goto(i, "running unleased") /\ breach' = TRUE
    /\ UNCHANGED <<lease, fresh>>

\* A failing write is not noticed here.
WriteLease(i) ==
    /\ At(i, "write") /\ Goto(i, "verify")
    /\ \/ lease' = i /\ fresh' = TRUE /\ UNCHANGED <<stalls, breach>>
       \/ Stall /\ breach' = TRUE /\ UNCHANGED <<lease, fresh>>

VerifyLease(i) ==
    /\ At(i, "verify")
    /\ Goto(i, IF lease = i THEN "running" ELSE "gone")
    /\ UNCHANGED <<lease, fresh, stalls, breach>>

\* Every 15 s, whoever owns the record by then.
RefreshLease(i) ==
    /\ At(i, "running")
    /\ lease' = i /\ fresh' = TRUE
    /\ UNCHANGED <<stage, stalls, breach>>

\* The record grows old: its owner is gone, or the timer was held up.
Lapse ==
    /\ fresh /\ fresh' = FALSE
    /\ IF \E i \in Instances : i = lease /\ Holds(i) THEN Stall /\ breach' = TRUE
       ELSE UNCHANGED <<stalls, breach>>
    /\ UNCHANGED <<lease, stage>>

\* cleanup: the timer is cancelled, the record read ...
Stop(i) ==
    /\ \/ At(i, "running") /\ Goto(i, "releasing")
       \/ At(i, "running unleased") /\ Goto(i, "closing")
    /\ UNCHANGED <<lease, fresh, stalls, breach>>

\* ... and cleared if it is its own, and only then the tasks are stopped and the
\* connections closed.
ReleaseLease(i) ==
    /\ At(i, "releasing") /\ Goto(i, IF lease = i THEN "clearing" ELSE "closing")
    /\ UNCHANGED <<lease, fresh, stalls, breach>>

ClearLease(i) ==
    /\ At(i, "clearing") /\ Goto(i, "closing")
    /\ lease' = Nobody
    /\ UNCHANGED <<fresh, stalls, breach>>

\* The end of cleanup, or of the process at any time.
Exit(i) ==
    /\ stage[i] \notin {"new", "gone"} /\ Goto(i, "gone")
    /\ UNCHANGED <<lease, fresh, stalls, breach>>

Next ==
    \/ \E i \in Instances :
        \/ Start(i) \/ ReadLease(i) \/ WriteLease(i) \/ VerifyLease(i) \/ RefreshLease(i)
        \/ Stop(i) \/ ReleaseLease(i) \/ ClearLease(i) \/ Exit(i)
    \/ Lapse

Spec == Init /\ [][Next]_leaseVars

-----------------------------------------------------------------------------
\* main.js:638: no instance begins to serve beside another that keeps serving. One
\* that was told to stop serves on beside its successor until it has closed its
\* connections (main.js:1952, 1955-1986). Excepted (breach): two instances were
\* between reading the lease and writing it at a time, the timer of one was held up
\* for the whole TTL, or the storage failed.
OneInstance == ~breach =>
    \A i, j \in Instances : Serves(i) /\ Serves(j) => i = j \/ At(i, "closing") \/ At(j, "closing")

\* main.js:638 as it stands: refuted by TLC, already by one orderly stop.
OneInstanceAlways == \A i, j \in Instances : Serves(i) /\ Serves(j) => i = j
=============================================================================
