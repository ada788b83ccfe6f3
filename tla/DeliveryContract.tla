-------------------------- MODULE DeliveryContract ---------------------------
(***************************************************************************)
(* What reliable delivery promises about a command, whatever goes wrong on *)
(* the way: once issued it is live until it is acknowledged or failed, and *)
(* stays so; only a command the phone has taken is acknowledged. The phone *)
(* runs it at most once, unless it became forgetful: it failed to write    *)
(* down that it took a command, or to read back what it had written, or    *)
(* took two commands at the same moment. A failed command may still be     *)
(* taken and run: failure means "no acknowledgement in time".              *)
(***************************************************************************)
CONSTANT Commands

VARIABLES
    state,  \* the server's view of each command
    phone,  \* what the phone did with it
    forgetful   \* the phone may have lost track of the commands it took

vars == <<state, phone, forgetful>>

Init ==
    /\ state = [c \in Commands |-> "none"]
    /\ phone = [c \in Commands |-> "new"]
    /\ forgetful = FALSE

\* The command is recorded, before it is sent for the first time.
Issue(c) ==
    /\ state[c] = "none"
    /\ state' = [state EXCEPT ![c] = "live"]
    /\ UNCHANGED <<phone, forgetful>>

Take(c) ==
    /\ state[c] # "none" /\ phone[c] = "new"
    /\ phone' = [phone EXCEPT ![c] = "taken"]
    /\ UNCHANGED <<state, forgetful>>

\* From now on a repeated copy may be taken for a new command.
Forget ==
    /\ forgetful' = TRUE
    /\ UNCHANGED <<state, phone>>

Run(c) ==
    /\ \/ phone[c] = "taken" /\ phone' = [phone EXCEPT ![c] = "run"]
       \/ /\ phone[c] = "run" /\ forgetful
          /\ phone' = [phone EXCEPT ![c] = "run again"]
    /\ UNCHANGED <<state, forgetful>>

Acknowledge(c) ==
    /\ state[c] = "live" /\ phone[c] # "new"
    /\ state' = [state EXCEPT ![c] = "acknowledged"]
    /\ UNCHANGED <<phone, forgetful>>

\* Given up: superseded, out of attempts, or too old.
GiveUp(S) ==
    /\ \A c \in S : state[c] = "live"
    /\ state' = [c \in Commands |-> IF c \in S THEN "failed" ELSE state[c]]
    /\ UNCHANGED <<phone, forgetful>>

Next ==
    \/ \E c \in Commands : Issue(c) \/ Take(c) \/ Run(c) \/ Acknowledge(c)
    \/ Forget \/ \E S \in SUBSET Commands : GiveUp(S)

Spec == Init /\ [][Next]_vars
=============================================================================
