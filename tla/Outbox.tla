------------------------------- MODULE Outbox -------------------------------
(***************************************************************************)
(* What the webhook outbox promises of each queued event, whatever passes  *)
(* drain it: the event waits, is attempted any number of times, and is     *)
(* settled once.  It is `sent` only if the receiver took it, and a settled *)
(* event is never attempted again.                                         *)
(***************************************************************************)
EXTENDS Naturals

CONSTANT Events

VARIABLES
    state,      \* event -> where it stands
    attempted,  \* event -> HTTP attempts made for it
    received    \* event -> attempts the receiver answered with success

outboxVars == <<state, attempted, received>>

Init ==
    /\ state = [e \in Events |-> "absent"]
    /\ attempted = [e \in Events |-> 0]
    /\ received = [e \in Events |-> 0]

Queue(e) ==
    /\ state[e] = "absent"
    /\ state' = [state EXCEPT ![e] = "queued"]
    /\ UNCHANGED <<attempted, received>>

Attempt(e) ==
    /\ state[e] \in {"queued", "gone"}
    /\ attempted' = [attempted EXCEPT ![e] = @ + 1]
    /\ received' \in {received, [received EXCEPT ![e] = @ + 1]}
    /\ UNCHANGED state

Settle(e) ==
    /\ state[e] = "queued"
    /\ \/ received[e] > 0 /\ state' = [state EXCEPT ![e] = "sent"]
       \/ state' = [state EXCEPT ![e] = "failed"]
    /\ UNCHANGED <<attempted, received>>

\* The subscription was deleted, and its events with it.  A pass that holds
\* one in memory may still post it.
Forget(S) ==
    /\ state' = [e \in Events |->
                    IF e \in S /\ state[e] # "absent" THEN "gone" ELSE state[e]]
    /\ UNCHANGED <<attempted, received>>

Next ==
    \/ \E e \in Events : Queue(e) \/ Attempt(e) \/ Settle(e)
    \/ \E S \in SUBSET Events : Forget(S)

Spec == Init /\ [][Next]_outboxVars
=============================================================================
