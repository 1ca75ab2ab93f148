---------------------------- MODULE ApprovalGate ----------------------------
(***************************************************************************)
(* What the approval flow of an agent run promises, with no requests,      *)
(* threads or rows: write calls are put to the person one at a time, each  *)
(* card is answered at most once, and a write executes at most once, only  *)
(* if its own card was approved, and before the next card is shown.        *)
(***************************************************************************)
EXTENDS Integers

CONSTANT MaxCards       \* write calls the run may propose

VARIABLES
    open,       \* the card that can be answered now, 0 for none
    verdicts,   \* card -> the answer it was given
    executions  \* card -> how often its write executed

gateVars == <<open, verdicts, executions>>

GateInit ==
    /\ open = 0
    /\ verdicts = [c \in 1..MaxCards |-> "none"]
    /\ executions = [c \in 1..MaxCards |-> 0]

\* Cards come up in order, and only while no other one is open.
Show(c) ==
    /\ open = 0
    /\ \A d \in c..MaxCards : verdicts[d] = "none"
    /\ open' = c
    /\ UNCHANGED <<verdicts, executions>>

Respond(v) ==
    /\ open # 0
    /\ verdicts[open] = "none"
    /\ verdicts' = [verdicts EXCEPT ![open] = v]
    /\ open' = 0
    /\ UNCHANGED executions

\* The conversation is deleted with the card still open.
Withdraw ==
    /\ open # 0
    /\ open' = 0
    /\ UNCHANGED <<verdicts, executions>>

Execute(c) ==
    /\ open = 0
    /\ verdicts[c] = "approve"
    /\ executions[c] = 0
    /\ \A d \in (c + 1)..MaxCards : verdicts[d] = "none"
    /\ executions' = [executions EXCEPT ![c] = 1]
    /\ UNCHANGED <<open, verdicts>>

GateNext ==
    \/ \E c \in 1..MaxCards : Show(c) \/ Execute(c)
    \/ \E v \in {"approve", "reject"} : Respond(v)
    \/ Withdraw

GateSpec == GateInit /\ [][GateNext]_gateVars
=============================================================================
