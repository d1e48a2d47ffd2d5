----------------------------- MODULE StaleSource -----------------------------
(***************************************************************************)
(* What a time-bounded cache promises its clients, apart from how it keeps *)
(* the promise: every client is answered at most once, either with a       *)
(* failure or with one snapshot of the source that is at most Bound old at *)
(* the moment of the answer.  A snapshot is named by the time it was taken.*)
(***************************************************************************)
EXTENDS Integers

CONSTANTS Clients, Bound

VARIABLES
    now,     \* the clock, starting at 1
    status,  \* status[c]: "none" until c is answered, then "ok" or "failed"
    asOf     \* asOf[c]: the time of the snapshot c was answered with

Init ==
    /\ now = 1
    /\ status = [c \in Clients |-> "none"]
    /\ asOf = [c \in Clients |-> 0]

Tick == now' = now + 1 /\ UNCHANGED <<status, asOf>>

Answer(c) ==
    /\ status[c] = "none"
    /\ status' = [status EXCEPT ![c] = "ok"]
    /\ \E v \in 1..now : now - v <= Bound /\ asOf' = [asOf EXCEPT ![c] = v]
    /\ UNCHANGED now

Fail(c) ==
    /\ status[c] = "none"
    /\ status' = [status EXCEPT ![c] = "failed"]
    /\ UNCHANGED <<now, asOf>>

Next == Tick \/ \E c \in Clients : Answer(c) \/ Fail(c)

Spec == Init /\ [][Next]_<<now, status, asOf>>
=============================================================================
