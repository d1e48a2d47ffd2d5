------------------------------ MODULE MCRunOnce ------------------------------
(* An instance of RunOnce for TLC: two runs of the base job and one of the   *)
(* rcv-err job of docs/operations.md.                                        *)
EXTENDS RunOnce

CONSTANTS p1, p2, p3, base, rcverr

MCOutputOf == [p \in Processes |-> IF p = p3 THEN rcverr ELSE base]
=============================================================================
