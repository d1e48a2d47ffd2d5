---------------------------- MODULE MCProcGroup ----------------------------
(* Instances of ProcGroup for TLC: x1 may be killed and can have two          *)
(* descendants at a time, x2 runs under sudo and can have one.               *)
EXTENDS ProcGroup

CONSTANTS x1, x2, k1, k2

MCKidsOf == [x \in Executions |-> IF x = x1 THEN {k1, k2} ELSE {k1}]
=============================================================================
