--------------------------- MODULE MCPortCollector ---------------------------
(* Instances of PortCollector for TLC.                                     *)
EXTENDS PortCollector, TLC

CONSTANTS s1, s2, p1, p2

\* Device 1 has two ports, so that its -E loop goes round twice.
MCPortsOf == [d \in 1..N |-> IF d = 1 THEN {p1, p2} ELSE {p1}]

MCOnePort == [d \in 1..N |-> {p1}]

ScrapeSymmetry == Permutations(Scrapes)
=============================================================================
