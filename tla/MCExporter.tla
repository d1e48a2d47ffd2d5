----------------------------- MODULE MCExporter -----------------------------
(* Instances of Exporter for TLC: two requests; the switch g1 is in the       *)
(* topology of one of them only, and the renumbering swaps two LIDs.          *)
EXTENDS Exporter

CONSTANTS s1, s2, g1, g2, lid1, lid2

MCDevicesOf == [s \in Scrapes |-> IF s = s1 THEN {g1, g2} ELSE {g2}]
MCOldLID == [g \in GUIDs |-> IF g = g1 THEN lid1 ELSE lid2]
MCNewLID == [g \in GUIDs |-> IF g = g1 THEN lid2 ELSE lid1]
=============================================================================
