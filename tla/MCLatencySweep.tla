--------------------------- MODULE MCLatencySweep ---------------------------
(***************************************************************************)
(* LatencySweep over the curves of MCCacheCurve, and over the rings of a   *)
(* reference of five lines and of two working sets: three lines, then five *)
(* in three pages, two words of each line linked.  Latencies of a load: no *)
(* tick, a cost at which the budget is a sample, one at which a lap is.    *)
(***************************************************************************)
EXTENDS MCCacheCurve, LatencySweep

MCReference == [lines |-> 5, stride |-> 3]
MCRings == <<[lines |-> 3, stride |-> 3, slots |-> 2], [lines |-> 5, stride |-> 3, slots |-> 2]>>

SmallReference == [lines |-> 8, stride |-> 1]
NoRings == << >>
=============================================================================
