---------------------------- MODULE LatencySweep ----------------------------
(***************************************************************************)
(* measure_cache_curve with its rings: the latencies CacheCurve takes from *)
(* the machine are those of the rings ChaseRing links and chases, one for  *)
(* the reference and one for each sample.  A sweep is either followed word *)
(* by word through its first rings, or only through what they answer.      *)
(***************************************************************************)
EXTENDS CacheCurve, ChaseRing

VARIABLE followed

sweepVars == <<vars, ringVars, followed>>

SweepInit ==
    /\ Init /\ RingInit
    /\ byPage = (grouping = "grouped")
    /\ followed \in BOOLEAN

Chased == Chasing /\ UNCHANGED vars

\* measure_memory_latency, where the region is wide enough for it.
Mapped ==
    /\ MapRegion
    /\ \/ EndReference
       \/ NoReference /\ memory' = 0

\* A sample whose probe saw no tick has no latency.
Sampled ==
    /\ Sample /\ NextRing
    /\ points'[Len(points')].latency > 0 => steps > 0

SweepNext ==
    \/ followed /\ (Chased \/ Mapped \/ Sampled) /\ UNCHANGED followed
    \/ ~followed /\ Next /\ UNCHANGED <<ringVars, followed>>

SweepSpec == SweepInit /\ [][SweepNext]_sweepVars
=============================================================================
