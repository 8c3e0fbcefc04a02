------------------------------ MODULE CacheRows ------------------------------
(***************************************************************************)
(* The cache table after its latency curve, and what comes before and      *)
(* after it: cpubm_x64_cache and its siblings probe the lines and sets of  *)
(* one core (measure_cache_report), append what the prefetch probe finds   *)
(* (append_cache_report_rows) and then the streams                         *)
(* (append_cache_memory_bandwidth); the load category takes its capacities *)
(* from the same CacheData.  Without either, --memory-bandwidth measures   *)
(* the memory stream alone.                                                *)
(*                                                                         *)
(* The probes time one core, the prefetch probe works on what the curve    *)
(* found of it, the streams on what the operating system reports of all    *)
(* selected cores, the load rows on that and the curve.  Beside and        *)
(* Together say which are looked at together.                              *)
(***************************************************************************)
EXTENDS CacheProbes, PrefetchProbe, StreamWorksets, LoadRows

CONSTANTS Beside(_, _, _, _), Together(_, _, _, _, _)

tableVars == <<vars, prefetchVars, probesVars, loadVars>>

TableInit ==
    /\ ProbesInit /\ PrefetchInit /\ LoadInit /\ Beside(core, machine, tests, loaded)
    /\ Init /\ ask.table = ("cache" \in tests) /\ Together(core, machine, host, ask, loaded)

\* The curve, of which CacheData keeps the capacities.
Curve == CacheCategory /\ UNCHANGED <<vars, prefetchVars, probesVars>>

InTable == "cache" \in tests /\ loadStage # "cache"

Probes == InTable /\ ProbesNext /\ UNCHANGED <<prefetchVars, vars, loadVars>>

\* The rows of the prefetch probe come first, and only in the table.
Prefetch ==
    /\ InTable /\ phase = "done"
    /\ PrefetchNext
    /\ UNCHANGED <<probesVars, vars, loadVars>>

\* Whatever the probes could measure, the streams follow.
Streams ==
    /\ tests = {} \/ (InTable /\ phase = "done" /\ todo = << >>)
    /\ Next
    /\ UNCHANGED <<probesVars, prefetchVars, loadVars>>

\* The load rows come after the whole table.
Load ==
    /\ "cache" \in tests => pc = "done"
    /\ (PrepareLoad \/ LoadRow)
    /\ UNCHANGED <<vars, prefetchVars, probesVars>>

TableNext == Curve \/ Probes \/ Prefetch \/ Streams \/ Load

TableSpec == TableInit /\ [][TableNext]_tableVars
=============================================================================
