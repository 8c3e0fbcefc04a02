-------------------------- MODULE MCFrequencyProbe --------------------------
(***************************************************************************)
(* FrequencyProbe by itself, for the one back end whose row disagrees with *)
(* its documentation: hosts with one and with two core types, three CPUs   *)
(* of which two are selected, with and without counters, a supplied clock, *)
(* reported clocks and CPUs a thread cannot be bound to.                   *)
(***************************************************************************)
EXTENDS FrequencyProbe

MCSelected == <<1, 3>>
MCClocks == <<20, 15>>

MCHosts ==
    [kind : {<<1, 1, 1>>, <<1, 1, 2>>, <<2, 1, 1>>},
     reported : {<<0, 0, 0>>, <<42, 42, 16>>},
     bindable : {{1, 2, 3}, {1, 2}},
     override : {0, 33}, counters : BOOLEAN, vector : BOOLEAN]

MCChainRuns == {<<0, 0, 0>>, <<2, 4, 5>>, <<5, 2, 4>>, <<4, 0, 2>>}
=============================================================================
