----------------------------- MODULE MCTimedRow -----------------------------
(***************************************************************************)
(* TimedRow with three interchangeable workers on three CPUs.              *)
(* Hosts with one and with two core types, with and without counters, a    *)
(* supplied clock, reported clocks and CPUs a thread cannot be bound to,   *)
(* the threads starting anywhere; on the two plain ones a row follows, of  *)
(* every loop count and elapsed time, every worker counting or not.        *)
(***************************************************************************)
EXTENDS TimedRow, TLC

Symmetric == Permutations(Workers)

MCSelected == <<1, 3, 2>>
MCClocks == <<20, 15>>

Plain == [kind |-> <<1, 1, 1>>, reported |-> <<0, 0, 0>>, bindable |-> {1, 2, 3},
          override |-> 0, counters |-> FALSE, vector |-> FALSE]
CountingHost == [Plain EXCEPT !.counters = TRUE, !.vector = TRUE]

MCHosts ==
    {Plain, CountingHost}
    \cup {[Plain EXCEPT !.kind = k, !.counters = c, !.bindable = b, !.vector = ~c] :
              k \in {<<1, 1, 1>>, <<1, 1, 2>>, <<2, 1, 1>>}, c \in BOOLEAN,
              b \in {{1, 2, 3}, {1, 2}}}
    \cup {[Plain EXCEPT !.reported = <<42, 42, 16>>, !.override = o, !.vector = v] :
              o \in {0, 33}, v \in BOOLEAN}

MCChainRuns == {<<0, 0, 0>>, <<2, 4, 5>>, <<5, 2, 4>>, <<4, 0, 2>>}

MCRowFollows(h) == h \in {Plain, CountingHost}

MCBeside(p, h, o, b, loop) ==
    /\ h # CountingHost => loop = 5
    /\ h = CountingHost /\ b = "cache" => p = "x64"
    /\ IF MCRowFollows(h) THEN o = MCSelected ELSE b = "cache"
=============================================================================
