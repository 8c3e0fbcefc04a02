---------------------------- MODULE MCCacheCurve ----------------------------
(***************************************************************************)
(* CacheCurve over sixteen working sets (4 to 56 KiB), the shortest octave *)
(* grid with room for five plateaus.  Page-grouped rings may be served by  *)
(* a prefetcher to the end; global ones may find two, three or four        *)
(* levels, soft steps, a fall in the middle and one at the deepest point.  *)
(***************************************************************************)
EXTENDS CacheCurve

Grouped == [i \in Points |->
    CASE i \in 1..4        -> {10}
      [] i = 5             -> {10, 22, 40}
      [] i \in 6..7        -> {40}
      [] i = 8             -> {40, 20}
      [] i = 9             -> {40, 160}
      [] i \in 10..12      -> {160}
      [] i \in 13..15      -> {160, 800}
      [] i = 16            -> {160, 800}]

Global == [i \in Points |->
    CASE i \in 1..2        -> {10}
      [] i = 3             -> {10, 0}
      [] i = 4             -> {10, 40}
      [] i \in 5..6        -> {40}
      [] i = 7             -> {160, 36}
      [] i \in 8..9        -> {160}
      [] i = 10            -> {160, 320}
      [] i \in 11..12      -> {320}
      [] i = 13            -> {320, 800}
      [] i \in 14..15      -> {800}
      [] i = 16            -> {800, 160}]

Chases == [o \in {"grouped", "global"} |-> IF o = "grouped" THEN Grouped ELSE Global]
Memories == {0, 800, 1000}
Frees == {0, 60, 448, 1000}
=============================================================================
