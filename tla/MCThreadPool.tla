---------------------------- MODULE MCThreadPool ----------------------------
(***************************************************************************)
(* Instances of ThreadPool for TLC.                                        *)
(***************************************************************************)
EXTENDS ThreadPool

(* A pool whose threads may be moved, and one where all of them stay.      *)
AnyReading == Reading
PinnedReading == {"requested"}
=============================================================================
