------------------------- MODULE MCStreamBandwidth -------------------------
(***************************************************************************)
(* StreamBandwidth on two workers.  Requests: nothing, less than a block,  *)
(* a partial block, one and two blocks, more than INT_MAX blocks, and a    *)
(* size whose double wraps.                                                *)
(***************************************************************************)
EXTENDS StreamBandwidth

RequestSizes == {0, 1, 2, 3, 4, 8, 10}
=============================================================================
