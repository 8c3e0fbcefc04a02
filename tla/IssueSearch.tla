----------------------------- MODULE IssueSearch -----------------------------
(***************************************************************************)
(* search_unimodal_maximum (common/issue/issue_probe.cpp): where along the *)
(* mixing ratios of two instruction classes a core issues most, and which  *)
(* ratios come close.  A golden-section search narrows a bracket around    *)
(* the maximum, two bisections find the ends of the near-optimal interval. *)
(* One action is one turn of one of the three loops.                       *)
(*                                                                         *)
(* curve[i] is what evaluating ratio i would return, in units of a total   *)
(* IPC; a ratio is evaluated at most once (known), so what noise does to a *)
(* sample is part of the curve.  curve[0] and curve[LastRatio] are the     *)
(* peaks of the pure streams.                                              *)
(***************************************************************************)
EXTENDS Integers, FiniteSets

CONSTANTS Tolerance, Epsilon  \* in permille

ASSUME PermilleAssumption == Tolerance \in Nat /\ Epsilon \in 0..1000

VARIABLES
    curve,
    known,      \* ratios evaluated
    stage,      \* "idle", "bracket", "left", "right" or "found"
    low, high,  \* bounds of the loop that runs
    best,       \* ratio of the result
    from        \* first ratio of the interval; the last one is high, once found

searchVars == <<curve, known, stage, low, high, best, from>>

LastRatio == Cardinality(DOMAIN curve) - 1

Above(x, y) == 1000 * x > (1000 + Tolerance) * y
Near(x, top) == 1000 * x >= (1000 - Epsilon) * top

\* lround of a share of the bracket
Share(permille, span) == (permille * span + 500) \div 1000

Larger(x, y) == IF x >= y THEN x ELSE y
Smaller(x, y) == IF x <= y THEN x ELSE y

FirstProbe == Larger(low + Share(382, high - low), low + 1)
SecondProbe ==
    LET second == Smaller(low + Share(618, high - low), high - 1)
    IN  IF second <= FirstProbe THEN FirstProbe + 1 ELSE second

-----------------------------------------------------------------------------
\* At least the two pure streams, evaluated to something.
IsCurve == LastRatio \in Nat \ {0} /\ curve \in [0..LastRatio -> Nat]

SearchInit ==
    /\ IsCurve
    /\ known = {} /\ stage = "idle"
    /\ low = 0 /\ high = 0 /\ best = 0 /\ from = 0

\* Mutant: the pure streams are not evaluated.
BeginInside ==
    /\ stage = "idle"
    /\ stage' = "bracket"
    /\ known' = {}
    /\ low' = Smaller(1, LastRatio) /\ high' = Larger(LastRatio - 1, Smaller(1, LastRatio))
    /\ UNCHANGED <<curve, best, from>>

\* The pure streams are candidates whatever the search does.
Begin ==
    /\ stage = "idle"
    /\ stage' = "bracket"
    /\ known' = {0, LastRatio}
    /\ low' = 0 /\ high' = LastRatio
    /\ UNCHANGED <<curve, best, from>>

\* Mutant: the bracket is cut at the lower probe.
NarrowToFirst ==
    /\ stage = "bracket" /\ high - low > 2
    /\ known' = known \cup {FirstProbe, SecondProbe}
    /\ low' = IF Above(curve[FirstProbe], curve[SecondProbe]) THEN low ELSE FirstProbe
    /\ high' = IF Above(curve[FirstProbe], curve[SecondProbe]) THEN FirstProbe
               ELSE IF Above(curve[SecondProbe], curve[FirstProbe]) THEN high
               ELSE SecondProbe
    /\ UNCHANGED <<curve, stage, best, from>>

\* Two probes within the tolerance of each other drop both ends.
Narrow ==
    /\ stage = "bracket" /\ high - low > 2
    /\ known' = known \cup {FirstProbe, SecondProbe}
    /\ low' = IF Above(curve[FirstProbe], curve[SecondProbe]) THEN low ELSE FirstProbe
    /\ high' = IF Above(curve[SecondProbe], curve[FirstProbe]) THEN high ELSE SecondProbe
    /\ UNCHANGED <<curve, stage, best, from>>

\* The first of the largest values known is the result.
Settle ==
    /\ stage = "bracket" /\ high - low <= 2
    /\ known' = known \cup low..high
    /\ best' \in known'
    /\ \A i \in known' :
           curve[i] <= curve[best'] /\ (curve[i] = curve[best'] => best' <= i)
    /\ stage' = "left"
    /\ low' = 0
    /\ high' = IF Near(curve[0], curve[best']) THEN 0 ELSE best'
    /\ UNCHANGED <<curve, from>>

Middle == (low + high) \div 2

BisectLeft ==
    /\ stage = "left" /\ high - low > 1
    /\ known' = known \cup {Middle}
    /\ IF Near(curve[Middle], curve[best]) THEN high' = Middle /\ UNCHANGED low
       ELSE low' = Middle /\ UNCHANGED high
    /\ UNCHANGED <<curve, stage, best, from>>

LeftFound ==
    /\ stage = "left" /\ high - low <= 1
    /\ from' = high
    /\ stage' = "right"
    /\ low' = IF Near(curve[LastRatio], curve[best]) THEN LastRatio ELSE best
    /\ high' = LastRatio
    /\ UNCHANGED <<curve, known, best>>

BisectRight ==
    /\ stage = "right" /\ high - low > 1
    /\ known' = known \cup {Middle}
    /\ IF Near(curve[Middle], curve[best]) THEN low' = Middle /\ UNCHANGED high
       ELSE high' = Middle /\ UNCHANGED low
    /\ UNCHANGED <<curve, stage, best, from>>

RightFound ==
    /\ stage = "right" /\ high - low <= 1
    /\ high' = low
    /\ stage' = "found"
    /\ UNCHANGED <<curve, known, low, best, from>>

SearchStep ==
    Begin \/ Narrow \/ Settle \/ BisectLeft \/ LeftFound \/ BisectRight \/ RightFound

SearchSpec == SearchInit /\ [][SearchStep]_searchVars

-----------------------------------------------------------------------------
(* What the caller makes its verdicts of.                                  *)

Found == stage = "found"

\* Whatever the curve looks like, noise included: the result is no slower than
\* either pure stream, lies in its interval, and the interval's ends are near
\* the maximum while the ratios next to them, if any, are not
\* (issue_probe.cpp:294, whose loops rely on f(l) < threshold <= f(r)).
ResultIsConsistent ==
    Found =>
        /\ curve[best] >= curve[0] /\ curve[best] >= curve[LastRatio]
        /\ from <= best /\ best <= high
        /\ Near(curve[from], curve[best]) /\ Near(curve[high], curve[best])
        /\ from > 0 => ~Near(curve[from - 1], curve[best])
        /\ high < LastRatio => ~Near(curve[high + 1], curve[best])

\* Rising to a level top and falling after it, by more than noise each time.
Peaked(c, last) ==
    \E p, q \in 0..last :
        /\ p <= q
        /\ \A i, j \in 0..last :
               i < j => /\ j <= p => Above(c[j], c[i])
                        /\ q <= i => Above(c[i], c[j])
                        /\ p <= i /\ j <= q => c[i] = c[j]

\* On such a curve the few ratios evaluated suffice: the result is the maximum
\* and the interval holds exactly the ratios near it (issue_probe.hpp:89-94).
MaximumFound ==
    (Found /\ Peaked(curve, LastRatio)) =>
        /\ \A i \in 0..LastRatio : curve[i] <= curve[best]
        /\ {i \in 0..LastRatio : Near(curve[i], curve[best])} = from..high
=============================================================================
