---------------------------- MODULE MCMultiIssue ----------------------------
(***************************************************************************)
(* Curves over the 23 ratios the probe really searches (21 mixes and the   *)
(* two pure streams): two slopes under a level top, steep or within the    *)
(* noise.  Every curve over few ratios, peaked or not.  On some of them    *)
(* all that can differ besides the curve.  The readings are tried on a     *)
(* core with all three classes and on one without the first; the other     *)
(* sites see one reading each.                                             *)
(***************************************************************************)
EXTENDS MultiIssue, MCKernelDispatch

Least(S) == CHOOSE x \in S : \A y \in S : x <= y

Tents == {[i \in 0..22 |-> Least({b + up * i, a + down * (22 - i), top})] :
             b \in {60, 200, 500}, a \in {80, 500}, up \in {3, 20, 60},
             down \in {2, 25, 60}, top \in {480, 600, 900}}

Every(n, values) == [0..n -> values]

Reading(c, third, triple) == [pair |-> c, third |-> third, triple |-> triple]

Flat == Reading([i \in 0..1 |-> 100], 100, 200)

Combined == {Reading(c, third, triple) :
                c \in {t \in Tents : t[0] = 500} \cup Every(2, {0, 100, 102, 200}),
                third \in {0, 300}, triple \in {0, 105, 500, 900}}

MCCores ==
    {Flat} \cup Combined
    \cup {Reading(c, 300, 700) :
            c \in Tents \cup Every(6, {100, 194, 200}) \cup Every(4, {0, 100, 120, 194, 200})
                  \cup Every(1, {0, 100, 200})}

\* All readings on the core with every SME extension, the combinations on one
\* without the doubles and on one of x64.
MCPair(s, reading) ==
    \/ reading = Flat
    \/ s = Site("arm64", "Linux", {}, Clang, {}, SmeAll)
    \/ reading \in Combined /\ \/ s = Site("arm64", "Linux", {}, Clang, {}, Sme1)
                               \/ s = Site("x64", "Linux", {}, {}, Skx, Skx)
=============================================================================
