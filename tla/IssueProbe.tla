----------------------------- MODULE IssueProbe -----------------------------
(***************************************************************************)
(* run_issue_probe (common/issue/issue_probe.cpp), the multi_issue table:  *)
(* the peak of every instruction class alone, then for a pair of classes   *)
(* the mix the core issues fastest (IssueSearch, step by step), for three  *)
(* classes the best of the peak-proportional mixes, and last a verdict for *)
(* each row once the widest stream of all rows is known.                   *)
(*                                                                         *)
(* core is what the timer would read: pair is the curve of the pair's      *)
(* ratios, its ends the peaks of the two classes, third the peak of the    *)
(* third class, triple the best of the chosen three-class mixes; anchored  *)
(* tells whether the first class is a matrix tile's, available the classes *)
(* that may run here, both decided by KernelDispatch (see MultiIssue).     *)
(* 0 is nothing read.                                                      *)
(***************************************************************************)
EXTENDS IssueSearch, Sequences, FiniteSetsExt

Mixes == << <<"A", "B">>, <<"A", "B", "C">> >>

VARIABLES
    pc,
    core,
    timer,      \* a counter or a clock to measure with
    deferred,   \* rows that wait for the issue width
    rows,       \* the table
    status

probeVars == <<pc, core, timer, deferred, rows, status>>
issueVars == <<searchVars, probeVars>>

Peak(class) == CASE class = "A" -> core.pair[LastRatio]
                 [] class = "B" -> core.pair[0]
                 [] class = "C" -> core.third

\* classify_joint_ceiling
Sharing(a, b, joint) ==
    IF 100 * joint <= 105 * Larger(a, b) THEN "shared"
    ELSE IF 100 * joint >= 95 * (a + b) THEN "independent" ELSE "partial"

Entry(mix, total, verdict, blocking) ==
    [mix |-> mix, total |-> total, verdict |-> verdict, blocking |-> blocking,
     atWidth |-> FALSE]

Plain(item) == Entry(<<item>>, 0, "none", FALSE)

-----------------------------------------------------------------------------
ProbeInit ==
    /\ curve = core.pair
    /\ SearchInit
    /\ timer \in BOOLEAN
    /\ deferred = << >> /\ rows = << >>
    /\ pc = "start" /\ status = "running"

Unusable ==
    /\ pc = "start" /\ ~timer
    /\ rows' = <<Plain("not measured")>>
    /\ pc' = "done" /\ status' = TRUE
    /\ UNCHANGED <<searchVars, core, timer, deferred>>

NoBuffer ==
    /\ pc = "start" /\ timer
    /\ pc' = "done" /\ status' = FALSE
    /\ UNCHANGED <<searchVars, core, timer, deferred, rows>>

\* The classes the processor lacks have no peak row.
MeasurePeaks ==
    /\ pc = "start" /\ timer
    /\ rows' = [i \in 1..Cardinality(core.available) |-> Plain("peak")]
    /\ pc' = "mix"
    /\ UNCHANGED <<searchVars, core, timer, deferred, status>>

Mix == Mixes[Len(deferred) + 1]
IsPair == Len(Mix) = 2
Measurable(mix) == \A k \in DOMAIN mix : mix[k] \in core.available /\ Peak(mix[k]) > 0

MissingClass ==
    /\ pc = "mix" /\ Len(deferred) < Len(Mixes) /\ ~Measurable(Mix)
    /\ deferred' = Append(deferred, Entry(Mix, 0, "missing", FALSE))
    /\ UNCHANGED <<searchVars, pc, core, timer, rows, status>>

SearchPair ==
    /\ pc = "mix" /\ Len(deferred) < Len(Mixes) /\ Measurable(Mix) /\ IsPair
    /\ SearchStep
    /\ UNCHANGED probeVars

\* The maximum at a pure stream with no mix near it: the classes block each
\* other.  A pair whose first class is a matrix tile has a row of its own.
PairDone ==
    /\ pc = "mix" /\ Len(deferred) < Len(Mixes) /\ IsPair /\ Found
    /\ LET pure == best \in {0, LastRatio} /\ from = high
           verdict == Sharing(Peak("A"), Peak("B"), curve[best])
       IN  deferred' = Append(deferred, Entry(Mix, curve[best], verdict, pure))
    /\ rows' = IF core.anchored THEN Append(rows, Plain("anchored")) ELSE rows
    /\ stage' = "idle"
    /\ UNCHANGED <<curve, known, low, high, best, from>>
    /\ UNCHANGED <<pc, core, timer, status>>

Triple ==
    /\ pc = "mix" /\ Len(deferred) < Len(Mixes) /\ Measurable(Mix) /\ ~IsPair
    /\ LET sum == Peak("A") + Peak("B") + Peak("C") IN
       deferred' = Append(deferred, Entry(Mix, core.triple,
           IF 100 * core.triple >= 95 * sum THEN "sum of peaks" ELSE "below the sum", FALSE))
    /\ UNCHANGED <<searchVars, pc, core, timer, rows, status>>

Totals == {deferred[i].total : i \in DOMAIN deferred}
\* Mutant: only pairs count for the width.
WidestPair == Max({deferred[i].total : i \in
                      {k \in DOMAIN deferred : Len(deferred[k].mix) = 2}} \cup {0})
IssueWidth == Max(Totals \cup {0})

\* A row at the width says so; for a pair that seemed to share ports, the
\* width is the explanation instead.
AgainstWidth(row) ==
    LET widest == row.total > 0 /\ 100 * row.total >= 95 * IssueWidth
        pair   == Len(row.mix) = 2
    IN  IF ~widest THEN row
        ELSE IF pair /\ row.verdict = "shared" /\ ~row.blocking
             THEN [row EXCEPT !.verdict = "front end"]
             ELSE [row EXCEPT !.atWidth = pair \/ row.verdict = "below the sum"]

\* The table has the pairs first, as Mixes has.
Finish ==
    /\ pc = "mix" /\ Len(deferred) = Len(Mixes)
    /\ rows' = rows \o [i \in DOMAIN deferred |-> AgainstWidth(deferred[i])] \o <<Plain("source")>>
    /\ pc' = "done" /\ status' = TRUE
    /\ UNCHANGED <<searchVars, core, timer, deferred>>

ProbeNext ==
    \/ Unusable \/ NoBuffer \/ MeasurePeaks \/ MissingClass
    \/ SearchPair \/ PairDone \/ Triple \/ Finish

-----------------------------------------------------------------------------
(* What the table says.                                                    *)

MixRows == {rows[i] : i \in {k \in DOMAIN rows : Len(rows[k].mix) > 1}}

\* No pair is said to share ports when it issues as much as any stream of the
\* table: then the front end bounds it (issue_probe.cpp:444-449).  And what is
\* said to be bounded by the front end is not far below another stream.
FrontEndIsWidest ==
    \A row, other \in MixRows :
        /\ (row.verdict = "front end" \/ row.atWidth) => 100 * row.total >= 95 * other.total
        /\ row.verdict = "shared" /\ ~row.blocking /\ row.total > 0 =>
              \E wider \in MixRows : 100 * row.total < 95 * wider.total
=============================================================================
