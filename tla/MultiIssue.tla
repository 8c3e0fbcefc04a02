----------------------------- MODULE MultiIssue -----------------------------
(***************************************************************************)
(* The multi_issue category of one program: run_issue_probe_category hands *)
(* the probe the classes and mixes of kernel/issue_classes.def, built for  *)
(* this site, and issue_feature_available, which the core answers.  The    *)
(* probe runs before the rows and whatever it returns they follow.         *)
(*                                                                         *)
(* What the timer will read (Cores) is chosen when the probe begins; Pair  *)
(* says which sites and readings are looked at together.                   *)
(***************************************************************************)
EXTENDS KernelDispatch, IssueProbe

CONSTANTS Cores, Pair(_, _)

\* A rate is not negative, and a pair's curve has its two pure streams.
ASSUME ReadingsAssumption ==
    \A reading \in Cores :
        /\ reading.third \in Nat /\ reading.triple \in Nat
        /\ LET last == Cardinality(DOMAIN reading.pair) - 1
           IN  last \in Nat \ {0} /\ reading.pair \in [0..last -> Nat]

multiIssueVars == <<dispatchVars, issueVars>>

\* A pair and a triple of the list that share classes.
Trio ==
    IF site.arch = "x64" THEN [A |-> "avx_fma", B |-> "avx_load", C |-> "alu"]
    ELSE IF Defined("_SMEf64_")
         THEN [A |-> "sme_fmopa_f64", B |-> "ssve_fmla_f64", C |-> "ssve_ld1d"]
         ELSE [A |-> "neon_fmla", B |-> "alu", C |-> "neon_ldr"]

Unread == [pair |-> [i \in 0..1 |-> 0], third |-> 0, triple |-> 0, anchored |-> FALSE,
           available |-> {}]

MultiIssueInit == DispatchInit /\ core = Unread /\ ProbeInit

\* The classes are selected and the probe gets them.
HandOver ==
    /\ SelectClasses
    /\ \E reading \in Cores :
          /\ Pair(site, reading)
          /\ core' = [pair |-> reading.pair, third |-> reading.third,
                      triple |-> reading.triple, anchored |-> Trio.A = "sme_fmopa_f64",
                      available |-> {letter \in DOMAIN Trio : Trio[letter] \in classes'}]
          /\ curve' = reading.pair
    /\ UNCHANGED <<pc, timer, deferred, rows, status, known, stage, low, high, best, from>>

Probe == phase = "rows" /\ ProbeNext /\ UNCHANGED dispatchVars

AfterProbe == pc = "done" /\ RunRows /\ UNCHANGED issueVars

BeforeProbe ==
    /\ \/ BuildNext /\ UNCHANGED <<at, required, bm_list, announced, classes, executed>>
       \/ Register \/ Filter \/ Nothing \/ Banner \/ Frequency \/ Stream
    /\ UNCHANGED issueVars

MultiIssueNext == BeforeProbe \/ HandOver \/ Probe \/ AfterProbe

MultiIssueSpec == MultiIssueInit /\ [][MultiIssueNext]_multiIssueVars
=============================================================================
