------------------------------- MODULE RunAll -------------------------------
(***************************************************************************)
(* What tpool_run_all (common/sys/thread_pool.hpp) promises its callers:   *)
(* a timed window that opens with no worker inside, in which every worker  *)
(* executes the caller's job exactly once, in any order and overlapping in *)
(* any way, and that closes after the last of them is done.                *)
(***************************************************************************)
CONSTANTS Workers, Jobs, NoJob

VARIABLES
  open,       \* has the start time been recorded and the end time not?
  job,        \* the job of the window that is open
  running,    \* the job each worker is executing, or NoJob
  finished    \* the workers that have executed the job in this window

vars == <<open, job, running, finished>>

Init ==
  /\ open = FALSE
  /\ job = NoJob
  /\ running = [w \in Workers |-> NoJob]
  /\ finished = {}

Open(j) ==
  /\ ~open
  /\ open' = TRUE
  /\ job' = j
  /\ UNCHANGED <<running, finished>>

Enter(w) ==
  /\ open
  /\ w \notin finished
  /\ running[w] = NoJob
  /\ running' = [running EXCEPT ![w] = job]
  /\ UNCHANGED <<open, job, finished>>

Leave(w) ==
  /\ running[w] # NoJob
  /\ running' = [running EXCEPT ![w] = NoJob]
  /\ finished' = finished \cup {w}
  /\ UNCHANGED <<open, job>>

Close ==
  /\ open
  /\ finished = Workers
  /\ open' = FALSE
  /\ job' = NoJob
  /\ finished' = {}
  /\ UNCHANGED running

Next ==
  \/ \E j \in Jobs : Open(j)
  \/ \E w \in Workers : Enter(w) \/ Leave(w)
  \/ Close

Spec == Init /\ [][Next]_vars
=============================================================================
