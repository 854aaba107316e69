---------------------------- MODULE MCScheduler ----------------------------
(* The instances of Scheduler that TLC checks.                             *)
EXTENDS Scheduler, TLC

CONSTANTS j1, j2, l1, l2, c1, c2

\* The expression is a period: the next multiple of it.
MCNextAfter(period, t) == ((t \div period) + 1) * period

\* Two instances, chosen at the start.  What goes on between loops, triggers and stops
\* needs two jobs, and two calls reach it; what registering again does to a row needs
\* one job, all MaxCalls, and no stop.
VARIABLE alone

MCInit == Init /\ alone \in BOOLEAN

MCNext ==
  /\ Next
  /\ alone => ~stopping' /\ \A j \in Jobs \ {j1} : cron'[j] = None
  /\ ~alone => calls' <= 2
  /\ UNCHANGED alone

MCSpec == MCInit /\ [][MCNext]_<<vars, alone>> /\ Fairness
=============================================================================
