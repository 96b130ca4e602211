---------------------------- MODULE MCCancellations ----------------------------
(* Cancellations on small instances: one order, two requests to it, two      *)
(* replicas of the job and one other handler, of which MaxBusy at a time are *)
(* between what they read and what they write.                               *)
EXTENDS Cancellations, FiniteSets
CONSTANTS s1, s2, w1, w2, m1, MaxBusy
Busy == Cardinality({s \in Sessions : se[s].pc # "idle"})
        + Cardinality({w \in Replicas : job[w].pc # "idle"})
        + Cardinality({m \in Movers : mv[m].pc # "idle"})
AllStill == \A m \in Movers : mv[m].pc = "idle"
JobIdle == \A w \in Replicas : job[w].pc = "idle"
\* What is explored: up to the first revival, with MaxBusy handlers at a time;
\* beyond a second request only people act, beyond the first retry no mover.
Explored ==
  /\ Busy <= MaxBusy /\ ~revived
  /\ (\E r \in Reqs : r > 1 /\ req[r].st # "none") => AllStill /\ JobIdle
  /\ (\E r \in Reqs : req[r].tries > 1) => AllStill
=============================================================================
