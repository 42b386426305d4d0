------------------------------- MODULE MCLab13 -------------------------------
(* The two small modules of lab13, timer.c and kthread.c, loaded side by    *)
(* side: they share no state, each keeps its own fairness, and neither may  *)
(* need the other to stand still.                                           *)
EXTENDS SimpleTimer, KThread

Lab13Init == Init /\ KTInit

Lab13Next ==
  \/ Next /\ UNCHANGED KTvars
  \/ KTNext /\ UNCHANGED vars

Lab13Spec ==
  Lab13Init /\ [][Lab13Next]_<<vars, KTvars>> /\ Fairness /\ KTFairness
===============================================================================
