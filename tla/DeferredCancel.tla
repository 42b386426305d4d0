---------------------------- MODULE DeferredCancel ----------------------------
(* Deferred with a history variable: a MY_IOCTL_TIMER_CANCEL has returned   *)
(* and no ioctl has set the timer since.                                    *)
EXTENDS Deferred

VARIABLE cancelled

CancelInit == Init /\ cancelled = FALSE

CancelNext ==
  /\ Next
  /\ cancelled' = \/ \E c \in Callers : IoctlCancel(c)
                  \/ cancelled /\ ~ \E c \in Callers : IoctlModTimer(c)

CancelSpec == CancelInit /\ [][CancelNext]_<<vars, cancelled>>

(* A cancelled timer stays off until an ioctl sets it again (deferred.c:159, *)
(* "cancel timer (delete timer)").                                           *)
CancelIsFinal == cancelled => ~armed
===============================================================================
