----------------------------- MODULE MCIrqDriver -----------------------------
(* The processes of labs/lab12/driver: ioctl_test.c forks, and parent and   *)
(* child use the device; test.sh starts several ioctl_test.  e1 does what   *)
(* the parent does in its second half; it may be there before init is over. *)
EXTENDS IoctlTest

CONSTANTS p1, c1, e1

SecondHalf == <<"LOCK", "INC_ALL", "INC_ALL", "SUM", "PRINT1", "RESET", "UNLOCK">>

TestAndChild ==
  [c \in Clients |->
     IF c = p1 THEN Parent ELSE IF c = e1 THEN SecondHalf ELSE Child]

(* All of these programs are careful. *)
ASSUME TestsAreCareful == \A c \in Clients : Careful(Program[c])
===============================================================================
