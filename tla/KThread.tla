------------------------------- MODULE KThread -------------------------------
(* labs/lab13/kthread/kthread.c: a kernel thread that waits to be told to   *)
(* stop, and a module exit that tells it and waits for the answer.  Each    *)
(* direction is an atomic flag and a wait queue.  KTSpec has a prefix so    *)
(* that a module can extend this one and SimpleTimer together.              *)
EXTENDS Naturals

CONSTANTS
  Signals,         \* the rmmod process may receive a signal
  KthreadMayFail   \* kthread_run may fail

ASSUME KThreadAssumption == Signals \in BOOLEAN /\ KthreadMayFail \in BOOLEAN

VARIABLES
  mpc,         \* unloaded, init, live, or the position in my_kthread_exit
  tpc,         \* position of the thread: none, in my_thread_f, or dead
  wpc,         \* position of a waiter in wait_event_interruptible
  waiting,     \* waiter is on its queue, to be woken by a wake_up
  stop,        \* flag_stop_thread
  terminated,  \* flag_thread_terminated
  sig          \* a signal is pending for the rmmod process

KTvars == <<mpc, tpc, wpc, waiting, stop, terminated, sig>>

(* The thread waits on wq_stop_thread, the exit on wq_thread_terminated. *)
Waiters == {"thread", "exit"}

KTInit ==
  /\ mpc = "unloaded" /\ tpc = "none" /\ wpc = [w \in Waiters |-> "out"]
  /\ waiting = [w \in Waiters |-> FALSE] /\ stop = FALSE /\ terminated = FALSE
  /\ sig = FALSE

(* my_kthread_init up to kthread_run.  The model stops at the point where a *)
(* thread of an earlier load runs in freed text.                            *)
KthreadInit ==
  /\ mpc = "unloaded" /\ tpc \in {"none", "dead"} /\ mpc' = "init"
  /\ tpc' = "none" /\ stop' = FALSE /\ terminated' = FALSE /\ sig' = FALSE
  /\ waiting' = [w \in Waiters |-> FALSE]
  /\ UNCHANGED wpc

(* The result of kthread_run is not tested. *)
KthreadRun ==
  /\ mpc = "init" /\ mpc' = "live"
  /\ tpc' = "start" \/ (KthreadMayFail /\ tpc' = "none")
  /\ UNCHANGED <<wpc, waiting, stop, terminated, sig>>

-------------------------------------------------------------------------------
(* wait_event_interruptible: test; then enqueue, test again, sleep until    *)
(* woken, and start over.                                                   *)
Cond(w) == IF w = "thread" THEN stop ELSE terminated

(* A kernel thread ignores signals. *)
Interrupted(w) == w = "exit" /\ sig

(* Mutant: the test is inverted. *)
FirstTestInverted(w) ==
  /\ wpc[w] = "first"
  /\ wpc' = [wpc EXCEPT ![w] = IF Cond(w) THEN "prepare" ELSE "done"]
  /\ UNCHANGED <<mpc, tpc, waiting, stop, terminated, sig>>

FirstTest(w) ==
  /\ wpc[w] = "first"
  /\ wpc' = [wpc EXCEPT ![w] = IF Cond(w) THEN "done" ELSE "prepare"]
  /\ UNCHANGED <<mpc, tpc, waiting, stop, terminated, sig>>

(* Mutant: the condition is not tested again after joining the queue. *)
PrepareAndSleep(w) ==
  /\ wpc[w] = "prepare" /\ waiting' = [waiting EXCEPT ![w] = TRUE]
  /\ wpc' = [wpc EXCEPT ![w] = "schedule"]
  /\ UNCHANGED <<mpc, tpc, stop, terminated, sig>>

(* prepare_to_wait_event does not enqueue a task with a pending signal; the *)
(* condition is tested once more before the wait gives up.                  *)
Prepare(w) ==
  /\ wpc[w] = "prepare" /\ waiting' = [waiting EXCEPT ![w] = ~Interrupted(w)]
  /\ wpc' = [wpc EXCEPT ![w] = IF Interrupted(w) THEN "done" ELSE "test"]
  /\ UNCHANGED <<mpc, tpc, stop, terminated, sig>>

Test(w) ==
  /\ wpc[w] = "test"
  /\ IF Cond(w)
     THEN /\ wpc' = [wpc EXCEPT ![w] = "done"]
          /\ waiting' = [waiting EXCEPT ![w] = FALSE]
     ELSE /\ wpc' = [wpc EXCEPT ![w] = "schedule"]
          /\ UNCHANGED waiting
  /\ UNCHANGED <<mpc, tpc, stop, terminated, sig>>

(* schedule returns to a task that was woken, or has a signal to handle. *)
Schedule(w) ==
  /\ wpc[w] = "schedule"
  /\ ~waiting[w] \/ Interrupted(w)
  /\ wpc' = [wpc EXCEPT ![w] = "prepare"]
  /\ UNCHANGED <<mpc, tpc, waiting, stop, terminated, sig>>

Wait(w) == FirstTest(w) \/ Prepare(w) \/ Test(w) \/ Schedule(w)

WakeUp(w) == waiting' = [waiting EXCEPT ![w] = FALSE]

-------------------------------------------------------------------------------
(* Mutant: the thread announces its end before it waits. *)
ThreadStartAnnounced ==
  /\ tpc = "start" /\ tpc' = "wait" /\ wpc' = [wpc EXCEPT !["thread"] = "first"]
  /\ terminated' = TRUE
  /\ UNCHANGED <<mpc, waiting, stop, sig>>

(* my_thread_f. *)
ThreadStart ==
  /\ tpc = "start" /\ tpc' = "wait" /\ wpc' = [wpc EXCEPT !["thread"] = "first"]
  /\ UNCHANGED <<mpc, waiting, stop, terminated, sig>>

ThreadAnnounce ==
  /\ tpc = "wait" /\ wpc["thread"] = "done"
  /\ wpc' = [wpc EXCEPT !["thread"] = "out"] /\ terminated' = TRUE
  /\ tpc' = "wake"
  /\ UNCHANGED <<mpc, waiting, stop, sig>>

ThreadWakeExit ==
  /\ tpc = "wake" /\ WakeUp("exit") /\ tpc' = "return"
  /\ UNCHANGED <<mpc, wpc, stop, terminated, sig>>

ThreadReturn ==
  /\ tpc = "return" /\ tpc' = "dead"
  /\ UNCHANGED <<mpc, wpc, waiting, stop, terminated, sig>>

Thread == ThreadStart \/ ThreadAnnounce \/ ThreadWakeExit \/ ThreadReturn

-------------------------------------------------------------------------------
(* my_kthread_exit. *)
ExitSetStop ==
  /\ mpc = "live" /\ stop' = TRUE /\ mpc' = "wake"
  /\ UNCHANGED <<tpc, wpc, waiting, terminated, sig>>

ExitWakeThread ==
  /\ mpc = "wake" /\ WakeUp("thread") /\ mpc' = "wait"
  /\ wpc' = [wpc EXCEPT !["exit"] = "first"]
  /\ UNCHANGED <<tpc, stop, terminated, sig>>

(* The result of the wait is ignored: interrupted or not, exit returns and  *)
(* the kernel frees the module.                                             *)
ExitReturn ==
  /\ mpc = "wait" /\ wpc["exit"] = "done"
  /\ wpc' = [wpc EXCEPT !["exit"] = "out"] /\ mpc' = "unloaded"
  /\ UNCHANGED <<tpc, waiting, stop, terminated, sig>>

Signal ==
  /\ Signals /\ mpc \in {"wake", "wait"} /\ sig' = TRUE
  /\ UNCHANGED <<mpc, tpc, wpc, waiting, stop, terminated>>

KTNext ==
  \/ KthreadInit \/ KthreadRun
  \/ Thread
  \/ \E w \in Waiters : Wait(w)
  \/ ExitSetStop \/ ExitWakeThread \/ ExitReturn
  \/ Signal

KTSpec == KTInit /\ [][KTNext]_KTvars

(* The scheduler runs both sides; nobody has to call rmmod. *)
KTFairness ==
  /\ WF_KTvars(KthreadRun) /\ WF_KTvars(Thread)
  /\ \A w \in Waiters : WF_KTvars(Wait(w))
  /\ WF_KTvars(ExitWakeThread) /\ WF_KTvars(ExitReturn)

KTFairSpec == KTSpec /\ KTFairness

-------------------------------------------------------------------------------
(* Type invariant. *)
KTTypeOK ==
  /\ mpc \in {"unloaded", "init", "live", "wake", "wait"}
  /\ tpc \in {"none", "start", "wait", "wake", "return", "dead"}
  /\ wpc \in [Waiters -> {"out", "first", "prepare", "test", "schedule", "done"}]
  /\ waiting \in [Waiters -> BOOLEAN]
  /\ stop \in BOOLEAN /\ terminated \in BOOLEAN /\ sig \in BOOLEAN

(* The thread leaves its wait only when the module is being removed. *)
StopsOnDemand ==
  tpc \in {"wake", "return", "dead"} => mpc \in {"wake", "wait", "unloaded"}

(* Unless a signal cuts the wait short, the module goes only when the       *)
(* thread has been told to stop and has said that it is done.               *)
Heard == tpc \in {"none", "wake", "return", "dead"}
ExitHeardThread == mpc = "unloaded" /\ ~sig => Heard

(* Both sides come to their end: neither wake_up is lost, and the wait of   *)
(* the thread ends also when the exit was interrupted.  Without a thread,   *)
(* when kthread_run failed, the exit would wait for ever.                   *)
HandshakeEnds ==
  (mpc = "wake" /\ tpc # "none") ~> (mpc = "unloaded" /\ tpc = "dead")

(* my_thread_f never runs in a module that is gone (kthread.c:85, "We       *)
(* checked the kernel thread finshed. Unload the moudle").                  *)
KTText == INSTANCE ModuleText
          WITH Holders <- {"thread"},
               loaded  <- mpc # "unloaded",
               holders <- {h \in {"thread"} : tpc \notin {"none", "dead"}}

KTTextSpec == KTText!Spec
===============================================================================
