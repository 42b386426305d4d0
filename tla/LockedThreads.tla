---------------------------- MODULE LockedThreads ----------------------------
(* samples/threads_and_locks: simple_kthread.c, simple_spinlock.c and       *)
(* simple_rwlock.c.  Each module starts some kernel threads that loop: test *)
(* kthread_should_stop, sleep, enter a critical section (but for            *)
(* simple_kthread), and leave the loop there when a signal is pending.  The *)
(* exit of the module stops the threads one after the other.                *)
(*                                                                          *)
(* The samples differ in the number of threads, the lock, and the thread    *)
(* whose signal each of them tests.                                         *)
EXTENDS Naturals, Sequences

CONSTANTS
  N,         \* number of threads
  Lock,      \* Lock[t]: how t takes the lock: "none", "spin", "read", "write"
  Checks,    \* Checks[t]: the thread whose pending signal t looks at
  Signals,   \* a user may send SIGKILL to the threads
  MayFail    \* kthread_run may fail

Threads == 1 .. N

ASSUME LockedThreadsAssumption ==
  /\ N \in Nat \ {0} /\ Lock \in [1 .. N -> {"none", "spin", "read", "write"}]
  /\ Checks \in [1 .. N -> 1 .. N] /\ Signals \in BOOLEAN /\ MayFail \in BOOLEAN

VARIABLES
  mod,     \* unloaded, init, live, exit; oops when rmmod died
  nxt,     \* next thread to start, or to stop
  waits,   \* kthread_stop has asked thread nxt to stop and waits for it
  tpc,     \* position of each thread; failed is an ERR_PTR
  asked,   \* threads that were asked to stop
  killed,  \* threads with a pending SIGKILL
  freed,   \* threads whose task_struct is freed
  queue,   \* threads that wait for the lock, in the order they came
  held     \* threads that hold the lock

vars == <<mod, nxt, waits, tpc, asked, killed, freed, queue, held>>

Running == {"test", "sleep", "lock", "queued", "body", "unlock", "last_unlock"}

Init ==
  /\ mod = "unloaded" /\ nxt = 1 /\ waits = FALSE
  /\ tpc = [t \in Threads |-> "none"] /\ asked = {} /\ killed = {} /\ freed = {}
  /\ queue = <<>> /\ held = {}

-------------------------------------------------------------------------------
(* simple_module_init. *)
ModuleInit ==
  /\ mod = "unloaded" /\ mod' = "init" /\ nxt' = 1
  /\ tpc' = [t \in Threads |-> "none"]
  /\ asked' = {} /\ killed' = {} /\ freed' = {}
  /\ UNCHANGED <<waits, queue, held>>

KthreadRun ==
  /\ mod = "init"
  /\ \/ tpc' = [tpc EXCEPT ![nxt] = "test"]
     \/ MayFail /\ tpc' = [tpc EXCEPT ![nxt] = "failed"]
  /\ IF nxt = N THEN mod' = "live" /\ nxt' = 1
                ELSE mod' = "init" /\ nxt' = nxt + 1
  /\ UNCHANGED <<waits, asked, killed, freed, queue, held>>

-------------------------------------------------------------------------------
(* Mutant: the loop does not test kthread_should_stop. *)
LoopForever(t) ==
  /\ tpc[t] = "test" /\ tpc' = [tpc EXCEPT ![t] = "sleep"]
  /\ UNCHANGED <<mod, nxt, waits, asked, killed, freed, queue, held>>

(* thread_fn.  The five second sleep is not interruptible; the init of the  *)
(* module is over before the first of them ends.                            *)
TestStop(t) ==
  /\ tpc[t] = "test"
  /\ tpc' = [tpc EXCEPT ![t] = IF t \in asked THEN "do_exit" ELSE "sleep"]
  /\ UNCHANGED <<mod, nxt, waits, asked, killed, freed, queue, held>>

Wake(t) ==
  /\ tpc[t] = "sleep" /\ mod # "init"
  /\ tpc' = [tpc EXCEPT ![t] = IF Lock[t] = "none" THEN "body" ELSE "lock"]
  /\ UNCHANGED <<mod, nxt, waits, asked, killed, freed, queue, held>>

(* spin_lock, read_lock and write_lock queue their callers (qspinlock and   *)
(* qrwlock): a reader that comes after a waiting writer waits behind it.    *)
LockRequest(t) ==
  /\ tpc[t] = "lock" /\ queue' = Append(queue, t)
  /\ tpc' = [tpc EXCEPT ![t] = "queued"]
  /\ UNCHANGED <<mod, nxt, waits, asked, killed, freed, held>>

(* Mutant: the writer takes the lock for reading. *)
FreeForReading(t) == \A u \in held : Lock[u] = "read"

Available(t) ==
  IF Lock[t] = "read" THEN \A u \in held : Lock[u] = "read" ELSE held = {}

LockAcquire(t) ==
  /\ tpc[t] = "queued" /\ queue # <<>> /\ t = Head(queue) /\ Available(t)
  /\ queue' = Tail(queue) /\ held' = held \cup {t}
  /\ tpc' = [tpc EXCEPT ![t] = "body"]
  /\ UNCHANGED <<mod, nxt, waits, asked, killed, freed>>

(* signal_pending reads through the pointer that kthread_run returned: it   *)
(* faults on an ERR_PTR, and answers anything of a task_struct that was     *)
(* freed.                                                                   *)
Oopses(t) == tpc[Checks[t]] = "failed"
SignalSeen(t) == ~Oopses(t) /\ Checks[t] \in killed \cup freed
NoSignalSeen(t) ==
  ~Oopses(t) /\ (Checks[t] \notin killed \/ Checks[t] \in freed)

(* Mutant: the thread leaves its loop without unlocking. *)
BreakLocked(t) ==
  /\ tpc[t] = "body"
  /\ \/ SignalSeen(t) /\ tpc' = [tpc EXCEPT ![t] = "do_exit"]
     \/ NoSignalSeen(t)
          /\ tpc' = [tpc EXCEPT ![t] = IF Lock[t] = "none" THEN "test" ELSE "unlock"]
     \/ Oopses(t) /\ tpc' = [tpc EXCEPT ![t] = "do_exit"]
  /\ UNCHANGED <<mod, nxt, waits, asked, killed, freed, queue, held>>

(* The fault ends the thread where it is: the kernel calls do_exit for it,  *)
(* and the lock stays taken.                                                *)
Body(t) ==
  /\ tpc[t] = "body"
  /\ \/ /\ SignalSeen(t)
        /\ tpc' = [tpc EXCEPT ![t] = IF Lock[t] = "none" THEN "do_exit"
                                                         ELSE "last_unlock"]
     \/ /\ NoSignalSeen(t)
        /\ tpc' = [tpc EXCEPT ![t] = IF Lock[t] = "none" THEN "test" ELSE "unlock"]
     \/ Oopses(t) /\ tpc' = [tpc EXCEPT ![t] = "do_exit"]
  /\ UNCHANGED <<mod, nxt, waits, asked, killed, freed, queue, held>>

(* Mutant: the end of the loop body forgets to unlock. *)
UnlockForgotten(t) ==
  /\ tpc[t] \in {"unlock", "last_unlock"}
  /\ tpc' = [tpc EXCEPT ![t] = IF @ = "unlock" THEN "test" ELSE "do_exit"]
  /\ UNCHANGED <<mod, nxt, waits, asked, killed, freed, queue, held>>

Unlock(t) ==
  /\ tpc[t] \in {"unlock", "last_unlock"} /\ held' = held \ {t}
  /\ tpc' = [tpc EXCEPT ![t] = IF @ = "unlock" THEN "test" ELSE "do_exit"]
  /\ UNCHANGED <<mod, nxt, waits, asked, killed, freed, queue>>

(* do_exit, in the kernel's text, reports the end of the thread.  Nobody    *)
(* waits for a kernel thread as a parent does: its task_struct goes at      *)
(* once, unless kthread_stop holds it.                                      *)
DoExit(t) ==
  /\ tpc[t] = "do_exit" /\ tpc' = [tpc EXCEPT ![t] = "dead"]
  /\ UNCHANGED <<mod, nxt, waits, asked, killed, freed, queue, held>>

FreeTask(t) ==
  /\ tpc[t] = "dead" /\ t \notin freed /\ ~(waits /\ nxt = t)
  /\ freed' = freed \cup {t}
  /\ UNCHANGED <<mod, nxt, waits, tpc, asked, killed, queue, held>>

Thread(t) ==
  \/ TestStop(t) \/ Wake(t) \/ LockRequest(t) \/ LockAcquire(t)
  \/ Body(t) \/ Unlock(t) \/ DoExit(t)

Kill(t) ==
  /\ Signals /\ tpc[t] \in Running /\ killed' = killed \cup {t}
  /\ UNCHANGED <<mod, nxt, waits, tpc, asked, freed, queue, held>>

-------------------------------------------------------------------------------
(* simple_module_exit: kthread_stop for each thread in turn.  The pointer   *)
(* is never NULL; when it is an ERR_PTR or the task is gone, kthread_stop   *)
(* works on memory that is not a task_struct.                               *)
ModuleExit ==
  /\ mod = "live" /\ mod' = "exit"
  /\ UNCHANGED <<nxt, waits, tpc, asked, killed, freed, queue, held>>

KthreadStop ==
  /\ mod = "exit" /\ ~waits
  /\ IF tpc[nxt] = "failed" \/ nxt \in freed
     THEN mod' = "oops" /\ UNCHANGED <<waits, asked>>
     ELSE waits' = TRUE /\ asked' = asked \cup {nxt} /\ UNCHANGED mod
  /\ UNCHANGED <<nxt, tpc, killed, freed, queue, held>>

(* Mutant: kthread_stop returns before the thread has ended. *)
StopWithoutWait ==
  /\ mod = "exit" /\ waits /\ waits' = FALSE
  /\ IF nxt = N THEN mod' = "unloaded" /\ nxt' = 1
                ELSE nxt' = nxt + 1 /\ UNCHANGED mod
  /\ UNCHANGED <<tpc, asked, killed, freed, queue, held>>

KthreadStopped ==
  /\ mod = "exit" /\ waits /\ tpc[nxt] = "dead" /\ waits' = FALSE
  /\ IF nxt = N THEN mod' = "unloaded" /\ nxt' = 1
                ELSE nxt' = nxt + 1 /\ UNCHANGED mod
  /\ UNCHANGED <<tpc, asked, killed, freed, queue, held>>

Next ==
  \/ ModuleInit \/ KthreadRun
  \/ \E t \in Threads : Thread(t) \/ FreeTask(t) \/ Kill(t)
  \/ ModuleExit \/ KthreadStop \/ KthreadStopped

Spec == Init /\ [][Next]_vars

(* Threads are scheduled.  Nobody has to call rmmod or to send a signal.    *)
FairSpec ==
  /\ Spec
  /\ WF_vars(KthreadRun) /\ WF_vars(KthreadStop) /\ WF_vars(KthreadStopped)
  /\ \A t \in Threads : WF_vars(Thread(t))

-------------------------------------------------------------------------------
(* Type invariant. *)
TypeOK ==
  /\ mod \in {"unloaded", "init", "live", "exit", "oops"}
  /\ nxt \in Threads
  /\ waits \in BOOLEAN
  /\ tpc \in [Threads -> Running \cup {"none", "failed", "do_exit", "dead"}]
  /\ asked \subseteq Threads /\ killed \subseteq Threads
  /\ freed \subseteq Threads /\ held \subseteq Threads
  /\ queue \in Seq(Threads)

(* A thread inside its critical section shares it with readers only, and    *)
(* only if it is a reader itself.                                           *)
Inside(t) == Lock[t] # "none" /\ tpc[t] \in {"body", "unlock", "last_unlock"}

Exclusion ==
  \A t, u \in Threads :
    Inside(t) /\ Inside(u) /\ t # u => Lock[t] = "read" /\ Lock[u] = "read"

(* The lock is held by the threads in their critical section, and by no     *)
(* other thread but one that died there because the kthread_run whose       *)
(* result it looks at has failed: every way out of a loop gives the lock    *)
(* back (simple_spinlock.c:28, "Remember to unlock before returning out of  *)
(* a critical section").                                                    *)
DiedInside(t) == t \in held /\ Oopses(t) /\ tpc[t] \in {"do_exit", "dead"}

LockReleased ==
  /\ \A t \in Threads : Inside(t) => t \in held
  /\ \A t \in held : Inside(t) \/ DiedInside(t)

(* The task_struct whose signal a thread looks at exists. *)
ChecksExistingThreads ==
  \A t \in Threads : tpc[t] = "body" => Checks[t] \notin freed

(* No thread executes thread_fn after rmmod. *)
Text == INSTANCE ModuleText
          WITH Holders <- Threads,
               loaded  <- mod # "unloaded",
               holders <- {t \in Threads : tpc[t] \in Running}

TextSpec == Text!Spec

(* When all its threads have been started, rmmod stops them, wherever in    *)
(* their loops it finds them, unless one was killed and is gone when        *)
(* kthread_stop comes to it.                                                *)
AllStarted == \A t \in Threads : tpc[t] # "failed"

UnloadCompletes ==
  mod = "exit" /\ AllStarted
    ~> mod = "unloaded" \/ (mod = "oops" /\ nxt \in freed)

(* Whoever waits for the lock gets it, reader or writer, unless a thread    *)
(* died inside: no way out of a loop keeps the lock and no stream of        *)
(* readers overtakes a writer.                                              *)
RequestsGranted ==
  \A t \in Threads :
    tpc[t] = "queued" ~> tpc[t] = "body" \/ \E u \in Threads : DiedInside(u)
===============================================================================
