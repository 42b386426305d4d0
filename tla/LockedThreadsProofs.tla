------------------------- MODULE LockedThreadsProofs -------------------------
(* Proofs about LockedThreads, for any number of threads, any mix of locks  *)
(* and any thread each of them checks.                                      *)
EXTENDS LockedThreads, SequenceTheorems, TLAPS

(* A thread that uses no lock never queues for one or gives one back.       *)
NoLockNoUse ==
  \A t \in Threads :
    tpc[t] \in {"lock", "queued", "unlock", "last_unlock"} => Lock[t] # "none"

(* No thread runs when the module is loaded, none of them failed to start   *)
(* the last time (kthread_stop would have died on it), and init starts      *)
(* those from nxt on.                                                       *)
Over(t) == tpc[t] \notin Running /\ tpc[t] # "failed"

OrderInv ==
  /\ mod = "unloaded" => \A t \in Threads : Over(t)
  /\ mod = "init" => \A t \in Threads : t >= nxt => tpc[t] = "none"
  /\ mod = "exit" => \A t \in Threads : t < nxt => Over(t)
  /\ mod \in {"unloaded", "live"} => nxt = 1
  /\ waits => mod = "exit"

(* The invariant is that of the lock, with two facts that make it           *)
(* inductive: NoLockNoUse, since a thread takes or gives back the lock only *)
(* where Lock says it has one, and OrderInv, since KthreadRun and           *)
(* ModuleInit overwrite the position of a thread that must not run.         *)
IInv == TypeOK /\ LockReleased /\ Exclusion /\ NoLockNoUse /\ OrderInv

(* Threads are numbered from 1 to N.                                        *)
LEMMA NextThread ==
  /\ 1 \in Threads
  /\ \A t \in Threads : t # N => t + 1 \in Threads
  /\ \A t, u \in Threads : (t >= u + 1 => t >= u) /\ (t < u + 1 => t <= u)
BY LockedThreadsAssumption DEF LockedThreadsAssumption, Threads

LEMMA InitIInv == Init => IInv
<1> SUFFICES ASSUME Init PROVE IInv
  OBVIOUS
<1> USE LockedThreadsAssumption DEF LockedThreadsAssumption, Init
<1>1. TypeOK
  <2>1. 1 \in Threads /\ queue \in Seq(Threads)
    BY EmptySeq DEF Threads
  <2>2. QED
    BY <2>1 DEF TypeOK, Running
<1>2. LockReleased /\ Exclusion
  BY DEF LockReleased, DiedInside, Exclusion, Inside
<1>3. NoLockNoUse /\ OrderInv
  BY DEF NoLockNoUse, OrderInv, Over, Running, Threads
<1>4. QED
  BY <1>1, <1>2, <1>3 DEF IInv

(* What each step does, thread steps first. *)
LEMMA TypeStep == IInv /\ [Next]_vars => TypeOK'
<1> SUFFICES ASSUME TypeOK, OrderInv, [Next]_vars PROVE TypeOK'
  BY DEF IInv
<1> USE LockedThreadsAssumption DEF LockedThreadsAssumption, TypeOK, Running
<1>1. CASE ModuleInit
  BY <1>1 DEF ModuleInit, Threads
<1>2. CASE KthreadRun
  <2>1. nxt' \in Threads
    BY <1>2, NextThread DEF KthreadRun
  <2>2. tpc' \in [Threads -> Running \cup {"none", "failed", "do_exit", "dead"}]
    BY <1>2 DEF KthreadRun
  <2>3. QED
    BY <1>2, <2>1, <2>2 DEF KthreadRun
<1>3. ASSUME NEW t \in Threads, Thread(t)
      PROVE  TypeOK'
  <2>1. CASE TestStop(t)
    BY <2>1 DEF TestStop
  <2>2. CASE Wake(t)
    BY <2>2 DEF Wake
  <2>3. CASE LockRequest(t)
    <3>1. queue' \in Seq(Threads)
      BY <2>3, AppendProperties DEF LockRequest
    <3>2. QED
      BY <2>3, <3>1 DEF LockRequest
  <2>4. CASE LockAcquire(t)
    <3>1. queue' \in Seq(Threads)
      BY <2>4, HeadTailProperties DEF LockAcquire
    <3>2. QED
      BY <2>4, <3>1 DEF LockAcquire
  <2>5. CASE Body(t)
    BY <2>5 DEF Body
  <2>6. CASE Unlock(t)
    BY <2>6 DEF Unlock
  <2>7. CASE DoExit(t)
    BY <2>7 DEF DoExit
  <2>8. QED
    BY <1>3, <2>1, <2>2, <2>3, <2>4, <2>5, <2>6, <2>7 DEF Thread
<1>4. ASSUME NEW t \in Threads, FreeTask(t)
      PROVE  TypeOK'
  BY <1>4 DEF FreeTask
<1>5. ASSUME NEW t \in Threads, Kill(t)
      PROVE  TypeOK'
  BY <1>5 DEF Kill
<1>6. CASE ModuleExit
  BY <1>6 DEF ModuleExit
<1>7. CASE KthreadStop
  BY <1>7 DEF KthreadStop
<1>8. CASE KthreadStopped
  <2>1. nxt' \in Threads
    BY <1>8, NextThread DEF KthreadStopped
  <2>2. QED
    BY <1>8, <2>1 DEF KthreadStopped
<1>9. CASE UNCHANGED vars
  BY <1>9 DEF vars
<1>10. QED
  BY <1>1, <1>2, <1>3, <1>4, <1>5, <1>6, <1>7, <1>8, <1>9 DEF Next

(* A step of a thread keeps a thread that is over from running: rmmod never *)
(* has to come back to one it has passed; and it fails or revives nobody.   *)
LEMMA ThreadRuns ==
  ASSUME TypeOK, NEW t \in Threads, Thread(t)
  PROVE  /\ UNCHANGED <<mod, nxt, waits>>
         /\ \A u \in Threads : Over(u) => Over(u)'
         /\ \A u \in Threads : tpc[u] = "failed" <=> tpc'[u] = "failed"
         /\ \A u \in Threads : tpc[u] = "none" => tpc'[u] = "none"
<1> USE DEF TypeOK, Running, Over
<1>1. CASE TestStop(t)
  BY <1>1 DEF TestStop
<1>2. CASE Wake(t)
  BY <1>2 DEF Wake
<1>3. CASE LockRequest(t)
  BY <1>3 DEF LockRequest
<1>4. CASE LockAcquire(t)
  BY <1>4 DEF LockAcquire
<1>5. CASE Body(t)
  BY <1>5 DEF Body
<1>6. CASE Unlock(t)
  BY <1>6 DEF Unlock
<1>7. CASE DoExit(t)
  BY <1>7 DEF DoExit
<1>8. QED
  BY <1>1, <1>2, <1>3, <1>4, <1>5, <1>6, <1>7 DEF Thread

(* The lock is held by those inside and by those who died inside, because   *)
(* each way in takes it and each way out, but for the fault, gives it back; *)
(* a thread gets in only beside readers.                                    *)
LEMMA LockStep == IInv /\ [Next]_vars => LockReleased' /\ Exclusion'
<1> SUFFICES ASSUME TypeOK, LockReleased, Exclusion, NoLockNoUse, OrderInv,
                    [Next]_vars
             PROVE  LockReleased' /\ Exclusion'
  BY DEF IInv
<1> USE DEF TypeOK, LockReleased, Exclusion, Inside
<1>a. \A t \in Threads : Checks[t] \in Threads
  BY LockedThreadsAssumption DEF LockedThreadsAssumption, Threads
<1>1. CASE UNCHANGED <<tpc, held>>
  BY <1>1 DEF DiedInside, Oopses
<1>2. CASE ModuleInit
  <2>1. \A t \in Threads : Over(t)
    BY <1>2 DEF ModuleInit, OrderInv
  <2>2. held = {}
    BY <2>1, <1>a DEF DiedInside, Oopses, Over, Running
  <2>3. QED
    BY <1>2, <2>2 DEF ModuleInit
<1>3. CASE KthreadRun
  <2>1. tpc[nxt] = "none"
    BY <1>3, LockedThreadsAssumption DEF LockedThreadsAssumption, KthreadRun, OrderInv, Threads
  <2>2. \A t \in Threads : Inside(t)' <=> Inside(t)
    BY <1>3, <2>1 DEF KthreadRun
  <2>3. \A t \in held : DiedInside(t) => DiedInside(t)'
    BY <1>3, <2>1, <1>a DEF KthreadRun, DiedInside, Oopses
  <2>4. held' = held
    BY <1>3 DEF KthreadRun
  <2>5. QED
    BY <2>2, <2>3, <2>4
<1>4. ASSUME NEW t \in Threads, Thread(t)
      PROVE  LockReleased' /\ Exclusion'
  <2>a. \A u \in Threads : Oopses(u)' <=> Oopses(u)
    BY <1>4, <1>a, ThreadRuns DEF Oopses
  <2>b. ASSUME held' = held,
               \A u \in Threads : Inside(u)' <=> Inside(u),
               \A u \in held : tpc[u] \in {"do_exit", "dead"}
                                 => tpc'[u] \in {"do_exit", "dead"}
        PROVE  LockReleased' /\ Exclusion'
    <3>1. \A u \in held : DiedInside(u) => DiedInside(u)'
      BY <2>a, <2>b DEF DiedInside
    <3>2. QED
      BY <2>b, <3>1
  <2>1. CASE TestStop(t)
    BY <2>1, <2>b DEF TestStop
  <2>2. CASE Wake(t)
    BY <2>2, <2>b DEF Wake
  <2>3. CASE LockRequest(t)
    BY <2>3, <2>b DEF LockRequest
  <2>4. CASE LockAcquire(t)
    <3>1. Lock[t] # "none"
      BY <2>4 DEF LockAcquire, NoLockNoUse
    <3>2. /\ Inside(t)'
          /\ \A u \in Threads \ {t} : Inside(u)' <=> Inside(u)
      BY <2>4, <3>1 DEF LockAcquire
    <3>3. \A u \in held : DiedInside(u) => DiedInside(u)'
      BY <2>4, <2>a DEF LockAcquire, DiedInside
    <3>4. LockReleased'
      BY <2>4, <3>2, <3>3 DEF LockAcquire
    <3>5. \A u \in held : Lock[t] = "read" /\ Lock[u] = "read"
      BY <2>4 DEF LockAcquire, Available
    <3>6. Exclusion'
      BY <3>2, <3>5
    <3>7. QED
      BY <3>4, <3>6
  <2>5. CASE Body(t)
    <3>1. CASE Oopses(t) /\ Lock[t] # "none"
      <4>1. tpc' = [tpc EXCEPT ![t] = "do_exit"] /\ held' = held
        BY <2>5, <3>1 DEF Body, SignalSeen, NoSignalSeen
      <4>2. \A u \in held \ {t} : DiedInside(u) => DiedInside(u)'
        BY <4>1, <2>a DEF DiedInside
      <4>3. t \in held => DiedInside(t)'
        BY <4>1, <3>1, <2>a DEF DiedInside
      <4>4. ~Inside(t)' /\ \A u \in Threads \ {t} : Inside(u)' <=> Inside(u)
        BY <4>1
      <4>5. LockReleased'
        BY <4>1, <4>2, <4>3, <4>4
      <4>6. Exclusion'
        BY <4>4
      <4>7. QED
        BY <4>5, <4>6
    <3>2. CASE ~(Oopses(t) /\ Lock[t] # "none")
      <4>1. \A u \in Threads : Inside(u)' <=> Inside(u)
        BY <2>5, <3>2 DEF Body
      <4>2. QED
        BY <2>5, <4>1, <2>b DEF Body
    <3>3. QED
      BY <3>1, <3>2
  <2>6. CASE Unlock(t)
    <3>1. /\ ~Inside(t)'
          /\ \A u \in Threads \ {t} : Inside(u)' <=> Inside(u)
      BY <2>6 DEF Unlock
    <3>2. \A u \in held' : DiedInside(u) => DiedInside(u)'
      BY <2>6, <2>a DEF Unlock, DiedInside
    <3>3. QED
      BY <2>6, <3>1, <3>2 DEF Unlock
  <2>7. CASE DoExit(t)
    BY <2>7, <2>b DEF DoExit
  <2>8. QED
    BY <1>4, <2>1, <2>2, <2>3, <2>4, <2>5, <2>6, <2>7 DEF Thread
<1>5. ASSUME NEW t \in Threads, FreeTask(t) \/ Kill(t)
      PROVE  LockReleased' /\ Exclusion'
  BY <1>1, <1>5 DEF FreeTask, Kill
<1>6. CASE ModuleExit \/ KthreadStop \/ KthreadStopped
  BY <1>1, <1>6 DEF ModuleExit, KthreadStop, KthreadStopped
<1>7. CASE UNCHANGED vars
  BY <1>1, <1>7 DEF vars
<1>8. QED
  BY <1>2, <1>3, <1>4, <1>5, <1>6, <1>7 DEF Next

LEMMA UseStep == IInv /\ [Next]_vars => NoLockNoUse'
<1> SUFFICES ASSUME TypeOK, NoLockNoUse, [Next]_vars PROVE NoLockNoUse'
  BY DEF IInv
<1> USE DEF TypeOK, NoLockNoUse
<1>1. CASE UNCHANGED tpc
  BY <1>1
<1>2. CASE ModuleInit
  BY <1>2 DEF ModuleInit
<1>3. CASE KthreadRun
  BY <1>3 DEF KthreadRun
<1>4. ASSUME NEW t \in Threads, Thread(t)
      PROVE  NoLockNoUse'
  <2>1. CASE TestStop(t)
    BY <2>1 DEF TestStop
  <2>2. CASE Wake(t)
    BY <2>2 DEF Wake
  <2>3. CASE LockRequest(t)
    BY <2>3 DEF LockRequest
  <2>4. CASE LockAcquire(t)
    BY <2>4 DEF LockAcquire
  <2>5. CASE Body(t)
    BY <2>5 DEF Body
  <2>6. CASE Unlock(t)
    BY <2>6 DEF Unlock
  <2>7. CASE DoExit(t)
    BY <2>7 DEF DoExit
  <2>8. QED
    BY <1>4, <2>1, <2>2, <2>3, <2>4, <2>5, <2>6, <2>7 DEF Thread
<1>5. ASSUME NEW t \in Threads, FreeTask(t) \/ Kill(t)
      PROVE  NoLockNoUse'
  BY <1>1, <1>5 DEF FreeTask, Kill
<1>6. CASE ModuleExit \/ KthreadStop \/ KthreadStopped
  BY <1>1, <1>6 DEF ModuleExit, KthreadStop, KthreadStopped
<1>7. CASE UNCHANGED vars
  BY <1>1, <1>7 DEF vars
<1>8. QED
  BY <1>2, <1>3, <1>4, <1>5, <1>6, <1>7 DEF Next

LEMMA OrderStep == IInv /\ [Next]_vars => OrderInv'
<1> SUFFICES ASSUME TypeOK, OrderInv, [Next]_vars PROVE OrderInv'
  BY DEF IInv
<1>1. CASE UNCHANGED <<mod, nxt, waits, tpc>>
  BY <1>1 DEF OrderInv, Over, Running
<1>2. CASE ModuleInit
  BY <1>2 DEF ModuleInit, OrderInv, Over, Running
<1>3. CASE KthreadRun
  <2>1. ~waits /\ ~waits'
    BY <1>3 DEF KthreadRun, OrderInv
  <2>2. CASE nxt = N
    BY <1>3, <2>1, <2>2 DEF KthreadRun, OrderInv
  <2>3. CASE nxt # N
    <3>1. mod' = "init" /\ nxt' = nxt + 1
      BY <1>3, <2>3 DEF KthreadRun
    <3>2. \A t \in Threads : t >= nxt + 1 => t >= nxt /\ t # nxt
      BY DEF TypeOK, Threads
    <3>3. \A t \in Threads : t >= nxt' => tpc'[t] = "none"
      BY <1>3, <3>1, <3>2 DEF KthreadRun, OrderInv, TypeOK
    <3>4. QED
      BY <2>1, <3>1, <3>3 DEF OrderInv
  <2>4. QED
    BY <2>2, <2>3
<1>4. ASSUME NEW t \in Threads, Thread(t)
      PROVE  OrderInv'
  <2> UNCHANGED <<mod, nxt, waits>>
    BY <1>4, ThreadRuns
  <2>1. \A u \in Threads : Over(u) => Over(u)'
    BY <1>4, ThreadRuns
  <2>2. \A u \in Threads : tpc[u] = "none" => tpc'[u] = "none"
    BY <1>4, ThreadRuns
  <2>3. QED
    BY <2>1, <2>2 DEF OrderInv
<1>5. ASSUME NEW t \in Threads, FreeTask(t) \/ Kill(t)
      PROVE  OrderInv'
  BY <1>1, <1>5 DEF FreeTask, Kill
<1>6. CASE ModuleExit
  BY <1>6, LockedThreadsAssumption DEF LockedThreadsAssumption, ModuleExit, OrderInv, Threads
<1>7. CASE KthreadStop
  BY <1>7 DEF KthreadStop, OrderInv, Over
<1>8. CASE KthreadStopped
  <2>1. ~waits' /\ tpc' = tpc /\ mod = "exit" /\ Over(nxt)
    BY <1>8 DEF KthreadStopped, Over, Running
  <2>2. \A t \in Threads : t <= nxt => Over(t)
    BY <2>1, LockedThreadsAssumption DEF LockedThreadsAssumption, OrderInv, TypeOK, Threads
  <2>3. CASE nxt = N
    BY <1>8, <2>1, <2>2, <2>3, LockedThreadsAssumption
       DEF LockedThreadsAssumption, KthreadStopped, OrderInv, Over, Threads
  <2>4. CASE nxt # N
    <3>1. mod' = "exit" /\ nxt' = nxt + 1
      BY <1>8, <2>4 DEF KthreadStopped
    <3>2. \A t \in Threads : t < nxt' => Over(t)'
      BY <2>1, <2>2, <3>1, LockedThreadsAssumption
         DEF LockedThreadsAssumption, Over, TypeOK, Threads
    <3>3. QED
      BY <2>1, <3>1, <3>2 DEF OrderInv
  <2>5. QED
    BY <2>3, <2>4
<1>9. CASE UNCHANGED vars
  BY <1>1, <1>9 DEF vars
<1>10. QED
  BY <1>2, <1>3, <1>4, <1>5, <1>6, <1>7, <1>8, <1>9 DEF Next

LEMMA Invariance == Spec => []IInv
<1>1. IInv /\ [Next]_vars => IInv'
  BY TypeStep, LockStep, UseStep, OrderStep DEF IInv
<1>2. QED
  BY InitIInv, <1>1, PTL DEF Spec

(* Two threads are inside together only if both are readers, whatever mix   *)
(* of spin, read and write locks the threads use, and with SIGKILL, failed  *)
(* kthread_run and rmmod at any moment.                                     *)
THEOREM LockExcludes == Spec => []Exclusion
<1>1. IInv => Exclusion
  BY DEF IInv
<1>2. QED
  BY Invariance, <1>1, PTL

(* No thread leaves its loop with the lock, on the way through break or     *)
(* through the loop's test; only a fault on the ERR_PTR of a failed         *)
(* kthread_run ends a thread that has it.                                   *)
THEOREM LockIsReturned == Spec => []LockReleased
<1>1. IInv => LockReleased
  BY DEF IInv
<1>2. QED
  BY Invariance, <1>1, PTL
-------------------------------------------------------------------------------
(* Refinement of ModuleText: a thread that starts to run acquires the       *)
(* module's text, one that calls do_exit releases it.                       *)
TextStep == [Text!Next]_Text!textVars
TextHolders == {t \in Threads : tpc[t] \in Running}

LEMMA HolderMoves ==
  ASSUME mod # "unloaded", mod' # "unloaded",
         NEW t \in Threads,
         \A u \in Threads \ {t} : tpc'[u] \in Running <=> tpc[u] \in Running
  PROVE  TextStep
<1>1. CASE tpc'[t] \in Running
  <2>1. TextHolders' = TextHolders \cup {t}
    BY <1>1 DEF TextHolders
  <2>2. QED
    BY <2>1 DEF TextStep, TextHolders, Text!Next, Text!Acquire
<1>2. CASE tpc'[t] \notin Running
  <2>1. TextHolders' = TextHolders \ {t}
    BY <1>2 DEF TextHolders
  <2>2. QED
    BY <2>1 DEF TextStep, TextHolders, Text!Next, Text!Release
<1>3. QED
  BY <1>1, <1>2

LEMMA ThreadMoves ==
  ASSUME TypeOK, OrderInv, NEW t \in Threads, Thread(t)
  PROVE  TextStep
<1>1. tpc[t] \in Running \cup {"do_exit"} /\ UNCHANGED mod
  BY DEF Thread, TestStop, Wake, LockRequest, LockAcquire, Body, Unlock, DoExit,
         Running
<1>2. \A u \in Threads \ {t} : tpc'[u] = tpc[u]
  <2>1. CASE TestStop(t)
    BY <2>1 DEF TestStop, TypeOK
  <2>2. CASE Wake(t)
    BY <2>2 DEF Wake, TypeOK
  <2>3. CASE LockRequest(t)
    BY <2>3 DEF LockRequest, TypeOK
  <2>4. CASE LockAcquire(t)
    BY <2>4 DEF LockAcquire, TypeOK
  <2>5. CASE Body(t)
    BY <2>5 DEF Body, TypeOK
  <2>6. CASE Unlock(t)
    BY <2>6 DEF Unlock, TypeOK
  <2>7. CASE DoExit(t)
    BY <2>7 DEF DoExit, TypeOK
  <2>8. QED
    BY <2>1, <2>2, <2>3, <2>4, <2>5, <2>6, <2>7 DEF Thread
<1>3. CASE mod = "unloaded"
  <2>1. tpc[t] = "do_exit"
    BY <1>1, <1>3 DEF OrderInv, Over
  <2>2. DoExit(t)
    BY <2>1 DEF Thread, TestStop, Wake, LockRequest, LockAcquire, Body, Unlock,
                DoExit
  <2>3. \A u \in Threads : tpc'[u] \in Running <=> tpc[u] \in Running
    BY <1>2, <2>2 DEF DoExit, Running, TypeOK
  <2>4. QED
    BY <1>1, <2>3 DEF TextStep, Text!textVars
<1>4. CASE mod # "unloaded"
  BY <1>1, <1>2, <1>4, HolderMoves
<1>5. QED
  BY <1>3, <1>4

LEMMA TextNext == IInv /\ [Next]_vars => TextStep
<1> SUFFICES ASSUME TypeOK, OrderInv, [Next]_vars PROVE TextStep
  BY DEF IInv
<1>1. ASSUME UNCHANGED <<mod, tpc>>
      PROVE  TextStep
  BY <1>1 DEF TextStep, Text!textVars
<1>2. CASE ModuleInit
  <2>1. TextHolders = {} /\ TextHolders' = {}
    BY <1>2 DEF ModuleInit, TextHolders, OrderInv, Over, Running
  <2>2. mod = "unloaded" /\ mod' = "init"
    BY <1>2 DEF ModuleInit
  <2>3. QED
    BY <2>1, <2>2 DEF TextStep, TextHolders, Text!Next, Text!Insmod
<1>3. CASE KthreadRun
  <2>1. mod # "unloaded" /\ mod' # "unloaded" /\ nxt \in Threads
    BY <1>3 DEF KthreadRun, TypeOK
  <2>2. \A u \in Threads \ {nxt} : tpc'[u] \in Running <=> tpc[u] \in Running
    BY <1>3 DEF KthreadRun, TypeOK
  <2>3. QED
    BY <2>1, <2>2, HolderMoves
<1>4. ASSUME NEW t \in Threads, Thread(t)
      PROVE  TextStep
  BY <1>4, ThreadMoves
<1>5. ASSUME NEW t \in Threads, FreeTask(t) \/ Kill(t)
      PROVE  TextStep
  BY <1>1, <1>5 DEF FreeTask, Kill
<1>6. CASE ModuleExit \/ KthreadStop
  BY <1>6 DEF ModuleExit, KthreadStop, TextStep, Text!textVars
<1>7. CASE KthreadStopped
  <2>1. mod = "exit" /\ tpc' = tpc /\ tpc[nxt] \notin Running
    BY <1>7 DEF KthreadStopped, Running
  <2>2. CASE nxt = N
    <3>1. mod' = "unloaded"
      BY <1>7, <2>2 DEF KthreadStopped
    <3>2. \A t \in Threads : t < N \/ t = N
      BY LockedThreadsAssumption DEF LockedThreadsAssumption, Threads
    <3>3. TextHolders = {} /\ TextHolders' = TextHolders
      BY <2>1, <2>2, <3>2 DEF TextHolders, OrderInv, Over
    <3>4. QED
      BY <2>1, <3>1, <3>3 DEF TextStep, TextHolders, Text!Next, Text!Unload
  <2>3. CASE nxt # N
    BY <1>7, <1>1, <2>3 DEF KthreadStopped
  <2>4. QED
    BY <2>2, <2>3
<1>8. CASE UNCHANGED vars
  BY <1>1, <1>8 DEF vars
<1>9. QED
  BY <1>2, <1>3, <1>4, <1>5, <1>6, <1>7, <1>8 DEF Next

(* rmmod of any of the samples returns only when no thread is left inside   *)
(* thread_fn, with failed threads, threads that left on a signal, and       *)
(* kthread_stop of a freed task (after which rmmod never returns) included. *)
THEOREM NothingRunsAfterRmmod == Spec => TextSpec
<1>1. Init => Text!Init
  BY DEF Init, Text!Init, Running
<1>2. QED
  BY <1>1, TextNext, Invariance, PTL
     DEF Spec, TextSpec, Text!Spec, TextStep
===============================================================================
