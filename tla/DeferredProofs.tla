---------------------------- MODULE DeferredProofs ----------------------------
(* Proofs about Deferred, for any callers, processes and allocations.       *)
EXTENDS Deferred, FiniteSetTheorems, TLAPS

(* Position and local variables of an ioctl agree; the entry a list_add is  *)
(* about to link is not an ERR_PTR and the head it has read is current.     *)
CallerInv ==
  \A c \in Callers :
    /\ proc[c] = NULL <=> cpc[c] \notin {"lock", "list_add", "link"}
    /\ cpc[c] = "link" => proc[c] # ErrPtr /\ view[c] = process_list
    /\ cpc[c] = "get_task" => target[c] \in Tasks

(* Only a traversal under the lock has entries left to visit, and the one   *)
(* of deferred_exit has yet to visit all that is listed.                    *)
WalkInv ==
  /\ mpc # "walk" => todo["mon"] = {}
  /\ mod # "walk" => todo["exit"] = {}
  /\ mod = "walk" => process_list \subseteq todo["exit"]

DanglingInv == \A p \in dangling : task[p] # NULL

UnloadedInv == mod = "unloaded" => lock = "free"

IInv ==
  /\ TypeOK
  /\ LockOwned
  /\ EntriesOwned
  /\ CursorSafe
  /\ UsageExact
  /\ TornDown
  /\ CallerInv
  /\ WalkInv
  /\ DanglingInv
  /\ UnloadedInv

-------------------------------------------------------------------------------
(* What the timer handler, the sleeping work and the monitored processes    *)
(* leave alone.                                                             *)
LEMMA HandlerFrame ==
  Handler => UNCHANGED <<mod, flag, iopc, mpc, listVars, life, callerVars>>
BY DEF Handler, Expire, TestSet, TestAlloc, TestMon, HandlerModTimer, timerVars,
       workVars, listVars, callerVars

LEMMA IoWorkFrame ==
  IoWork => UNCHANGED <<mod, timerVars, mpc, listVars, life, callerVars>>
BY DEF IoWork, IoStart, IoDone, timerVars, workVars, listVars, callerVars

LEMMA TaskFrame ==
  ASSUME NEW t \in Tasks, TaskExit(t) \/ TaskRelease(t)
  PROVE  UNCHANGED <<mod, timerVars, workVars, listVars, callerVars>>
BY DEF TaskExit, TaskRelease

(* A visit of a traversal moves nothing but the list and its cursor. *)
LEMMA VisitFrame ==
  ASSUME NEW w \in Walkers, NEW p \in todo[w], Reap(w, p) \/ Skip(w, p)
  PROVE  UNCHANGED lock
BY DEF Reap, Unlinked, Visited, Put, Skip

-------------------------------------------------------------------------------
LEMMA InitIInv == Init => IInv
<1> SUFFICES ASSUME Init PROVE IInv
  OBVIOUS
<1> USE DeferredAssumption DEF Init
<1>1. TypeOK
  BY DEF TypeOK, Flags, Works, Walkers, Loaded
<1>2. LockOwned
  BY DEF LockOwned
<1>3. EntriesOwned
  BY DEF EntriesOwned, Carries
<1>4. CursorSafe /\ WalkInv
  BY DEF CursorSafe, WalkInv, Walkers
<1>5. UsageExact
  <2> SUFFICES ASSUME NEW t \in Tasks PROVE Cardinality(Pins(t)) = 0
    BY DEF UsageExact
  <2>1. Pins(t) = {}
    BY DEF Pins
  <2>2. QED
    BY <2>1, FS_EmptySet
<1>6. TornDown /\ CallerInv /\ DanglingInv /\ UnloadedInv
  BY DEF TornDown, CallerInv, DanglingInv, UnloadedInv, Holding, Exiting
<1>7. QED
  BY <1>1, <1>2, <1>3, <1>4, <1>5, <1>6 DEF IInv

-------------------------------------------------------------------------------
(* The spinlock: the context between spin_lock and spin_unlock is the       *)
(* holder.                                                                  *)
LEMMA LockStep == IInv /\ [Next]_vars => LockOwned'
<1> SUFFICES ASSUME IInv, [Next]_vars PROVE LockOwned'
  OBVIOUS
<1> USE DeferredAssumption
<1> USE DEF IInv, TypeOK, LockOwned
<1>1. CASE UNCHANGED <<mod, mpc, lock, cpc>>
  BY <1>1
<1>2. CASE DeferredInit
  BY <1>2 DEF DeferredInit, UnloadedInv, workVars, callerVars
<1>3. CASE TimerSetup \/ Rmmod
  BY <1>3 DEF TimerSetup, Rmmod, workVars, callerVars, listVars
<1>4. ASSUME NEW c \in Callers, Open(c) \/ Release(c)
      PROVE  LockOwned'
  BY <1>4 DEF Open, Release, workVars, listVars
<1>5. ASSUME NEW c \in Callers, Ioctl(c)
      PROVE  LockOwned'
  <2>1. CASE \E f \in {"SET", "ALLOC"} : IoctlFlag(c, f)
    BY <2>1 DEF IoctlFlag, workVars, listVars
  <2>2. CASE IoctlCancel(c)
    BY <2>2 DEF IoctlCancel, workVars, listVars, callerVars
  <2>3. CASE GetProcLookup(c) \/ GetProcPin(c) \/ GetProcNoMem(c)
    BY <2>3 DEF GetProcLookup, GetProcPin, Got, GetProcNoMem, workVars, listVars
  <2>4. CASE IoctlLock(c)
    BY <2>4 DEF IoctlLock, workVars
  <2>5. CASE IoctlListAdd(c) \/ IoctlListAddOops(c)
    BY <2>5 DEF IoctlListAdd, IoctlListAddOops, workVars, listVars
  <2>6. CASE IoctlLink(c)
    BY <2>6 DEF IoctlLink, workVars
  <2>7. CASE IoctlFlagMon(c) \/ IoctlModTimer(c)
    BY <2>7 DEF IoctlFlagMon, IoctlModTimer, workVars, listVars
  <2>8. QED
    BY <1>5, <2>1, <2>2, <2>3, <2>4, <2>5, <2>6, <2>7 DEF Ioctl
<1>6. CASE MonWork
  <2>1. CASE MonStart \/ MonVisit
    BY <2>1 DEF MonStart, MonVisit, Reap, Unlinked, Visited, Put, Skip,
                workVars, listVars, callerVars
  <2>2. CASE MonLock \/ MonUnlock
    BY <2>2 DEF MonLock, MonUnlock, callerVars
  <2>3. QED
    BY <1>6, <2>1, <2>2 DEF MonWork
<1>7. CASE DeferredExit
  <2>1. CASE ExitDelTimerSync \/ ExitFlushIo \/ ExitFlushMon
    BY <2>1 DEF ExitDelTimerSync, ExitFlushIo, ExitFlushMon, workVars, listVars,
                callerVars
  <2>2. CASE ExitLock \/ ExitUnlock
    BY <2>2 DEF ExitLock, ExitUnlock, workVars, callerVars
  <2>3. CASE ExitVisit
    BY <2>3 DEF ExitVisit, Reap, Unlinked, Visited, Put, workVars, callerVars
  <2>4. QED
    BY <1>7, <2>1, <2>2, <2>3 DEF DeferredExit
<1>8. CASE Handler
  BY <1>8, <1>1, HandlerFrame DEF listVars, callerVars
<1>9. CASE IoWork
  BY <1>9, <1>1, IoWorkFrame DEF listVars, callerVars
<1>10. ASSUME NEW t \in Tasks, TaskExit(t) \/ TaskRelease(t)
       PROVE  LockOwned'
  BY <1>10, <1>1, TaskFrame DEF workVars, listVars, callerVars
<1>11. CASE UNCHANGED vars
  BY <1>1, <1>11 DEF vars
<1>12. QED
  BY <1>2, <1>3, <1>4, <1>5, <1>6, <1>7, <1>8, <1>9, <1>10, <1>11 DEF Next
-------------------------------------------------------------------------------
(* Position of an ioctl, its local variables, and the head of the list that *)
(* its list_add has read: nobody else links or unlinks meanwhile.           *)
LEMMA CallerStep == IInv /\ [Next]_vars => CallerInv'
<1> SUFFICES ASSUME IInv, [Next]_vars PROVE CallerInv'
  OBVIOUS
<1> USE DeferredAssumption
<1> USE DEF IInv, TypeOK, CallerInv
<1>1. CASE UNCHANGED <<process_list, callerVars>>
  BY <1>1 DEF callerVars
<1>2. CASE DeferredInit
  BY <1>2 DEF DeferredInit, TornDown, callerVars
<1>3. CASE TimerSetup \/ Rmmod
  BY <1>3, <1>1 DEF TimerSetup, Rmmod, listVars
<1>4. ASSUME NEW c \in Callers, Open(c) \/ Release(c)
      PROVE  CallerInv'
  BY <1>4 DEF Open, Release, listVars
<1>5. ASSUME NEW c \in Callers, Ioctl(c)
      PROVE  CallerInv'
  <2>1. CASE \E f \in {"SET", "ALLOC"} : IoctlFlag(c, f)
    BY <2>1 DEF IoctlFlag, listVars
  <2>2. CASE IoctlCancel(c)
    BY <2>2 DEF IoctlCancel, listVars, callerVars
  <2>3. CASE GetProcLookup(c)
    BY <2>3 DEF GetProcLookup, listVars
  <2>4. CASE GetProcPin(c)
    BY <2>4 DEF GetProcPin, Got
  <2>5. CASE GetProcNoMem(c)
    BY <2>5 DEF GetProcNoMem, listVars
  <2>6. CASE IoctlLock(c)
    BY <2>6 DEF IoctlLock
  <2>7. CASE IoctlListAdd(c) \/ IoctlListAddOops(c)
    BY <2>7 DEF IoctlListAdd, IoctlListAddOops, listVars
  <2>8. CASE IoctlLink(c)
    BY <2>8 DEF IoctlLink, LockOwned
  <2>9. CASE IoctlFlagMon(c) \/ IoctlModTimer(c)
    BY <2>9 DEF IoctlFlagMon, IoctlModTimer, listVars
  <2>10. QED
    BY <1>5, <2>1, <2>2, <2>3, <2>4, <2>5, <2>6, <2>7, <2>8, <2>9 DEF Ioctl
<1>6. CASE MonWork
  <2>1. CASE MonStart \/ MonLock \/ MonUnlock
    BY <2>1, <1>1 DEF MonStart, MonLock, MonUnlock, listVars
  <2>2. CASE MonVisit
    BY <2>2 DEF MonVisit, LockOwned, callerVars
  <2>3. QED
    BY <1>6, <2>1, <2>2 DEF MonWork
<1>7. CASE DeferredExit
  <2>1. CASE ExitVisit
    BY <2>1 DEF ExitVisit, LockOwned, callerVars
  <2>2. CASE ExitDelTimerSync \/ ExitFlushIo \/ ExitFlushMon
    BY <2>2, <1>1 DEF ExitDelTimerSync, ExitFlushIo, ExitFlushMon, listVars
  <2>3. CASE ExitLock \/ ExitUnlock
    BY <2>3, <1>1 DEF ExitLock, ExitUnlock
  <2>4. QED
    BY <1>7, <2>1, <2>2, <2>3 DEF DeferredExit
<1>8. CASE Handler
  BY <1>8, <1>1, HandlerFrame DEF listVars
<1>9. CASE IoWork
  BY <1>9, <1>1, IoWorkFrame DEF listVars
<1>10. ASSUME NEW t \in Tasks, TaskExit(t) \/ TaskRelease(t)
       PROVE  CallerInv'
  BY <1>10, <1>1, TaskFrame DEF listVars
<1>11. CASE UNCHANGED vars
  BY <1>1, <1>11 DEF vars, callerVars
<1>12. QED
  BY <1>2, <1>3, <1>4, <1>5, <1>6, <1>7, <1>8, <1>9, <1>10, <1>11 DEF Next

-------------------------------------------------------------------------------
(* The cursors: at most one traversal runs, and nothing is linked while it  *)
(* does.                                                                    *)
LEMMA WalkStep == IInv /\ [Next]_vars => CursorSafe' /\ WalkInv'
<1> SUFFICES ASSUME IInv, [Next]_vars PROVE CursorSafe' /\ WalkInv'
  OBVIOUS
<1> USE DeferredAssumption
<1> USE DEF IInv, TypeOK, CursorSafe, WalkInv, Walkers
<1>1. CASE UNCHANGED <<mpc, process_list, todo>> /\ (mod' = "walk" <=> mod = "walk")
  BY <1>1
<1>2. CASE DeferredInit
  BY <1>2 DEF DeferredInit, TornDown, workVars
<1>3. CASE TimerSetup \/ Rmmod
  BY <1>3, <1>1 DEF TimerSetup, Rmmod, workVars, listVars
<1>4. ASSUME NEW c \in Callers, Open(c) \/ Release(c)
      PROVE  CursorSafe' /\ WalkInv'
  BY <1>4, <1>1 DEF Open, Release, workVars, listVars
<1>5. ASSUME NEW c \in Callers, Ioctl(c)
      PROVE  CursorSafe' /\ WalkInv'
  <2>1. CASE IoctlLink(c)
    <3>1. cpc[c] = "link" /\ lock = c
      BY <2>1 DEF IoctlLink, LockOwned
    <3>2. mpc # "walk" /\ mod # "walk"
      BY <3>1 DEF LockOwned
    <3>3. QED
      BY <2>1, <3>2 DEF IoctlLink, workVars
  <2>2. CASE \E f \in {"SET", "ALLOC"} : IoctlFlag(c, f)
    BY <2>2, <1>1 DEF IoctlFlag, workVars, listVars
  <2>3. CASE IoctlCancel(c) \/ IoctlFlagMon(c) \/ IoctlModTimer(c)
    BY <2>3, <1>1 DEF IoctlCancel, IoctlFlagMon, IoctlModTimer, workVars, listVars
  <2>4. CASE GetProcLookup(c) \/ GetProcPin(c) \/ GetProcNoMem(c)
    BY <2>4, <1>1 DEF GetProcLookup, GetProcPin, Got, GetProcNoMem, workVars, listVars
  <2>5. CASE IoctlLock(c) \/ IoctlListAdd(c) \/ IoctlListAddOops(c)
    BY <2>5, <1>1 DEF IoctlLock, IoctlListAdd, IoctlListAddOops, workVars, listVars
  <2>6. QED
    BY <1>5, <2>1, <2>2, <2>3, <2>4, <2>5 DEF Ioctl
<1>6. CASE MonWork
  <2>1. CASE MonStart \/ MonLock \/ MonUnlock
    BY <2>1 DEF MonStart, MonLock, MonUnlock, listVars
  <2>2. CASE MonVisit
    <3>1. lock = "mon" /\ mod # "walk"
      BY <2>2 DEF MonVisit, LockOwned
    <3>2. QED
      BY <2>2, <3>1 DEF MonVisit, Reap, Unlinked, Visited, Put, Skip, workVars
  <2>3. QED
    BY <1>6, <2>1, <2>2 DEF MonWork
<1>7. CASE DeferredExit
  <2>1. CASE ExitVisit
    <3>1. lock = "exit" /\ mpc # "walk"
      BY <2>1 DEF ExitVisit, LockOwned
    <3>2. QED
      BY <2>1, <3>1 DEF ExitVisit, Reap, Unlinked, Visited, Put, workVars
  <2>2. CASE ExitDelTimerSync \/ ExitFlushIo \/ ExitFlushMon
    BY <2>2, <1>1 DEF ExitDelTimerSync, ExitFlushIo, ExitFlushMon, workVars,
                      listVars
  <2>3. CASE ExitLock \/ ExitUnlock
    BY <2>3 DEF ExitLock, ExitUnlock, workVars
  <2>4. QED
    BY <1>7, <2>1, <2>2, <2>3 DEF DeferredExit
<1>8. CASE Handler
  BY <1>8, <1>1, HandlerFrame DEF listVars
<1>9. CASE IoWork
  BY <1>9, <1>1, IoWorkFrame DEF listVars
<1>10. ASSUME NEW t \in Tasks, TaskExit(t) \/ TaskRelease(t)
       PROVE  CursorSafe' /\ WalkInv'
  BY <1>10, <1>1, TaskFrame DEF workVars, listVars
<1>11. CASE UNCHANGED vars
  BY <1>1, <1>11 DEF vars
<1>12. QED
  BY <1>2, <1>3, <1>4, <1>5, <1>6, <1>7, <1>8, <1>9, <1>10, <1>11 DEF Next
-------------------------------------------------------------------------------
(* Unlinking an entry leaves the others owned, and drops exactly the task   *)
(* reference that was taken for it.                                         *)
LEMMA ReapEntry ==
  ASSUME IInv, NEW w \in Walkers, NEW p \in todo[w], Reap(w, p), UNCHANGED proc
  PROVE  EntriesOwned' /\ DanglingInv'
<1> USE DEF IInv, TypeOK, EntriesOwned, DanglingInv, Carries
<1>1. p \in process_list /\ p \in MonProcs
  BY DEF CursorSafe
<1>2. \A c \in Callers : proc[c] # p
  BY <1>1
<1>3. QED
  BY <1>1, <1>2 DEF Reap, Unlinked, Visited, Put

LEMMA ReapUsage ==
  ASSUME IInv, NEW w \in Walkers, NEW p \in todo[w], Reap(w, p)
  PROVE  usage' \in [Tasks -> Nat] /\ UsageExact'
<1> USE DeferredAssumption
<1> USE DEF IInv, TypeOK
<1>1. p \in process_list /\ p \in MonProcs /\ task[p] \in Tasks
  BY DEF CursorSafe, EntriesOwned
<1>2. \A t \in Tasks : IsFiniteSet(Pins(t)) /\ Cardinality(Pins(t)) = usage[t]
  BY FS_Subset DEF Pins, UsageExact
<1>3. CASE p \in dangling
  <2>1. \A t \in Tasks : Pins(t)' = Pins(t)
    BY <1>1, <1>3 DEF Reap, Unlinked, Visited, Put, Pins
  <2>2. QED
    BY <1>2, <1>3, <2>1 DEF Reap, Unlinked, Visited, Put, UsageExact
<1>4. CASE p \notin dangling
  <2>0. PICK q \in Tasks : q = task[p]
    BY <1>1
  <2>1. p \in Pins(q) /\ Pins(q)' = Pins(q) \ {p}
    BY <1>1, <1>4, <2>0 DEF Reap, Unlinked, Visited, Put, Pins
  <2>2. Cardinality(Pins(q)') = Cardinality(Pins(q)) - 1
    BY <1>1, <1>2, <2>1, FS_RemoveElement
  <2>3. \A t \in Tasks \ {q} : Pins(t)' = Pins(t)
    BY <1>1, <1>4, <2>0 DEF Reap, Unlinked, Visited, Put, Pins
  <2>4. usage[q] \in Nat \ {0}
    BY <1>1, <1>2, <2>1, FS_EmptySet
  <2>5. usage' = [usage EXCEPT ![q] = @ - 1]
    BY <1>4, <2>0 DEF Reap, Unlinked, Visited, Put
  <2>6. usage' \in [Tasks -> Nat]
    BY <2>4, <2>5, <1>1
  <2>7. ASSUME NEW t \in Tasks PROVE usage'[t] = Cardinality(Pins(t)')
    BY <1>1, <1>2, <2>2, <2>3, <2>4, <2>5
  <2>8. QED
    BY <2>6, <2>7 DEF UsageExact
<1>5. QED
  BY <1>3, <1>4

(* A lookup that pins its task adds one reference for one new entry. *)
LEMMA PinUsage ==
  ASSUME IInv, NEW c \in Callers, GetProcPin(c)
  PROVE  usage' \in [Tasks -> Nat] /\ UsageExact'
<1> USE DeferredAssumption
<1> USE DEF IInv, TypeOK
<1>0. PICK q \in Tasks : q = target[c] /\ q # NULL
  BY DEF CallerInv, GetProcPin, Got
<1>1. PICK p \in MonProcs :
        /\ task[p] = NULL
        /\ task' = [task EXCEPT ![p] = q]
        /\ IF Freed(q)
           THEN dangling' = dangling \cup {p} /\ UNCHANGED usage
           ELSE usage' = [usage EXCEPT ![q] = @ + 1] /\ UNCHANGED dangling
  BY <1>0 DEF GetProcPin, Got
<1>2. p \notin dangling
  BY <1>1 DEF DanglingInv
<1>3. \A t \in Tasks : IsFiniteSet(Pins(t)) /\ Cardinality(Pins(t)) = usage[t]
  BY FS_Subset DEF Pins, UsageExact
<1>4. CASE Freed(q)
  <2>1. \A t \in Tasks : Pins(t)' = Pins(t)
    BY <1>0, <1>1, <1>2, <1>4 DEF Pins
  <2>2. QED
    BY <1>1, <1>3, <1>4, <2>1 DEF UsageExact
<1>5. CASE ~Freed(q)
  <2>1. p \notin Pins(q) /\ Pins(q)' = Pins(q) \cup {p}
    BY <1>0, <1>1, <1>2, <1>5 DEF Pins
  <2> HIDE DEF IInv, TypeOK
  <2>2. Cardinality(Pins(q)') = Cardinality(Pins(q)) + 1
    <3>1. IsFiniteSet(Pins(q))
      BY <1>3
    <3>2. Cardinality(Pins(q) \cup {p}) = Cardinality(Pins(q)) + 1
      BY <2>1, <3>1, FS_AddElement
    <3>3. QED
      BY <2>1, <3>2
  <2>3. \A t \in Tasks \ {q} : Pins(t)' = Pins(t)
    BY <1>0, <1>1, <1>2, <1>5 DEF Pins
  <2>4. usage' = [usage EXCEPT ![q] = @ + 1]
    BY <1>1, <1>5
  <2>5. usage' \in [Tasks -> Nat]
    BY <2>4 DEF IInv, TypeOK
  <2>6. ASSUME NEW t \in Tasks PROVE usage'[t] = Cardinality(Pins(t)')
    BY <1>3, <2>2, <2>3, <2>4 DEF IInv, TypeOK
  <2>7. QED
    BY <2>5, <2>6 DEF UsageExact
<1>6. QED
  BY <1>4, <1>5

LEMMA UsageStep == IInv /\ [Next]_vars => usage' \in [Tasks -> Nat] /\ UsageExact'
<1> SUFFICES ASSUME IInv, [Next]_vars
             PROVE  usage' \in [Tasks -> Nat] /\ UsageExact'
  OBVIOUS
<1>1. CASE UNCHANGED <<usage, task, dangling>>
  BY <1>1 DEF IInv, TypeOK, UsageExact, Pins
<1>2. ASSUME NEW c \in Callers, Ioctl(c), ~GetProcPin(c)
      PROVE  UNCHANGED <<usage, task, dangling>>
  BY <1>2 DEF Ioctl, IoctlFlag, IoctlCancel, GetProcLookup, GetProcNoMem,
              IoctlLock, IoctlListAdd, IoctlListAddOops, IoctlLink,
              IoctlFlagMon, IoctlModTimer, listVars
<1>3. ASSUME NEW c \in Callers, Open(c) \/ Release(c)
      PROVE  UNCHANGED <<usage, task, dangling>>
  BY <1>3 DEF Open, Release, listVars
<1>4. CASE MonVisit
  <2>1. PICK p \in todo["mon"] : Reap("mon", p) \/ Skip("mon", p)
    BY <1>4 DEF MonVisit
  <2>2. CASE Reap("mon", p)
    BY <2>2, ReapUsage DEF Walkers
  <2>3. CASE Skip("mon", p)
    BY <2>3, <1>1 DEF Skip, Visited
  <2>4. QED
    BY <2>1, <2>2, <2>3
<1>5. CASE ExitVisit
  BY <1>5, ReapUsage DEF ExitVisit, Walkers
<1>6. CASE MonStart \/ MonLock \/ MonUnlock
  BY <1>6, <1>1 DEF MonStart, MonLock, MonUnlock, listVars
<1>7. CASE DeferredExit /\ ~ExitVisit
  BY <1>7, <1>1 DEF DeferredExit, ExitDelTimerSync, ExitFlushIo, ExitFlushMon,
                    ExitLock, ExitUnlock, listVars
<1>8. CASE DeferredInit \/ TimerSetup \/ Rmmod
  BY <1>8, <1>1 DEF DeferredInit, TimerSetup, Rmmod, listVars
<1>9. CASE Handler
  BY <1>9, <1>1, HandlerFrame DEF listVars
<1>10. CASE IoWork
  BY <1>10, <1>1, IoWorkFrame DEF listVars
<1>11. ASSUME NEW t \in Tasks, TaskExit(t) \/ TaskRelease(t)
       PROVE  UNCHANGED <<usage, task, dangling>>
  BY <1>11, TaskFrame DEF listVars
<1>12. CASE UNCHANGED vars
  BY <1>1, <1>12 DEF vars
<1>13. QED
  BY <1>1, <1>2, <1>3, <1>4, <1>5, <1>6, <1>7, <1>8, <1>9, <1>10, <1>11, <1>12,
     PinUsage DEF Next, MonWork

-------------------------------------------------------------------------------
(* Every allocation has one owner. *)
LEMMA EntriesStep == IInv /\ [Next]_vars => EntriesOwned' /\ DanglingInv'
<1> SUFFICES ASSUME IInv, [Next]_vars PROVE EntriesOwned' /\ DanglingInv'
  OBVIOUS
<1> USE DeferredAssumption
<1> USE DEF IInv, TypeOK, EntriesOwned, DanglingInv, Carries
<1>1. CASE UNCHANGED <<process_list, task, dangling, proc>>
  BY <1>1
<1>2. CASE DeferredInit
  BY <1>2 DEF DeferredInit, TornDown, callerVars
<1>3. CASE TimerSetup \/ Rmmod
  BY <1>3, <1>1 DEF TimerSetup, Rmmod, listVars, callerVars
<1>4. ASSUME NEW c \in Callers, Open(c) \/ Release(c)
      PROVE  EntriesOwned' /\ DanglingInv'
  BY <1>4, <1>1 DEF Open, Release, listVars
<1>5. ASSUME NEW c \in Callers, Ioctl(c)
      PROVE  EntriesOwned' /\ DanglingInv'
  <2>1. CASE GetProcLookup(c)
    BY <2>1 DEF GetProcLookup, CallerInv, listVars
  <2>2. CASE GetProcPin(c)
    <3>1. proc[c] = NULL /\ target[c] \in Tasks
      BY <2>2 DEF GetProcPin, Got, CallerInv
    <3>2. QED
      BY <2>2, <3>1 DEF GetProcPin, Got
  <2>3. CASE GetProcNoMem(c)
    <3>1. proc[c] = NULL
      BY <2>3 DEF GetProcNoMem, CallerInv
    <3>2. QED
      BY <2>3, <3>1 DEF GetProcNoMem, listVars
  <2>4. CASE IoctlListAddOops(c)
    BY <2>4 DEF IoctlListAddOops, listVars
  <2>5. CASE IoctlLink(c)
    <3>1. proc[c] \in MonProcs /\ view[c] = process_list
      BY <2>5 DEF IoctlLink, CallerInv
    <3>2. process_list' = process_list \cup {proc[c]}
      BY <2>5, <3>1 DEF IoctlLink
    <3>3. QED
      BY <2>5, <3>1, <3>2 DEF IoctlLink
  <2>6. CASE \E f \in {"SET", "ALLOC"} : IoctlFlag(c, f)
    BY <2>6, <1>1 DEF IoctlFlag, listVars
  <2>7. CASE IoctlCancel(c) \/ IoctlFlagMon(c) \/ IoctlModTimer(c)
    BY <2>7, <1>1 DEF IoctlCancel, IoctlFlagMon, IoctlModTimer, listVars,
                      callerVars
  <2>8. CASE IoctlLock(c) \/ IoctlListAdd(c)
    BY <2>8, <1>1 DEF IoctlLock, IoctlListAdd, listVars
  <2>9. QED
    BY <1>5, <2>1, <2>2, <2>3, <2>4, <2>5, <2>6, <2>7, <2>8 DEF Ioctl
<1>6. CASE MonWork
  <2>1. CASE MonStart \/ MonLock \/ MonUnlock
    BY <2>1, <1>1 DEF MonStart, MonLock, MonUnlock, listVars, callerVars
  <2>2. CASE MonVisit
    <3>1. PICK p \in todo["mon"] : Reap("mon", p) \/ Skip("mon", p)
      BY <2>2 DEF MonVisit
    <3>2. UNCHANGED proc
      BY <2>2 DEF MonVisit, callerVars
    <3>3. CASE Reap("mon", p)
      BY <3>2, <3>3, ReapEntry DEF Walkers
    <3>4. CASE Skip("mon", p)
      BY <3>2, <3>4, <1>1 DEF Skip, Visited
    <3>5. QED
      BY <3>1, <3>3, <3>4
  <2>3. QED
    BY <1>6, <2>1, <2>2 DEF MonWork
<1>7. CASE DeferredExit
  <2>1. CASE ExitVisit
    BY <2>1, ReapEntry DEF ExitVisit, Walkers, callerVars
  <2>2. CASE ExitDelTimerSync \/ ExitFlushIo \/ ExitFlushMon
    BY <2>2, <1>1 DEF ExitDelTimerSync, ExitFlushIo, ExitFlushMon, listVars,
                      callerVars
  <2>3. CASE ExitLock \/ ExitUnlock
    BY <2>3, <1>1 DEF ExitLock, ExitUnlock, callerVars
  <2>4. QED
    BY <1>7, <2>1, <2>2, <2>3 DEF DeferredExit
<1>8. CASE Handler
  BY <1>8, <1>1, HandlerFrame DEF listVars, callerVars
<1>9. CASE IoWork
  BY <1>9, <1>1, IoWorkFrame DEF listVars, callerVars
<1>10. ASSUME NEW t \in Tasks, TaskExit(t) \/ TaskRelease(t)
       PROVE  EntriesOwned' /\ DanglingInv'
  BY <1>10, <1>1, TaskFrame DEF listVars, callerVars
<1>11. CASE UNCHANGED vars
  BY <1>1, <1>11 DEF vars
<1>12. QED
  BY <1>2, <1>3, <1>4, <1>5, <1>6, <1>7, <1>8, <1>9, <1>10, <1>11 DEF Next
-------------------------------------------------------------------------------
(* Types.  usage stays natural because every drop meets a reference taken.  *)
LEMMA TypeStep == IInv /\ [Next]_vars => TypeOK'
<1> SUFFICES ASSUME IInv, [Next]_vars PROVE TypeOK'
  OBVIOUS
<1> USE DeferredAssumption
<1> USE DEF IInv, TypeOK, Flags, Works, Loaded, Exiting
<1>0. usage' \in [Tasks -> Nat]
  BY UsageStep
<1>1. CASE DeferredInit \/ TimerSetup \/ Rmmod
  BY <1>1 DEF DeferredInit, TimerSetup, Rmmod, timerVars, workVars, listVars,
              callerVars
<1>2. ASSUME NEW c \in Callers, Open(c) \/ Release(c)
      PROVE  TypeOK'
  <2>1. CASE Open(c)
    BY <2>1 DEF Open, timerVars, workVars, listVars
  <2>2. CASE Release(c)
    BY <2>2 DEF Release, timerVars, workVars, listVars
  <2>3. QED
    BY <1>2, <2>1, <2>2
<1>3. ASSUME NEW c \in Callers, Ioctl(c)
      PROVE  TypeOK'
  <2>1. CASE \E f \in {"SET", "ALLOC"} : IoctlFlag(c, f)
    BY <2>1 DEF IoctlFlag, workVars, listVars
  <2>2. CASE IoctlCancel(c)
    <3>1. armed' \in BOOLEAN
      BY <2>2 DEF IoctlCancel
    <3>2. QED
      BY <2>2, <3>1 DEF IoctlCancel, workVars, listVars, callerVars
  <2>3. CASE IoctlFlagMon(c)
    BY <2>3 DEF IoctlFlagMon, workVars, listVars
  <2>4. CASE IoctlModTimer(c)
    BY <2>4 DEF IoctlModTimer, workVars, listVars
  <2>5. CASE GetProcLookup(c)
    BY <2>5 DEF GetProcLookup, timerVars, workVars, listVars
  <2>6. CASE GetProcPin(c)
    BY <2>6, <1>0 DEF GetProcPin, Got, timerVars, workVars
  <2>7. CASE GetProcNoMem(c)
    BY <2>7 DEF GetProcNoMem, timerVars, workVars, listVars
  <2>8. CASE IoctlLock(c)
    BY <2>8 DEF IoctlLock, timerVars, workVars
  <2>9. CASE IoctlListAdd(c)
    BY <2>9 DEF IoctlListAdd, timerVars, workVars, listVars
  <2>10. CASE IoctlListAddOops(c)
    BY <2>10 DEF IoctlListAddOops, timerVars, workVars, listVars
  <2>11. CASE IoctlLink(c)
    BY <2>11 DEF IoctlLink, CallerInv, timerVars, workVars
  <2>12. QED
    BY <1>3, <2>1, <2>2, <2>3, <2>4, <2>5, <2>6, <2>7, <2>8, <2>9, <2>10, <2>11
       DEF Ioctl
<1>4. CASE Handler
  <2> USE DEF listVars, callerVars
  <2>1. CASE Expire
    BY <2>1 DEF Expire, workVars
  <2>2. CASE TestSet
    BY <2>2 DEF TestSet, workVars
  <2>3. CASE TestAlloc
    BY <2>3 DEF TestAlloc
  <2>4. CASE TestMon
    BY <2>4 DEF TestMon
  <2>5. CASE HandlerModTimer
    BY <2>5 DEF HandlerModTimer, workVars
  <2>6. QED
    BY <1>4, <2>1, <2>2, <2>3, <2>4, <2>5 DEF Handler
<1>5. CASE IoWork
  <2> USE DEF timerVars, listVars, callerVars
  <2>1. CASE IoStart
    BY <2>1 DEF IoStart
  <2>2. CASE IoDone
    BY <2>2 DEF IoDone
  <2>3. QED
    BY <1>5, <2>1, <2>2 DEF IoWork
<1>6. CASE MonStart \/ MonLock \/ MonUnlock
  <2> USE DEF timerVars, callerVars
  <2>1. CASE MonStart
    BY <2>1 DEF MonStart, listVars
  <2>2. CASE MonLock
    BY <2>2 DEF MonLock, Walkers
  <2>3. CASE MonUnlock
    BY <2>3 DEF MonUnlock
  <2>4. QED
    BY <1>6, <2>1, <2>2, <2>3
<1>7. CASE MonVisit
  BY <1>7, <1>0 DEF MonVisit, Reap, Unlinked, Visited, Put, Skip, Walkers,
                    timerVars, workVars, callerVars
<1>8. CASE ExitVisit
  BY <1>8, <1>0 DEF ExitVisit, Reap, Unlinked, Visited, Put, Walkers,
                    timerVars, workVars, callerVars
<1>9. CASE DeferredExit /\ ~ExitVisit
  BY <1>9 DEF DeferredExit, ExitDelTimerSync, ExitFlushIo, ExitFlushMon,
              ExitLock, ExitUnlock, timerVars, workVars, listVars, callerVars
<1>10. ASSUME NEW t \in Tasks, TaskExit(t) \/ TaskRelease(t)
       PROVE  TypeOK'
  <2> USE DEF timerVars, workVars, listVars, callerVars
  <2>1. CASE TaskExit(t)
    BY <2>1 DEF TaskExit
  <2>2. CASE TaskRelease(t)
    BY <2>2 DEF TaskRelease
  <2>3. QED
    BY <1>10, <2>1, <2>2
<1>11. CASE UNCHANGED vars
  BY <1>11 DEF vars
<1>12. QED
  BY <1>1, <1>2, <1>3, <1>4, <1>5, <1>6, <1>7, <1>8, <1>9, <1>10, <1>11
     DEF Next, MonWork

-------------------------------------------------------------------------------
(* Tear-down.  Nothing that deferred_exit has waited for can be started     *)
(* again: files are closed, so no ioctl arms the timer; no timer, so no     *)
(* work is queued; no work and no ioctl, so the list only shrinks.          *)
LEMMA TornDownStep == IInv /\ [Next]_vars => TornDown' /\ UnloadedInv'
<1> SUFFICES ASSUME IInv, [Next]_vars PROVE TornDown' /\ UnloadedInv'
  OBVIOUS
<1> USE DeferredAssumption
<1> USE DEF IInv, TypeOK, TornDown, UnloadedInv, Exiting, Holding
<1>1. CASE UNCHANGED <<mod, armed, hpc, queued, iopc, mpc, lock, process_list,
                       usage, cpc>>
  BY <1>1
<1>2. CASE DeferredInit \/ TimerSetup \/ Rmmod
  BY <1>2 DEF DeferredInit, TimerSetup, Rmmod, timerVars, workVars, listVars,
              callerVars
<1>3. ASSUME NEW c \in Callers, Open(c) \/ Release(c)
      PROVE  TornDown' /\ UnloadedInv'
  BY <1>3 DEF Open, Release, timerVars, workVars, listVars
<1>4. ASSUME NEW c \in Callers, Ioctl(c)
      PROVE  TornDown' /\ UnloadedInv'
  <2>1. Holding(c) /\ mod' = mod
    BY <1>4 DEF Ioctl, IoctlFlag, IoctlCancel, GetProcLookup, GetProcPin, Got,
                GetProcNoMem, IoctlLock, IoctlListAdd, IoctlListAddOops,
                IoctlLink, IoctlFlagMon, IoctlModTimer
  <2>2. mod \notin Exiting \cup {"unloaded"}
    BY <2>1
  <2>3. QED
    BY <2>1, <2>2
<1>5. CASE Handler
  <2>1. CASE Expire
    BY <2>1 DEF Expire, workVars, listVars, callerVars
  <2>2. CASE TestSet \/ TestAlloc \/ TestMon \/ HandlerModTimer
    BY <2>2 DEF TestSet, TestAlloc, TestMon, HandlerModTimer, workVars, listVars,
                callerVars
  <2>3. QED
    BY <1>5, <2>1, <2>2 DEF Handler
<1>6. CASE IoWork
  BY <1>6 DEF IoWork, IoStart, IoDone, timerVars, listVars, callerVars
<1>7. CASE MonWork
  <2>1. mod \notin {"lock", "walk", "unloaded"} /\ mod' = mod
    BY <1>7 DEF MonWork, MonStart, MonLock, MonVisit, MonUnlock
  <2>2. UNCHANGED <<timerVars, iopc, cpc>> /\ queued' \subseteq queued
    BY <1>7 DEF MonWork, MonStart, MonLock, MonVisit, MonUnlock, workVars,
                callerVars
  <2>3. QED
    BY <2>1, <2>2 DEF timerVars
<1>8. CASE ExitDelTimerSync \/ ExitFlushIo \/ ExitFlushMon
  BY <1>8 DEF ExitDelTimerSync, ExitFlushIo, ExitFlushMon, timerVars, workVars,
              listVars, callerVars
<1>9. CASE ExitLock \/ ExitVisit
  BY <1>9 DEF ExitLock, ExitVisit, Reap, Unlinked, Visited, Put,
              timerVars, workVars, callerVars
<1>10. CASE ExitUnlock
  <2>1. process_list = {} /\ \A c \in Callers : ~Holding(c)
    BY <1>10 DEF ExitUnlock, WalkInv
  <2>2. \A p \in MonProcs : task[p] = NULL
    BY <2>1 DEF EntriesOwned, CallerInv
  <2>3. \A t \in Tasks : Pins(t) = {}
    BY <2>2 DEF Pins
  <2>4. \A t \in Tasks : usage[t] = 0
    BY <2>3, FS_EmptySet DEF UsageExact
  <2>5. QED
    BY <1>10, <2>1, <2>4 DEF ExitUnlock, timerVars, workVars, callerVars
<1>11. ASSUME NEW t \in Tasks, TaskExit(t) \/ TaskRelease(t)
       PROVE  TornDown' /\ UnloadedInv'
  BY <1>11, <1>1, TaskFrame DEF timerVars, workVars, listVars, callerVars
<1>12. CASE UNCHANGED vars
  BY <1>1, <1>12 DEF vars
<1>13. QED
  BY <1>2, <1>3, <1>4, <1>5, <1>6, <1>7, <1>8, <1>9, <1>10, <1>11, <1>12
     DEF Next, DeferredExit

-------------------------------------------------------------------------------
(* The inductive invariant.  Each part needs the others: the cursors need   *)
(* the lock, the lock needs the positions, the counts need the owners, and  *)
(* the tear-down needs all of them.                                         *)
THEOREM Invariance == Spec => []IInv
<1>1. IInv /\ [Next]_vars => IInv'
  BY TypeStep, LockStep, EntriesStep, WalkStep, UsageStep, TornDownStep,
     CallerStep DEF IInv
<1>2. QED
  BY InitIInv, <1>1, PTL DEF Spec

(* Every variable keeps its type; in particular no task reference count     *)
(* goes below zero (put_task_struct, deferred.c:102 and :248).              *)
THEOREM TypeCorrect == Spec => []TypeOK
BY Invariance, PTL DEF IInv

(* dev.lock is held exactly by the context between spin_lock and            *)
(* spin_unlock (deferred.c:97-109, :177-179, :245-254).                     *)
THEOREM MutualExclusion == Spec => []LockOwned
BY Invariance, PTL DEF IInv

(* No mon_proc is lost, linked twice, or linked after kfree.                *)
THEOREM ListIntegrity == Spec => []EntriesOwned
BY Invariance, PTL DEF IInv

(* No traversal reaches an entry that was unlinked behind its back, be it   *)
(* the monitor's (deferred.c:98) or the one of deferred_exit (:246).        *)
THEOREM TraversalsAreSafe == Spec => []CursorSafe
BY Invariance, PTL DEF IInv

(* The module owns exactly the task references its list accounts for        *)
(* (get_task_struct deferred.c:82, put_task_struct :102 and :248).          *)
THEOREM ReferencesBalance == Spec => []UsageExact
BY Invariance, PTL DEF IInv

(* deferred_exit leaves nothing pending, running, listed or pinned          *)
(* (deferred.c:237-254).                                                    *)
THEOREM CleanUnload == Spec => []TornDown
BY Invariance, PTL DEF IInv

-------------------------------------------------------------------------------
(* The monitor forgets a process only when it has died (deferred.c:99).     *)
THEOREM OnlyTheDeadAreReaped == Spec => ReapsOnlyTheDead
<1> DEFINE Reaped(p) == p \in dangling \/ life[task[p]] # "alive" \/ mod = "walk"
<1>1. ASSUME IInv, [Next]_vars, NEW p \in process_list \ process_list'
      PROVE  Reaped(p)
  <2>1. CASE MonVisit
    BY <1>1, <2>1 DEF MonVisit, Reap, Unlinked, Visited, Put, Skip, SeemsDead
  <2>2. CASE ExitVisit
    BY <2>2 DEF ExitVisit
  <2>3. ASSUME NEW c \in Callers, IoctlLink(c)
        PROVE  process_list \subseteq process_list'
    BY <1>1, <2>3 DEF IoctlLink, IInv, CallerInv
  <2>4. CASE DeferredInit
    BY <1>1, <2>4 DEF DeferredInit, IInv, TornDown
  <2>5. CASE UNCHANGED process_list
    BY <1>1, <2>5
  <2>6. CASE TimerSetup \/ Rmmod \/ MonStart \/ MonLock \/ MonUnlock
    BY <2>5, <2>6 DEF TimerSetup, Rmmod, MonStart, MonLock, MonUnlock, listVars
  <2>7. CASE DeferredExit /\ ~ExitVisit
    BY <2>5, <2>7 DEF DeferredExit, ExitDelTimerSync, ExitFlushIo, ExitFlushMon,
                      ExitLock, ExitUnlock, listVars
  <2>8. ASSUME NEW c \in Callers, Open(c) \/ Release(c) \/ Ioctl(c)
        PROVE  process_list \subseteq process_list'
    BY <2>3, <2>8 DEF Open, Release, Ioctl, IoctlFlag, IoctlCancel,
         GetProcLookup, GetProcPin, Got, GetProcNoMem, IoctlLock, IoctlListAdd,
         IoctlListAddOops, IoctlFlagMon, IoctlModTimer, listVars
  <2>9. CASE Handler \/ IoWork
    BY <2>5, <2>9, HandlerFrame, IoWorkFrame DEF listVars
  <2>10. ASSUME NEW t \in Tasks, TaskExit(t) \/ TaskRelease(t)
         PROVE  Reaped(p)
    BY <2>5, <2>10, TaskFrame DEF listVars
  <2>11. CASE UNCHANGED vars
    BY <2>5, <2>11 DEF vars
  <2>12. QED
    BY <1>1, <2>1, <2>2, <2>4, <2>6, <2>7, <2>8, <2>9, <2>10, <2>11
       DEF Next, MonWork
<1>2. IInv /\ [Next]_vars =>
        [\A p \in process_list \ process_list' : Reaped(p)]_vars
  BY <1>1
<1>3. QED
  BY <1>2, Invariance, PTL DEF Spec, ReapsOnlyTheDead
-------------------------------------------------------------------------------
(* Refinement of ModuleText.  Every step of the device acquires, releases   *)
(* or hands over one holder of the module, or none.                         *)
TextStep == [Text!Next]_Text!textVars
TextHolder == Callers \cup {"timer", "io", "mon"}

LEMMA HolderMoves ==
  ASSUME mod # "unloaded", mod' # "unloaded",
         \/ TextHolders' = TextHolders
         \/ \E h \in TextHolder : TextHolders' = TextHolders \cup {h}
         \/ \E h \in TextHolder : TextHolders' = TextHolders \ {h}
         \/ \E g, h \in TextHolder :
              g \in TextHolders /\ TextHolders' = (TextHolders \ {g}) \cup {h}
  PROVE  TextStep
BY DEF TextStep, TextHolder, Text!Next, Text!Acquire, Text!Release,
       Text!Handover, Text!textVars

(* The holders depend on these six variables only. *)
LEMMA HoldersFrame ==
  ASSUME UNCHANGED <<armed, hpc, queued, iopc, mpc, cpc>>
  PROVE  TextHolders' = TextHolders
BY DEF TextHolders, Holding

LEMMA TextNext == IInv /\ [Next]_vars => TextStep
<1> SUFFICES ASSUME IInv, [Next]_vars PROVE TextStep
  OBVIOUS
<1> USE DeferredAssumption
<1> USE DEF IInv, TypeOK, TornDown, Exiting, TextHolder
<1>1. CASE DeferredInit
  <2>1. TextHolders' = TextHolders
    BY <1>1 DEF DeferredInit, TextHolders, Holding, workVars, callerVars
  <2>2. mod = "unloaded" /\ mod' = "coming"
    BY <1>1 DEF DeferredInit
  <2>3. QED
    BY <2>1, <2>2 DEF TextStep, Text!Next, Text!Insmod
<1>2. CASE TimerSetup
  <2>1. TextHolders' = TextHolders \/ TextHolders' = TextHolders \ {"timer"}
    BY <1>2 DEF TimerSetup, TextHolders, Holding, workVars, callerVars
  <2>2. mod # "unloaded" /\ mod' # "unloaded"
    BY <1>2 DEF TimerSetup
  <2>3. QED
    BY <2>1, <2>2, HolderMoves
<1>3. CASE Rmmod
  BY <1>3, HolderMoves, HoldersFrame DEF Rmmod, timerVars, workVars, callerVars
<1>4. ASSUME NEW c \in Callers, Open(c)
      PROVE  TextStep
  <2>1. TextHolders' = TextHolders \cup {c}
    BY <1>4 DEF Open, TextHolders, Holding, timerVars, workVars
  <2>2. mod # "unloaded" /\ mod' = mod
    BY <1>4 DEF Open
  <2>3. QED
    BY <2>1, <2>2, HolderMoves
<1>5. ASSUME NEW c \in Callers, Release(c)
      PROVE  TextStep
  <2>1. TextHolders' = TextHolders \ {c}
    BY <1>5 DEF Release, TextHolders, Holding, timerVars, workVars
  <2>2. mod # "unloaded" /\ mod' = mod
    BY <1>5 DEF Release, Holding
  <2>3. QED
    BY <2>1, <2>2, HolderMoves
<1>6. ASSUME NEW c \in Callers, Ioctl(c)
      PROVE  TextStep
  <2>1. mod # "unloaded" /\ mod' = mod
    BY <1>6 DEF Ioctl, IoctlFlag, IoctlCancel, GetProcLookup, GetProcPin, Got,
                GetProcNoMem, IoctlLock, IoctlListAdd, IoctlListAddOops,
                IoctlLink, IoctlFlagMon, IoctlModTimer, Holding
  <2> HIDE DEF IInv, TornDown
  <2>2. CASE IoctlModTimer(c)
    <3>1. TextHolders' = TextHolders \/ TextHolders' = TextHolders \cup {"timer"}
      BY <2>2 DEF IoctlModTimer, TextHolders, Holding, workVars, IInv
    <3>2. QED
      BY <2>1, <3>1, HolderMoves
  <2>3. CASE IoctlCancel(c)
    <3>1. TextHolders' = TextHolders \/ TextHolders' = TextHolders \ {"timer"}
      BY <2>3 DEF IoctlCancel, TextHolders, Holding, workVars, callerVars
    <3>2. QED
      BY <2>1, <3>1, HolderMoves
  <2>4. CASE IoctlListAddOops(c)
    <3>1. TextHolders' = TextHolders \ {c}
      BY <2>4 DEF IoctlListAddOops, TextHolders, Holding, timerVars, workVars, IInv
    <3>2. QED
      BY <2>1, <3>1, HolderMoves
  <2>5. CASE \E f \in {"SET", "ALLOC"} : IoctlFlag(c, f)
    <3>1. TextHolders' = TextHolders
      BY <2>5 DEF IoctlFlag, TextHolders, Holding, workVars, IInv
    <3>2. QED
      BY <2>1, <3>1, HolderMoves
  <2>6. CASE GetProcLookup(c) \/ GetProcPin(c) \/ GetProcNoMem(c)
    <3>1. TextHolders' = TextHolders
      BY <2>6 DEF GetProcLookup, GetProcPin, Got, GetProcNoMem, TextHolders, Holding,
                  timerVars, workVars, IInv
    <3>2. QED
      BY <2>1, <3>1, HolderMoves
  <2>7. CASE IoctlLock(c) \/ IoctlListAdd(c) \/ IoctlLink(c) \/ IoctlFlagMon(c)
    <3>1. TextHolders' = TextHolders
      BY <2>7 DEF IoctlLock, IoctlListAdd, IoctlLink, IoctlFlagMon, TextHolders,
                  Holding, timerVars, workVars, IInv
    <3>2. QED
      BY <2>1, <3>1, HolderMoves
  <2>8. QED
    BY <1>6, <2>2, <2>3, <2>4, <2>5, <2>6, <2>7 DEF Ioctl
<1>7. CASE Handler
  <2>1. mod # "unloaded" /\ mod' = mod /\ UNCHANGED <<iopc, mpc, cpc>>
    <3>1. armed \/ hpc # "idle"
      BY <1>7 DEF Handler, Expire, TestSet, TestAlloc, TestMon, HandlerModTimer
    <3>2. QED
      BY <1>7, <3>1, HandlerFrame DEF callerVars
  <2>2. CASE Expire \/ TestSet \/ HandlerModTimer
    <3>1. TextHolders' = TextHolders
      BY <2>1, <2>2 DEF Expire, TestSet, HandlerModTimer, TextHolders, Holding,
                        workVars
    <3>2. QED
      BY <2>1, <3>1, HolderMoves
  <2>3. CASE TestAlloc
    <3>1. \/ TextHolders' = TextHolders
          \/ TextHolders' = TextHolders \cup {"io"}
          \/ /\ "timer" \in TextHolders
             /\ TextHolders' = (TextHolders \ {"timer"}) \cup {"io"}
      BY <2>1, <2>3 DEF TestAlloc, TextHolders, Holding
    <3>2. QED
      BY <2>1, <3>1, HolderMoves
  <2>4. CASE TestMon
    <3>1. \/ TextHolders' = TextHolders
          \/ TextHolders' = TextHolders \cup {"mon"}
          \/ TextHolders' = TextHolders \ {"timer"}
      BY <2>1, <2>4 DEF TestMon, TextHolders, Holding
    <3>2. QED
      BY <2>1, <3>1, HolderMoves
  <2>5. QED
    BY <1>7, <2>2, <2>3, <2>4 DEF Handler
<1>8. CASE IoWork
  <2>1. mod # "unloaded" /\ mod' = mod
    BY <1>8 DEF IoWork, IoStart, IoDone
  <2>2. TextHolders' = TextHolders \/ TextHolders' = TextHolders \ {"io"}
    BY <1>8 DEF IoWork, IoStart, IoDone, TextHolders, Holding, timerVars,
                callerVars
  <2>3. QED
    BY <2>1, <2>2, HolderMoves
<1>9. CASE MonWork
  <2>1. mod # "unloaded" /\ mod' = mod /\ UNCHANGED <<armed, hpc, iopc, cpc>>
    BY <1>9 DEF MonWork, MonStart, MonLock, MonVisit, MonUnlock, timerVars,
                workVars, callerVars
  <2>2. TextHolders' = TextHolders \/ TextHolders' = TextHolders \ {"mon"}
    BY <1>9, <2>1 DEF MonWork, MonStart, MonLock, MonVisit, MonUnlock,
                      TextHolders, Holding, workVars
  <2>3. QED
    BY <2>1, <2>2, HolderMoves
<1>10. CASE ExitUnlock
  <2>1. TextHolders = {} /\ TextHolders' = {}
    BY <1>10 DEF ExitUnlock, TextHolders, timerVars, workVars, callerVars, Holding
  <2>2. mod # "unloaded" /\ mod' = "unloaded"
    BY <1>10 DEF ExitUnlock
  <2>3. QED
    BY <2>1, <2>2 DEF TextStep, Text!Next, Text!Unload
<1>11. CASE ExitDelTimerSync
  <2>1. TextHolders' = TextHolders \/ TextHolders' = TextHolders \ {"timer"}
    BY <1>11 DEF ExitDelTimerSync, TextHolders, Holding, workVars, callerVars
  <2>2. mod # "unloaded" /\ mod' # "unloaded"
    BY <1>11 DEF ExitDelTimerSync
  <2>3. QED
    BY <2>1, <2>2, HolderMoves
<1>12. CASE ExitFlushIo \/ ExitFlushMon \/ ExitLock \/ ExitVisit
  <2>1. TextHolders' = TextHolders
    BY <1>12, HoldersFrame DEF ExitFlushIo, ExitFlushMon, ExitLock, ExitVisit,
                               timerVars, workVars, callerVars
  <2>2. mod # "unloaded" /\ mod' # "unloaded"
    BY <1>12 DEF ExitFlushIo, ExitFlushMon, ExitLock, ExitVisit
  <2>3. QED
    BY <2>1, <2>2, HolderMoves
<1>13. ASSUME NEW t \in Tasks, TaskExit(t) \/ TaskRelease(t)
       PROVE  TextStep
  BY <1>13, TaskFrame, HoldersFrame
     DEF TextStep, Text!textVars, timerVars, workVars, callerVars
<1>14. CASE UNCHANGED vars
  BY <1>14, HoldersFrame DEF TextStep, Text!textVars, vars
<1>15. QED
  BY <1>1, <1>2, <1>3, <1>4, <1>5, <1>6, <1>7, <1>8, <1>9, <1>10, <1>11, <1>12,
     <1>13, <1>14 DEF Next, DeferredExit

(* deferred.c never executes, and is never entered, after rmmod: the module *)
(* implements ModuleText (deferred_exit, deferred.c:231-255).               *)
THEOREM Refinement == Spec => TextSpec
<1>1. Init => Text!Init
  BY DEF Init, Text!Init, TextHolders, Holding
<1>2. QED
  BY <1>1, TextNext, Invariance, PTL
     DEF Spec, TextSpec, Text!Spec, TextStep
===============================================================================
