------------------------------- MODULE Deferred -------------------------------
(***************************************************************************)
(* labs/lab13/deferred/kernel/deferred.c: a character device whose ioctls  *)
(* arm one kernel timer.  The timer handler, a softirq, ticks, queues a    *)
(* slow work item, or queues a work item that reaps the monitored          *)
(* processes that have died.  Callers, the handler, the two work items,    *)
(* the dying processes and rmmod interleave at every access to the shared  *)
(* struct my_device_data.                                                  *)
(*                                                                         *)
(* Kernel services (timer wheel, workqueue, spinlock, task reference       *)
(* counts, module reference count) are modelled by what linux-6.9.7, the   *)
(* kernel of labs/lab13/deferred/kernel/Makefile, does for these calls.    *)
(***************************************************************************)
EXTENDS Naturals, FiniteSets

CONSTANTS
  Callers,         \* user threads, each with a file descriptor of its own
  Tasks,           \* processes that can be monitored
  MonProcs,        \* pool of struct mon_proc allocations (bounds the list)
  Cmds,            \* the ioctl commands the callers issue
  EarlyOpen,       \* a caller may open the device while init still runs
  GetProcMayFail,  \* a pid may be gone (ESRCH), kmalloc may fail (ENOMEM)
  NULL, ErrPtr     \* the null pointer; an ERR_PTR() value

ASSUME DeferredAssumption ==
  /\ IsFiniteSet(MonProcs) /\ Cmds \subseteq {"SET", "CANCEL", "ALLOC", "MON"}
  /\ EarlyOpen \in BOOLEAN /\ GetProcMayFail \in BOOLEAN
  /\ Callers \cap {"free", "mon", "exit", "timer", "io"} = {}
  /\ NULL \notin Tasks \cup MonProcs /\ ErrPtr \notin MonProcs \cup {NULL}

VARIABLES
  mod,           \* life cycle of the module and position in deferred_exit
  flag,          \* dev.flag
  armed,         \* dev.timer is pending
  hpc,           \* position in timer_handler
  queued,        \* work items whose pending bit is set
  iopc,          \* position in io_work_handler
  mpc,           \* position in monitor_work_handler
  lock,          \* holder of dev.lock, or "free"
  process_list,  \* the mon_proc linked on dev.process_list
  task,          \* mon_proc.task, NULL for a mon_proc that is not allocated
  dangling,      \* mon_proc whose task_struct was freed before it was pinned
  todo,          \* entries a list_for_each_entry_safe has yet to visit
  usage,         \* references of this module on each task_struct
  life,          \* alive, zombie (exit_state set), released (not in the pid hash)
  cpc,           \* position of each caller
  target,        \* task found by get_proc, not yet pinned
  proc,          \* proc_ptr of each caller
  view           \* head->next read by a list_add that has not linked yet

vars == <<mod, flag, armed, hpc, queued, iopc, mpc, lock, process_list, task,
          dangling, todo, usage, life, cpc, target, proc, view>>

timerVars  == <<flag, armed, hpc>>
workVars   == <<queued, iopc, mpc>>
listVars   == <<lock, process_list, task, dangling, todo, usage>>
callerVars == <<cpc, target, proc, view>>

Flags == {"NONE", "SET", "ALLOC", "MON"}
Works == {"io", "mon"}
Walkers == {"mon", "exit"}

(* deferred_exit, in the order of its blocking steps. *)
Exiting == {"del_timer", "flush_io", "flush_mon", "lock", "walk"}
Loaded == {"coming", "live"} \cup Exiting

(* A descriptor is open, so the module's reference count is not zero.  An  *)
(* oops kills its thread, and the exit of the thread closes its files.     *)
Holding(c) == cpc[c] \notin {"closed", "oops"}

(* The last reference to the task_struct is gone and its memory with it. *)
Freed(t) == life[t] = "released" /\ usage[t] = 0

-------------------------------------------------------------------------------
Init ==
  /\ mod = "unloaded" /\ flag = "NONE" /\ armed = FALSE /\ hpc = "idle"
  /\ queued = {} /\ iopc = "idle" /\ mpc = "idle" /\ lock = "free"
  /\ process_list = {} /\ task = [p \in MonProcs |-> NULL] /\ dangling = {}
  /\ todo = [w \in Walkers |-> {}] /\ usage = [t \in Tasks |-> 0]
  /\ life = [t \in Tasks |-> "alive"] /\ cpc = [c \in Callers |-> "closed"]
  /\ target = [c \in Callers |-> NULL] /\ proc = [c \in Callers |-> NULL]
  /\ view = [c \in Callers |-> {}]

(* deferred_init up to and including cdev_add: from here on the device can *)
(* be opened, and the timer has no function yet.                           *)
DeferredInit ==
  /\ mod = "unloaded" /\ mod' = "coming" /\ flag' = "NONE" /\ armed' = FALSE
  /\ lock' = "free" /\ process_list' = {}
  /\ UNCHANGED <<hpc, workVars, task, dangling, todo, usage, life, callerVars>>

TimerSetup ==
  /\ mod = "coming" /\ mod' = "live" /\ armed' = FALSE
  /\ UNCHANGED <<flag, hpc, workVars, listVars, life, callerVars>>

-------------------------------------------------------------------------------
(* File operations.  chrdev_open takes a module reference, which is refused *)
(* once rmmod has begun.                                                    *)
Open(c) ==
  /\ cpc[c] = "closed"
  /\ mod = "live" \/ (EarlyOpen /\ mod = "coming")
  /\ cpc' = [cpc EXCEPT ![c] = "open"]
  /\ UNCHANGED <<mod, timerVars, workVars, listVars, life, target, proc, view>>

Release(c) ==
  /\ cpc[c] = "open" /\ cpc' = [cpc EXCEPT ![c] = "closed"]
  /\ UNCHANGED <<mod, timerVars, workVars, listVars, life, target, proc, view>>

(* MY_IOCTL_TIMER_SET and MY_IOCTL_TIMER_ALLOC differ in the flag only. *)
IoctlFlag(c, f) ==
  /\ cpc[c] = "open" /\ f \in Cmds /\ flag' = f
  /\ cpc' = [cpc EXCEPT ![c] = "mod_timer"]
  /\ UNCHANGED <<mod, armed, hpc, workVars, listVars, life, target, proc, view>>

(* mod_timer does nothing to a timer that timer_setup has not seen. *)
IoctlModTimer(c) ==
  /\ cpc[c] = "mod_timer"
  /\ armed' = (armed \/ mod # "coming")
  /\ cpc' = [cpc EXCEPT ![c] = "open"]
  /\ UNCHANGED <<mod, flag, hpc, workVars, listVars, life, target, proc, view>>

(* MY_IOCTL_TIMER_CANCEL: del_timer does not wait for a running handler. *)
IoctlCancel(c) ==
  /\ cpc[c] = "open" /\ "CANCEL" \in Cmds /\ armed' = FALSE
  /\ UNCHANGED <<mod, flag, hpc, workVars, listVars, life, callerVars>>

(* Bound of the model: no lookup begins when the pool could run dry. *)
PoolRoom ==
  Cardinality({p \in MonProcs : task[p] # NULL})
    + Cardinality({c \in Callers : cpc[c] = "get_task"}) < Cardinality(MonProcs)

(* MY_IOCTL_TIMER_MON, first part of get_proc: the pid lookup under RCU.  *)
(* The task is not pinned when rcu_read_unlock returns.                   *)
GetProcLookup(c) ==
  /\ cpc[c] = "open" /\ "MON" \in Cmds
  /\ \E t \in Tasks :
       \/ /\ life[t] # "released" /\ PoolRoom
          /\ target' = [target EXCEPT ![c] = t]
          /\ cpc' = [cpc EXCEPT ![c] = "get_task"]
          /\ UNCHANGED proc
       \/ /\ GetProcMayFail /\ life[t] = "released"
          /\ proc' = [proc EXCEPT ![c] = ErrPtr]
          /\ cpc' = [cpc EXCEPT ![c] = "lock"]
          /\ UNCHANGED target
  /\ UNCHANGED <<mod, timerVars, workVars, listVars, life, view>>

(* Mutant: get_task_struct is forgotten. *)
NotGot(t) == usage
Got(t) == [usage EXCEPT ![t] = @ + 1]

(* Second part: kmalloc, get_task_struct, p->task = task.  The reference   *)
(* count of a freed task_struct counts nothing.                            *)
GetProcPin(c) ==
  /\ cpc[c] = "get_task"
  /\ \E p \in MonProcs :
       LET t == target[c] IN
       /\ task[p] = NULL /\ task' = [task EXCEPT ![p] = t]
       /\ proc' = [proc EXCEPT ![c] = p]
       /\ IF Freed(t)
          THEN dangling' = dangling \cup {p} /\ UNCHANGED usage
          ELSE usage' = Got(t) /\ UNCHANGED dangling
  /\ target' = [target EXCEPT ![c] = NULL] /\ cpc' = [cpc EXCEPT ![c] = "lock"]
  /\ UNCHANGED <<mod, timerVars, workVars, lock, process_list, todo, life, view>>

GetProcNoMem(c) ==
  /\ cpc[c] = "get_task" /\ GetProcMayFail
  /\ proc' = [proc EXCEPT ![c] = ErrPtr]
  /\ target' = [target EXCEPT ![c] = NULL] /\ cpc' = [cpc EXCEPT ![c] = "lock"]
  /\ UNCHANGED <<mod, timerVars, workVars, listVars, life, view>>

(* get_proc never returns NULL, so the test "proc_ptr == NULL" stops       *)
(* nothing: an ERR_PTR goes on to the list as well.                        *)
IoctlLock(c) ==
  /\ cpc[c] = "lock" /\ lock = "free" /\ lock' = c
  /\ cpc' = [cpc EXCEPT ![c] = "list_add"]
  /\ UNCHANGED <<mod, timerVars, workVars, process_list, task, dangling, todo,
                 usage, life, target, proc, view>>

(* list_add reads head->next, then links the new entry in front of it.     *)
IoctlListAdd(c) ==
  /\ cpc[c] = "list_add" /\ proc[c] # ErrPtr
  /\ view' = [view EXCEPT ![c] = process_list]
  /\ cpc' = [cpc EXCEPT ![c] = "link"]
  /\ UNCHANGED <<mod, timerVars, workVars, listVars, life, target, proc>>

(* Storing through an ERR_PTR faults: the thread dies with dev.lock held. *)
IoctlListAddOops(c) ==
  /\ cpc[c] = "list_add" /\ proc[c] = ErrPtr
  /\ cpc' = [cpc EXCEPT ![c] = "oops"] /\ proc' = [proc EXCEPT ![c] = NULL]
  /\ UNCHANGED <<mod, timerVars, workVars, listVars, life, target, view>>

(* The second half of list_add and spin_unlock. *)
IoctlLink(c) ==
  /\ cpc[c] = "link" /\ process_list' = view[c] \cup {proc[c]} /\ lock' = "free"
  /\ view' = [view EXCEPT ![c] = {}] /\ proc' = [proc EXCEPT ![c] = NULL]
  /\ cpc' = [cpc EXCEPT ![c] = "flag_mon"]
  /\ UNCHANGED <<mod, timerVars, workVars, task, dangling, todo, usage, life, target>>

IoctlFlagMon(c) ==
  /\ cpc[c] = "flag_mon" /\ flag' = "MON"
  /\ cpc' = [cpc EXCEPT ![c] = "mod_timer"]
  /\ UNCHANGED <<mod, armed, hpc, workVars, listVars, life, target, proc, view>>

-------------------------------------------------------------------------------
(* timer_handler.  dev.flag is read without a lock, once for each test.  A *)
(* timer is detached from the wheel before its handler runs, and a handler *)
(* never runs on two processors at once.                                   *)
Expire ==
  /\ armed /\ hpc = "idle" /\ armed' = FALSE /\ hpc' = "test_set"
  /\ UNCHANGED <<mod, flag, workVars, listVars, life, callerVars>>

(* Mutant: the tick forgets to re-arm. *)
TickOnce ==
  /\ hpc = "test_set"
  /\ hpc' = IF flag = "SET" THEN "idle" ELSE "test_alloc"
  /\ UNCHANGED <<mod, flag, armed, workVars, listVars, life, callerVars>>

TestSet ==
  /\ hpc = "test_set"
  /\ hpc' = IF flag = "SET" THEN "mod_timer" ELSE "test_alloc"
  /\ UNCHANGED <<mod, flag, armed, workVars, listVars, life, callerVars>>

TestAlloc ==
  /\ hpc = "test_alloc"
  /\ IF flag = "ALLOC"
     THEN hpc' = "idle" /\ queued' = queued \cup {"io"}
     ELSE hpc' = "test_mon" /\ UNCHANGED queued
  /\ UNCHANGED <<mod, flag, armed, iopc, mpc, listVars, life, callerVars>>

(* Mutant: monitor mode queues the work once and forgets to re-arm. *)
MonitorOnce ==
  /\ hpc = "test_mon" /\ hpc' = "idle"
  /\ queued' = IF flag = "MON" THEN queued \cup {"mon"} ELSE queued
  /\ UNCHANGED <<mod, flag, armed, iopc, mpc, listVars, life, callerVars>>

TestMon ==
  /\ hpc = "test_mon"
  /\ IF flag = "MON"
     THEN hpc' = "mod_timer" /\ queued' = queued \cup {"mon"}
     ELSE hpc' = "idle" /\ UNCHANGED queued
  /\ UNCHANGED <<mod, flag, armed, iopc, mpc, listVars, life, callerVars>>

HandlerModTimer ==
  /\ hpc = "mod_timer" /\ armed' = TRUE /\ hpc' = "idle"
  /\ UNCHANGED <<mod, flag, workVars, listVars, life, callerVars>>

-------------------------------------------------------------------------------
(* The work items.  The workqueue clears the pending bit before it calls   *)
(* the handler, so an item can be queued again while it runs, and it never *)
(* runs one item twice at the same time.                                   *)
IoStart ==
  /\ "io" \in queued /\ iopc = "idle" /\ queued' = queued \ {"io"}
  /\ iopc' = "sleep"
  /\ UNCHANGED <<mod, timerVars, mpc, listVars, life, callerVars>>

(* alloc_io sleeps for five seconds. *)
IoDone ==
  /\ iopc = "sleep" /\ iopc' = "idle"
  /\ UNCHANGED <<mod, timerVars, queued, mpc, listVars, life, callerVars>>

MonStart ==
  /\ "mon" \in queued /\ mpc = "idle" /\ queued' = queued \ {"mon"}
  /\ mpc' = "lock"
  /\ UNCHANGED <<mod, timerVars, iopc, listVars, life, callerVars>>

MonLock ==
  /\ mpc = "lock" /\ lock = "free" /\ lock' = "mon"
  /\ todo' = [todo EXCEPT !["mon"] = process_list] /\ mpc' = "walk"
  /\ UNCHANGED <<mod, timerVars, queued, iopc, process_list, task, dangling,
                 usage, life, callerVars>>

(* Mutants: list_del is forgotten; the walk reads its next entry from the   *)
(* one it freed; put_task_struct is called twice.                           *)
FreeLinked(p) == process_list
Unlinked(p) == process_list \ {p}
ReapAndStay(w, p) == todo
Visited(w, p) == [todo EXCEPT ![w] = @ \ {p}]
PutTwice(t) == [usage EXCEPT ![t] = @ - 2]
Put(t) == [usage EXCEPT ![t] = @ - 1]

(* put_task_struct, list_del, kfree. *)
Reap(w, p) ==
  /\ usage' = IF p \in dangling THEN usage ELSE Put(task[p])
  /\ process_list' = Unlinked(p) /\ todo' = Visited(w, p)
  /\ task' = [task EXCEPT ![p] = NULL] /\ dangling' = dangling \ {p}
  /\ UNCHANGED lock

Skip(w, p) ==
  /\ todo' = Visited(w, p)
  /\ UNCHANGED <<lock, process_list, task, dangling, usage>>

(* Mutant: the test of exit_state is inverted. *)
SeemsUndead(p) == p \in dangling \/ life[task[p]] # "released"

(* What reading task->__state and task->exit_state may answer: memory that *)
(* was freed reads as anything.                                            *)
SeemsDead(p) == p \in dangling \/ life[task[p]] # "alive"
SeemsAlive(p) == p \in dangling \/ life[task[p]] = "alive"

MonVisit ==
  /\ mpc = "walk"
  /\ \E p \in todo["mon"] :
       \/ SeemsDead(p) /\ Reap("mon", p)
       \/ SeemsAlive(p) /\ Skip("mon", p)
  /\ UNCHANGED <<mod, timerVars, workVars, life, callerVars>>

(* Mutant: the work returns without spin_unlock. *)
MonReturnLocked ==
  /\ mpc = "walk" /\ todo["mon"] = {} /\ mpc' = "idle"
  /\ UNCHANGED <<mod, timerVars, queued, iopc, listVars, life, callerVars>>

MonUnlock ==
  /\ mpc = "walk" /\ todo["mon"] = {} /\ lock' = "free" /\ mpc' = "idle"
  /\ UNCHANGED <<mod, timerVars, queued, iopc, process_list, task, dangling,
                 todo, usage, life, callerVars>>

(* Mutant: my_fops without .owner, open files do not hold the module. *)
RmmodOpen ==
  /\ mod = "live" /\ mod' = "del_timer"
  /\ UNCHANGED <<timerVars, workVars, listVars, life, callerVars>>

-------------------------------------------------------------------------------
(* rmmod is refused while a descriptor is open.  deferred_exit begins with *)
(* cdev_del and unregister_chrdev_region.                                  *)
Rmmod ==
  /\ mod = "live"
  /\ \A c \in Callers : ~Holding(c)
  /\ mod' = "del_timer"
  /\ UNCHANGED <<timerVars, workVars, listVars, life, callerVars>>

(* Mutant: del_timer, which does not wait for the handler. *)
ExitDelTimer ==
  /\ mod = "del_timer" /\ armed' = FALSE /\ mod' = "flush_io"
  /\ UNCHANGED <<flag, hpc, workVars, listVars, life, callerVars>>

(* del_timer_sync waits for the handler, then detaches the timer. *)
ExitDelTimerSync ==
  /\ mod = "del_timer" /\ hpc = "idle" /\ armed' = FALSE /\ mod' = "flush_io"
  /\ UNCHANGED <<flag, hpc, workVars, listVars, life, callerVars>>

ExitFlushIo ==
  /\ mod = "flush_io" /\ "io" \notin queued /\ iopc = "idle"
  /\ mod' = "flush_mon"
  /\ UNCHANGED <<timerVars, workVars, listVars, life, callerVars>>

ExitFlushMon ==
  /\ mod = "flush_mon" /\ "mon" \notin queued /\ mpc = "idle" /\ mod' = "lock"
  /\ UNCHANGED <<timerVars, workVars, listVars, life, callerVars>>

ExitLock ==
  /\ mod = "lock" /\ lock = "free" /\ lock' = "exit"
  /\ todo' = [todo EXCEPT !["exit"] = process_list] /\ mod' = "walk"
  /\ UNCHANGED <<timerVars, workVars, process_list, task, dangling, usage, life,
                 callerVars>>

ExitVisit ==
  /\ mod = "walk"
  /\ \E p \in todo["exit"] : Reap("exit", p)
  /\ UNCHANGED <<mod, timerVars, workVars, life, callerVars>>

(* spin_unlock and return; the kernel frees the module. *)
ExitUnlock ==
  /\ mod = "walk" /\ todo["exit"] = {} /\ lock' = "free" /\ mod' = "unloaded"
  /\ UNCHANGED <<timerVars, workVars, process_list, task, dangling, todo, usage,
                 life, callerVars>>

-------------------------------------------------------------------------------
(* The monitored processes die and are reaped by their parents. *)
TaskExit(t) ==
  /\ life[t] = "alive" /\ life' = [life EXCEPT ![t] = "zombie"]
  /\ UNCHANGED <<mod, timerVars, workVars, listVars, callerVars>>

TaskRelease(t) ==
  /\ life[t] = "zombie" /\ life' = [life EXCEPT ![t] = "released"]
  /\ UNCHANGED <<mod, timerVars, workVars, listVars, callerVars>>

-------------------------------------------------------------------------------
Ioctl(c) ==
  \/ \E f \in {"SET", "ALLOC"} : IoctlFlag(c, f)
  \/ IoctlCancel(c)
  \/ GetProcLookup(c) \/ GetProcPin(c) \/ GetProcNoMem(c)
  \/ IoctlLock(c) \/ IoctlListAdd(c) \/ IoctlListAddOops(c) \/ IoctlLink(c)
  \/ IoctlFlagMon(c)
  \/ IoctlModTimer(c)

Handler == Expire \/ TestSet \/ TestAlloc \/ TestMon \/ HandlerModTimer

IoWork == IoStart \/ IoDone
MonWork == MonStart \/ MonLock \/ MonVisit \/ MonUnlock

DeferredExit ==
  \/ ExitDelTimerSync \/ ExitFlushIo \/ ExitFlushMon
  \/ ExitLock \/ ExitVisit \/ ExitUnlock

Next ==
  \/ DeferredInit \/ TimerSetup \/ Rmmod
  \/ \E c \in Callers : Open(c) \/ Release(c) \/ Ioctl(c)
  \/ Handler
  \/ IoWork
  \/ MonWork
  \/ DeferredExit
  \/ \E t \in Tasks : TaskExit(t) \/ TaskRelease(t)

Spec == Init /\ [][Next]_vars

(* Fairness.  The kernel runs what is runnable: a pending timer expires, a *)
(* softirq and a queued work item run to their end, a thread inside a      *)
(* system call or inside rmmod goes on.  Spinlocks are queued on x86, so a *)
(* context that waits for a lock that is freed again and again gets it.    *)
(* del_timer_sync polls, and the handler re-arms its timer one second      *)
(* ahead, so it finds the handler out of the way.                          *)
(* Nobody has to issue an ioctl, to close a file, to call rmmod or to die. *)
Fairness ==
  /\ WF_vars(TimerSetup)
  /\ WF_vars(Handler)
  /\ WF_vars(IoWork)
  /\ WF_vars(MonStart \/ MonVisit \/ MonUnlock)
  /\ SF_vars(MonLock)
  /\ WF_vars(DeferredExit)
  /\ SF_vars(ExitDelTimerSync)
  /\ SF_vars(ExitLock)
  /\ \A c \in Callers :
       /\ WF_vars(GetProcPin(c) \/ GetProcNoMem(c) \/ IoctlListAdd(c)
                    \/ IoctlListAddOops(c) \/ IoctlLink(c) \/ IoctlFlagMon(c)
                    \/ IoctlModTimer(c))
       /\ SF_vars(IoctlLock(c))

FairSpec == Spec /\ Fairness

-------------------------------------------------------------------------------
(* Type invariant. *)
TypeOK ==
  /\ mod \in {"unloaded"} \cup Loaded
  /\ flag \in Flags
  /\ armed \in BOOLEAN
  /\ hpc \in {"idle", "test_set", "test_alloc", "test_mon", "mod_timer"}
  /\ queued \subseteq Works
  /\ iopc \in {"idle", "sleep"}
  /\ mpc \in {"idle", "lock", "walk"}
  /\ lock \in Callers \cup {"free", "mon", "exit"}
  /\ process_list \subseteq MonProcs
  /\ task \in [MonProcs -> Tasks \cup {NULL}]
  /\ dangling \subseteq MonProcs
  /\ todo \in [Walkers -> SUBSET MonProcs]
  /\ usage \in [Tasks -> Nat]
  /\ life \in [Tasks -> {"alive", "zombie", "released"}]
  /\ cpc \in [Callers -> {"closed", "open", "mod_timer", "get_task", "lock",
                          "list_add", "link", "flag_mon", "oops"}]
  /\ target \in [Callers -> Tasks \cup {NULL}]
  /\ proc \in [Callers -> MonProcs \cup {NULL, ErrPtr}]
  /\ view \in [Callers -> SUBSET MonProcs]

(* dev.lock is held by exactly the context that is between its spin_lock   *)
(* and its spin_unlock; a thread that died there holds it for ever.        *)
LockOwned ==
  /\ \A c \in Callers : lock = c <=> cpc[c] \in {"list_add", "link", "oops"}
  /\ lock = "mon" <=> mpc = "walk"
  /\ lock = "exit" <=> mod = "walk"

(* The caller has a mon_proc that is not on the list yet. *)
Carries(c) == proc[c] \in MonProcs

(* Every mon_proc that is allocated is on the list or in the hands of one  *)
(* ioctl that will put it there, never both and never in two hands; nothing *)
(* that was freed is on the list.  A list_add that is lost, or an entry     *)
(* freed while it is linked, shows here.                                    *)
EntriesOwned ==
  /\ \A p \in MonProcs :
       task[p] # NULL <=> p \in process_list \/ \E c \in Callers : proc[c] = p
  /\ \A c \in Callers : Carries(c) => proc[c] \notin process_list
  /\ \A c, d \in Callers : Carries(c) /\ proc[c] = proc[d] => c = d

(* A traversal never visits an entry that was taken off the list, by the   *)
(* monitor work or by deferred_exit, after the traversal began.            *)
CursorSafe == \A w \in Walkers : todo[w] \subseteq process_list

(* The module holds exactly one task reference for each mon_proc that      *)
(* pinned its task, however often one process is monitored: none is leaked *)
(* and none is dropped twice.                                              *)
Pins(t) == {p \in MonProcs \ dangling : task[p] = t}
UsageExact == \A t \in Tasks : usage[t] = Cardinality(Pins(t))

(* Once deferred_exit has passed a waiting step, what it waited for does   *)
(* not come back, and the unloaded module has nothing pending, nothing     *)
(* running, no list entry and no task reference.                           *)
TornDown ==
  /\ mod \in Exiting \cup {"unloaded"} => \A c \in Callers : ~Holding(c)
  /\ mod \in {"flush_io", "flush_mon", "lock", "walk", "unloaded"} =>
       ~armed /\ hpc = "idle"
  /\ mod \in {"flush_mon", "lock", "walk", "unloaded"} =>
       "io" \notin queued /\ iopc = "idle"
  /\ mod \in {"lock", "walk", "unloaded"} => "mon" \notin queued /\ mpc = "idle"
  /\ mod = "unloaded" => /\ process_list = {}
                         /\ \A t \in Tasks : usage[t] = 0

(* An entry leaves the list only when its process has died, when its       *)
(* task_struct was never pinned, or when the module goes away.             *)
ReapsOnlyTheDead ==
  [][\A p \in process_list \ process_list' :
       p \in dangling \/ life[task[p]] # "alive" \/ mod = "walk"]_vars

(* deferred.c never runs after rmmod: files, the timer and the two work    *)
(* items hold the module as ModuleText says holders must.                  *)
TextHolders ==
  {c \in Callers : Holding(c)}
    \cup {h \in {"timer"} : armed \/ hpc # "idle"}
    \cup {h \in {"io"} : "io" \in queued \/ iopc # "idle"}
    \cup {h \in {"mon"} : "mon" \in queued \/ mpc # "idle"}

Text == INSTANCE ModuleText
          WITH Holders <- Callers \cup {"timer", "io", "mon"},
               loaded  <- mod # "unloaded",
               holders <- TextHolders

TextSpec == Text!Spec

-------------------------------------------------------------------------------
Oopsed == \E c \in Callers : cpc[c] = "oops"

(* Every listed process is one whose usage counter the module incremented,   *)
(* the counter deferred.c:101 says it decrements.                            *)
ListPinsItsTasks == process_list \cap dangling = {}

(* While the timer stays in monitor mode and nobody cancels it, a monitored *)
(* process that has died is taken off the list.                             *)
DeadAreReaped ==
  \A p \in MonProcs :
    (/\ p \in process_list \ dangling
     /\ life[task[p]] # "alive"
     /\ flag = "MON")
      ~> (p \notin process_list \/ flag # "MON" \/ Oopsed)

(* rmmod comes to its end, whatever was armed, queued or running when it   *)
(* began, as long as no thread died holding dev.lock.                      *)
UnloadCompletes == mod \in Exiting ~> (mod = "unloaded" \/ Oopsed)

(* A timer that was set in tick mode keeps ticking until another mode is   *)
(* chosen or the module goes: no interleaving of two ioctls with the       *)
(* handler loses the re-arming.                                            *)
KeepsTicking ==
  (flag = "SET" /\ mod = "live")
    ~> (hpc = "test_set" \/ flag # "SET" \/ mod # "live")

===============================================================================
