# A TLA+ development of the Linux-kernel-labs modules

The repository holds small Linux kernel modules (character devices, deferred
work, kernel threads, locks, lists, memory mapping), the user programs that
exercise them, and the scripts that boot a virtual machine to load them in.
This directory models the modules that keep state, checks them with TLC, and
proves the main results about them with TLAPS.

The kernel is the one the Makefile of lab13 builds against, linux-6.9.7
(linux-5.15.2 for the samples), with `CONFIG_SMP`, `CONFIG_PREEMPT` and no
forced unloading (`config/default.cfg`). `boot` starts QEMU with one virtual
processor; the models do not rely on it: kernel preemption and the drivers'
own spinlocks are written for several, so a softirq, a worker and a system call
may be anywhere at the same time. Kernel services (timer wheel, workqueue,
locks, module and task reference counts) are not under `src/`; they are
modelled by what that kernel does for the calls the modules make, and those
definitions are marked external in the map.

Paths below are under `src/kernel-utils/`.

## 1. Inventory

| Component | State | Operations | What is hard |
|---|---|---|---|
| `labs/lab13/deferred` | `struct my_device_data`: a timer, a mode flag, two work items, a list of monitored processes and its spinlock | open, release, ioctl SET / CANCEL / ALLOC / MON, timer handler, two work handlers, init, exit | a softirq, two kernel workers, callers and rmmod share one struct; the flag and the timer are not locked; task references |
| `labs/lab13/timer` | one timer | handler that re-arms itself, init, exit | exit against a running handler; jiffies wraps around |
| `labs/lab13/kthread` | two flags, two wait queues, one thread | thread body, init, exit | a handshake in both directions, signals, text freed under a thread |
| `samples/threads_and_locks` | kernel threads and nothing, a spinlock or an rwlock | thread bodies, `kthread_stop` | mutual exclusion, readers against writers, two ways out of a loop, stopping, threads that were never started |
| `labs/lab12/driver` | counters, a mutex held across ioctls, a spinlock, a shared interrupt line | the ioctls, interrupt handler, init, exit | a lock whose holder is a process, a handler that overwrites the counters, a device that appears before init has cleared them |
| `labs/lab11` | a buffer, its size, an exclusive-open flag, file positions | open, release, read, write, ioctl GET / SET | one flag for all openers, size and offset arithmetic, calls on one file at once |
| `labs/lab10/api_assignment` | a kernel list of names behind two files in `/proc` | addf, adde, delf, dela, preview, init, exit | no lock between writers, readers and exit; unsigned sizes |
| `labs/lab10/list_example` | lists filled in init | add, remove, free | a search that finds nothing |
| `labs/lab14` | an area of kernel pages, its size, the mappings of it | open, mmap, fork, munmap, read, init, exit | a device that appears before its area; mappings that outlive files; what failure leaves behind |
| `labs/lab9` | the numbers and the loops' ints | primality test in a module and a user program; wrappers of two system calls | square root and boundary arithmetic, overflow |
| `boot`, `mk-*`, `exit_vm.sh` | pid file, mounted image | boot, build image, stop | failure half way, two boots at once |
| `labs/lab8`, `samples/simple_modules`, `samples/character_devices` | none beyond being loaded or registered | print a line | nothing |

**How they interact.** The modules do not call each other; each meets the same
kernel. What they have in common is the contract of `module_init` and
`module_exit`: the kernel frees text and data when exit returns, so everything
through which it can still enter the module must be gone. `ModuleText` states
that contract once, and every component names its own holders. Within a
component the actors are: processes in system calls (several at once, on one
file or several), rmmod, timer softirqs, kernel workers, kernel threads and
interrupt handlers. They communicate through the static data of the module, a
lock when there is one, and wake-ups.

**What makes each component correct.**

- *deferred*: the list is changed under its lock only; every `mon_proc` has one
  owner; every task reference is dropped once; the monitor unlinks only dead
  processes and, while it runs, all of them; a tick timer keeps ticking;
  CANCEL is final; exit leaves nothing pending, running, listed or pinned, and
  comes to its end.
- *timer*: every expiry is near, wherever jiffies wraps; messages are a timeout
  apart and never cease while the module is loaded; nothing runs after exit.
- *kthread*: neither wake-up is lost; the thread stops only when told; exit
  returns only when the thread is out of the module's text.
- *threads and locks*: writer alone, lock given back on every way out, no
  request for the lock starves, all threads stopped before the text goes.
- *lab12 driver*: each user of the counters sees its own arithmetic only and
  leaves them clean, also one who comes too early; everybody gets the mutex.
- *lab11*: one file has the device open; a closed device can be opened; no call
  leaves the buffer.
- *lab10*: at every store the list is the sequence its commands describe; one
  change at a time leaves a sound list; a read that no deletion disturbs shows
  a whole list.
- *lab14*: a mapping never exceeds the area and never shows a page that init
  has not stamped; what is stored through it stays as long as it is in use.
- *lab9*: the test answers "prime" exactly for primes (it does not, for 2), and
  never overflows.

The hazards of all of these, each at its line, are in `PROJECT.json`.

## 2. Modules

| Module | Models | Extends / uses |
|---|---|---|
| `ModuleText` | abstract: what a loadable module promises about its text | |
| `Deferred` | `lab13/deferred/kernel/deferred.c` | implements `ModuleText` |
| `DeferredCancel` | the same with a history variable for CANCEL | `Deferred` |
| `MCDeferred` | command sets and symmetry for TLC | `Deferred` |
| `DeferredProofs` | proofs | `Deferred` |
| `SimpleTimer` | `lab13/timer/timer.c` | states `ModuleText` |
| `KThread` | `lab13/kthread/kthread.c` | states `ModuleText` |
| `MCLab13` | timer and thread loaded side by side | `SimpleTimer`, `KThread` |
| `Lab13Proofs` | proofs | `SimpleTimer`, `KThread` |
| `LockedThreads`, `LockedThreadsProofs` | the three samples of `threads_and_locks` | implements `ModuleText` |
| `MCLockedThreads` | `simple_rwlock.c` as an instance | `LockedThreads` |
| `IrqDriver` | `lab12/driver/driver.c` | |
| `IoctlTest` | the commands of parent and child of `ioctl_test.c` | `IrqDriver` |
| `MCIrqDriver` | who runs which of them (`test.sh`) | `IoctlTest` |
| `IrqDriverProofs` | proofs | `IoctlTest` |
| `CharDev`, `CharDevProofs` | `lab11/my_cdev.c` | implements `ModuleText` |
| `NameList` | abstract: a sequence of names that changes by whole entries | |
| `ProcList` | `lab10/api_assignment/kernel-api/list.c` | implements `NameList` and `ModuleText` |
| `ListExample` | `lab10/list_example/list_example.c`, as operators on sequences | |
| `MCProcList` | symmetry, and the check of `ListExample` | `ProcList`, `ListExample` |
| `ProcListProofs` | proofs | `ProcList` |
| `Mmap`, `MmapProofs` | `lab14/kernel/mymmap.c` with the stores of `mmap-test.c` | |
| `Prime`, `PrimeProofs` | `lab9/prime_kmod.c` and `prime_user.c` | |
| `MCPrime` | the sizes asked for | `Prime` |

Operators whose comment says *Mutant* are wrong versions of the definition that
follows them. No specification uses them; each documents which change of the
code a property would catch.

### ModuleText

Two variables, `loaded` and the set of `holders`. A holder may come, go, or hand
over to another (a timer handler that returns after `schedule_work`) while the
module is loaded; the module is unloaded when there is none. A component
implements it with `Text == INSTANCE ModuleText WITH ...`; its holders are open
files, pending or running timers and works, and threads in a function of the
module.

### Deferred

| TLA+ | Code |
|---|---|
| `mod` | life cycle; `coming` is the part of `deferred_init` after `cdev_add`; the positions in `deferred_exit` |
| `flag`, `lock`, `process_list` | the members of `dev` |
| `armed`, `hpc` | `dev.timer` is pending; position in `timer_handler` |
| `queued`, `iopc`, `mpc` | pending bits of the works; positions in their handlers |
| `task`, `dangling` | `mon_proc.task` of every allocation; those whose task was freed before it was pinned |
| `todo` | what each `list_for_each_entry_safe` has yet to visit |
| `usage`, `life` | references this module holds on a `task_struct`; alive, zombie, released |
| `cpc`, `target`, `proc`, `view` | position and locals of each caller; `view` is the `head->next` its `list_add` has read |

An ioctl is split at every access to shared data: the flag is one step and
`mod_timer` another, `get_proc` is a lookup and a later pin (the RCU section
ends in between), `list_add` reads the head and then links. What several steps
do alike is an operator: `Got` (`get_task_struct`), `Put` (`put_task_struct`),
`Unlinked` (`list_del`), `Visited` (the walk moves on). `timer_handler`
reads `dev.flag` once per test. `get_proc` returns an `ERR_PTR`, never `NULL`,
so the test at `deferred.c:174` stops nothing: `list_add` faults and the thread
dies with `dev.lock` held (`IoctlListAddOops`). Delays are not modelled: a
pending timer may expire at any moment, so any `arg` is covered.

### SimpleTimer

`jiffies` has `Wrap` values and wraps; `Reached` is the signed comparison of the
timer wheel. `Tick` passes time; an expired timer or a running handler is late
by at most `MaxLate`. `since` is a history variable, the time since the last
message. `timer_exit` uses `del_timer`, which does not wait, so a handler may go
on in freed memory; `TimerInit` waits until it is gone, since what an unloaded
handler does to a new load means nothing.

`MCLab13` puts this module and `KThread` side by side: they share nothing, each
keeps its own fairness, and one run answers the questions of both.

### KThread

`wait_event_interruptible` is taken apart (`FirstTest`, `Prepare`, `Test`,
`Schedule`), since losing a wake-up is a matter of their order; `WakeUp` takes the
waiter off its queue. A signal makes the wait of the exit give up, and
`my_kthread_exit` ignores that. `KthreadMayFail` lets `kthread_run` fail, a
result the code does not test. Names that `SimpleTimer` has too begin with
`KT`, so that `MCLab13` and `Lab13Proofs` can extend both modules.

### LockedThreads

The three samples are instances of one module: `Lock[t]` says how thread `t`
takes the lock (`none` in `simple_kthread.c`), `Checks[t]` whose pending signal
it looks at (`simple_rwlock.c:27` looks at thread 1's in all five readers).
`queue` is the order of qspinlock and qrwlock. `SIGKILL` ends a thread, its
`task_struct` is then freed (`FreeTask`), and a later `kthread_stop` on it, or
on the `ERR_PTR` of a failed `kthread_run`, kills rmmod (`mod = "oops"`).

The `ERR_PTR` is also what the threads look at: `signal_pending` dereferences
it, inside the critical section, and the thread dies there with the lock
(`Oopses`, third case of `Body`). Everybody who wants the lock then waits for
ever, and rmmod for them. `DiedInside(t)` is such a thread: the lock has no other
owner than the threads inside and those (`LockReleased`), and progress is
claimed where there is none.

### IrqDriver

An ioctl, and the handler, is a sequence of accesses (`Code`, `Handler`) that the
processes execute one at a time: a counter increment is a load and a store, SUM
reads five counters one by one. `dev_mutex` is held from the LOCK ioctl to the
UNLOCK ioctl. `INT` runs the handler where init wrote the vector, or nothing at
all on another processor or before that. A killed process leaves the mutex
locked. Init takes nothing back when it fails, and `free_irq` with a null
`dev_id` removes nothing: both are in the model (`registered`). When init fails
under a process that has the device open, that process is in freed text, and
the model stops there (`Run` asks for `mod # "failed"`).

`cdev_add` lets processes in before init has cleared the counters, which it does
store by store (`InitData`). The processes of `EarlyOpen` may use that; `early`
remembers which did. Init stores over what such a process has counted, so its
sums are wrong, and `ExpectedSums` leaves them out: the third field of `printed`
says whether the line is of one of them. Nobody else notices: init writes zeros
only, so whoever takes the mutex still finds clean counters (`CleanHandover`).

Nothing in `driver.c` makes a process take the mutex: that is up to its program.
`Careful(p)` says what the programs of `ioctl_test.c` do: all work between LOCK
and UNLOCK, a RESET right before every UNLOCK. An `ASSUME` of `MCIrqDriver`
checks it for both of them, and `CarefulParent` and `CarefulChild` prove it.

### CharDev

What the buffer holds is left out; a call is the part of the buffer it touches,
computed from position and size when it begins (`Begin`) and applied later
(`End`). `Length` is the code's `min` over unsigned differences.

### NameList and ProcList

| TLA+ | Code |
|---|---|
| `mod` | steps of `list_init` and of `list_exit`; `overlap`, `fault`: see below |
| `nxt`, `prv` | `list_head` of every entry and of `name_list` |
| `name` | the name in an entry, by its length; `Free` when not allocated |
| `task` | position and locals of the writer, or of rmmod, that changes the list |
| `reader` | position and locals in `list_proc_show`; `shown` and `from` are history: the names printed, and the list at the start |
| `torn` | history: the readers that an entry was unlinked under |

`__list_add` and `__list_del` are the stores of `list.h`, one step each for
those a walker from the head can tell apart: links of the new entry, then
`prev->next`; `next->prev`, then `prev->next`, then poison and `kfree`. The
walk of `list_for_each_entry_safe` reads the next entry before the body frees
the current one. `NameSize` is the unsigned `count - 5`.

`NameList` is what the users of `/proc/list` may rely on. Its step is the whole
command (one entry of it, for dela); the refinement mapping is the forward walk
from the head, so `NameListSpec` says that at each single store a reader who
starts then finds the list before or after a command, never a part of it.

There is no lock. Two changes at once (two writers, or a writer and the
`destroy_list` of rmmod) leave a state that `list.h` does not describe: the model
goes to `overlap` and stops. A reader at an entry that was freed goes to
`fault` and stops. So the properties describe changes that do not overlap, and
`FaultsNeedDeletion` that a fault has no other cause than a deletion under a
reader. `proc_remove` waits for calls in progress, which is what keeps the
module's text (`TextSpec`), not `.owner`. Between the end of `destroy_list` and
`proc_remove` (`destroyed`) a write may still come in, and is then inside when
the removal begins: `NoCall(Writers)` is what it waits for.

`ListExample` gives `add_task_struct_to_list`, `remove_node_of_list_with_search`
and the freeing of the rest as operators; an `ASSUME` of `MCProcList` checks
that init leaves all but the removed one for every way in which `kmalloc` may
fail.

### Mmap

`mymmap.c` begins with `#define USE_KMALLOC`, so the vmalloc and page
allocator branches are not in the build and not in the model. `size` is `dev.size`
in pages, 0 until init has stamped the area; `content` says who wrote last to
each part of a page: `raw` from the allocator, init's `stamp`, or a process's
`text`. The parts are the `head`, the four bytes init writes, and the `rest`,
which `kmalloc` has not cleared and init does not write. `map` gives
each mapping its file and pages: a mapping keeps its file after close, is copied by
`fork`, and loses pages by `munmap`. `remap_pfn_range` starts at page 0 of the
area whatever offset was asked. `failed` is an init that has failed after
`cdev_add`: the kernel frees the module, the device is left, a file opened early
refers to freed text, and the model stops. So `Mmap` is no instance of
`ModuleText`; what the reference counts are for is stated for the data instead
(`StoresSurvive`).

### Prime

One state machine for both programs, because they have the same two loops;
`prog` decides the allocation, the range of the numbers and the end. Overflow of
an `int` is undefined behaviour: `overflow` stops the model. `crash` is the
`free` of an unset pointer at the end of `prime_user.c`. The random number
is any number in its range, chosen when it is looked at.

## 3. Runs

| Run | Question | Answer |
|---|---|---|
| `deferred_safety` | are list, lock, references and tear-down consistent in every interleaving? | yes: `TypeOK`, `LockOwned`, `EntriesOwned`, `CursorSafe`, `UsageExact`, `TornDown`, `ReapsOnlyTheDead`, and `TextSpec` (refines `ModuleText`) |
| `deferred_live` | does the timer keep its mode going, is every dead process reaped, does rmmod return? | yes: `KeepsTicking`, `DeadAreReaped`, `UnloadCompletes`, and no deadlock |
| `deferred_cancel` | is a cancelled timer off? | no: the running handler re-arms it (`CancelIsFinal`) |
| `lab13_modules` | timer: are expiries near, messages a timeout apart, and do they go on, across the wrap? kthread: is a wake-up ever lost, does exit hear the thread? | yes: `ExpiresInWindow`, `MessagesApart`, `KeepsPrinting`; no wake-up is lost: `HandshakeEnds`, `StopsOnDemand`, `ExitHeardThread` |
| `rwlock_sample` | exclusion, release, fairness and stopping in `simple_rwlock.c`? | yes: `Exclusion`, `TextSpec`; and but for threads that died on an `ERR_PTR`: `LockReleased`, `UnloadCompletes`, `RequestsGranted` |
| `irq_test` | do the test programs see the sums `test.sh` expects, beside one that came before init was over? | yes: `ExpectedSums`, `CleanHandover`, `TestsEnd`, `TypeOK` |
| `cdev_safety` | one opener, never stuck, closed at rmmod? | yes: `Exclusive`, `NeverStuck`, `TextSpec` |
| `cdev_write` | does a call stay inside the buffer? | no: after SET_BUFFER the unsigned difference wraps (`InsideBuffer`) |
| `proc_list` | is the list a sequence of names for readers, at every store? | yes, for changes that do not overlap: `TypeOK`, `WellLinked`, `Thorough`, `ReadsWhole`, `FaultsNeedDeletion`, `TextSpec`, and `NameListSpec` (refines `NameList`) |
| `mmap` | does a process ever see memory outside the area or not stamped yet, and does what it stores stay? | no page is shown too early or outside: `ShowsStampedArea`; it stays: `StoresSurvive` |
| `prime` | is what is counted prime, is a prime from 3 on ever missed, and can a number overflow the loops? | yes, and none is missed: `CountsPrimes`; not in the module: `NoOverflow` |
| `prime_two` | is no prime missed? | 2 is: it is its own nearest root (`CountsEveryPrime`) |

### Bounds

- `DeferredSafety`: two callers, two processes, two `mon_proc` (symmetric).
  Two callers are needed for two ioctls to meet; two `mon_proc` for one process
  monitored twice, for a walk that removes one entry and keeps another, and for a
  `list_add` against a walk; two processes for one that dies beside one that
  lives. `EarlyOpen` and `GetProcMayFail` are TRUE. The pool of `mon_proc` stands
  for memory and is the only bound on a counter (`PoolRoom`): no lookup
  starts when it could run dry. The theorems remove all three bounds.
- `DeferredLive`: two callers, one process, one `mon_proc`, the three commands
  that arm the timer. CANCEL is left out because it stops the timer on purpose;
  symmetry is left out because it is unsound for liveness. `EarlyOpen` is FALSE:
  see *Known disagreements*. An oops cannot be recovered from, so the properties
  excuse it; here `GetProcMayFail` is FALSE and it does not occur.
- `DeferredCancel`: one caller, one process, one entry are enough for the
  counterexample.
- `Lab13`, timer: timeout 3, lateness 2, wrap 12. The wrap is more than twice
  timeout plus lateness, as 2^64 is; the run passes the wrap at every phase of
  the period, and 2 ticks of lateness in either expiry or handler tell "from
  now" apart from "from the last expiry".
- `Lab13`, kthread: nothing to bound, one thread and one exit, with a signal and
  a `kthread_run` that may fail. The product of the two modules is 352 000 states.
- `RwlockSample`: two of the five readers and the writer. Two readers are needed
  for readers to share and to overtake; thread 1 is the one whose task all
  readers look at, the second stands for the other four. The writer looks at
  thread 2. Any of them may fail to start (`MayFail`), so that both kinds of
  thread meet an `ERR_PTR` inside. The proofs cover any number of threads and any
  mix of locks, so the two other samples as well.
- `IrqTest`: a parent and a child of `ioctl_test.c`, and `e1`, which runs what
  the parent does in its second half and may open the device before init is
  over. Any two can contend, with a third left waiting; `e1` is at any of its
  commands, holding the mutex, at each store of init. Only one process is early,
  since two of them meet at the mutex as later ones do. Counters go no further
  than 5 between resets (`TypeOK`). The theorems have any number of parents and
  children, and any of them early where they say so.
- `CharDev`: two files, two calls, a buffer of 4, a SET of 2, counts up to 3: a
  transfer may stop before, at and beyond the end, and a SET can shrink the size
  below the position.
- `ProcList`: one writer (a second adds only overlaps, at which the model
  stops; rmmod is the second changer), one reader (readers do not affect one
  another), three entries so that one is deleted between two others and two
  with one name surround a third. `Counts` has 3 (the unsigned length wraps and
  is rejected), 6 (one character), 132 and 133 (127 characters, the longest
  accepted, and 128). `UINT` is 2^16 instead of 2^32: all that matters is that
  a wrapped length exceeds every limit. What a write after `destroy_list` leaks
  is given back at unload, so that the entries bound one load.
- `Mmap`: three pages, mappings of up to four asked for (one too long), two
  files and two mappings: one made, one forked, by a file that closes before
  the other.
- `Prime`: a 6-bit int (`INT_MAX` 31) and at most 20 numbers from `kmalloc`, in
  the proportion of 2^31 and what `kmalloc` really gives: the module's numbers
  stay below the square that overflows, the program's need not. Sizes are
  negative, 0, 1, an ordinary one, the largest allocation and `INT_MAX`.

### Fairness

- *Deferred*: weak fairness for every context that is runnable: the kernel runs
  pending timers, queued works, a thread inside a system call and rmmod. Strong
  fairness for each wait on `dev.lock`, because spinlocks on x86 are queued, so
  one that is released again and again is obtained; and for `del_timer_sync`,
  which polls while the handler re-arms a second ahead. Nobody has to issue an
  ioctl, close a file, die or call rmmod.
- *SimpleTimer*: time passes, init and exit run to their end, expired timers and
  handlers run.
- *KThread*, *LockedThreads*: both sides are scheduled. Lock waiters need no
  strong fairness, since the queue is in the model.
- *IrqDriver*: a process with the device open is scheduled. Weak fairness is
  enough for the mutex, because each program takes it once and the last holder
  is done.

`CHECK_DEADLOCK FALSE` stands where the program may really stop: a caller that
oopsed with `dev.lock` held (deferred), a wait for a thread that was never
started (kthread), rmmod that died (rwlock), all programs over or the mutex lost
(irq), a call that left the buffer, after which the model stops (cdev), an
overlap or a fault (list), a failed init (mmap), the end of the program (prime).
`DeferredCancel` stops at its counterexample. `TypeOK` of `Mmap` and `Prime` is
proved and in no run. `ProcList`, `Mmap` and `Prime`
state safety only and no fairness.

### Known disagreements

Three are runs with a finding in `PROJECT.json`: `deferred.c:160`,
`my_cdev.c:116` and `prime_user.c:21`. The following are in the models, and
reached with the constants named, but have no run of their own:

- `deferred.c:74`: a task may be freed between lookup and pin, so not every
  listed process holds the reference that will be dropped (`ListPinsItsTasks` of
  `Deferred` is violated; `UsageExact` accounts for the difference).
- `kthread.c:49`: the thread announces its end before its last instructions, so
  rmmod can free the text under it (`KTTextSpec` of `KThread` is violated).
- `simple_rwlock.c:27`: readers 2 to 5 look at thread 1's task after it was freed
  (`ChecksExistingThreads` of `LockedThreads` is violated).
- `deferred.c:174`: the `NULL` test lets an `ERR_PTR` through, and the ioctl
  dies with the lock held, which stops the monitor and rmmod for ever. The run
  `deferred_safety` reaches this state; `LockOwned` describes it.
- `deferred.c:222`: `timer_setup` follows `cdev_add`, so a SET through an early
  open is lost (`EarlyOpen = TRUE` violates `KeepsTicking`).
- `timer.c:54`: `del_timer` where the comment above asks for the timer to be
  stopped; `TextSpec` of `SimpleTimer` fails for the reason of
  `deferred_cancel`, which is why it is in no run.
- `kthread.c:67`, `:83`: a failed `kthread_run` makes exit wait for ever; a
  signal makes it not wait. The properties are stated for the other cases.
- `simple_rwlock.c:27`, `:57`, and the same in `simple_spinlock.c`: after a failed
  `kthread_run` the first thread to look at its `ERR_PTR` dies with the lock held,
  which stops the other threads and rmmod for ever (`DiedInside`; `rwlock_sample`
  reaches it, and its properties are stated for the other cases).
- `simple_kthread.c:38`, `:51`: `kthread_stop` on an `ERR_PTR`, or on a thread
  that a signal ended (`mod = "oops"` in `LockedThreads`).
- `my_cdev.c:192`: `access` is cleared after `cdev_add`, which admits a second
  opener (`EarlyOpen = TRUE` violates `Exclusive`).
- `driver.c:222`, `:227`: the counters are cleared after `cdev_add`, so an early
  process loses what it has counted and prints another sum (`ExpectedSums`
  without its exemption, `~printed[3]`, is violated).
- `driver.c:240`, `:261`: failed init leaves a cdev, exit leaves the handler
  (`registered`). `simple_ioctl.c` uses the counters without the mutex, so with
  it among the clients `ExpectedSums` fails.
- `my_cdev.c:144`: GET copies up to 4096 bytes to a smaller user buffer; the
  model has the length and no property about it.
- `list.c:104`, `:222`: a read beside a deletion may use freed memory (`fault`);
  two changes at once may meet (`overlap`); an entry added after `destroy_list`
  is leaked. `list.c:159`: a failed addition is reported as a success.
- `mymmap.c:161`, `:191`: `kmalloc` does not clear the area and init writes 4
  bytes of each page, so a mapping shows raw kernel memory in the rest of it
  (`content[p].rest = "raw"` in a mapped page), though init logs "memory
  initialize success!" (`:214`). `mymmap.c:164`: when `kmalloc` fails after
  `cdev_add`, the kernel frees the module while the device, and perhaps an open
  file, still lead into it.
- `mymmap.c:6`: the `#define` leaves the module parameters of the other
  allocators without effect. `mymmap_exit` does not free the area. lab12, lab13
  and lab14 register the same   major number, so that only one of them is
  loaded at a time.
- `prime_kmod.c:26`: passes over 2 as `prime_user.c:21` does. `prime_user.c` frees
  a pointer it never sets, and a large `-n` overflows `iter * iter`.

## 4. Proofs

The theorems hold for every value of the constants that satisfies the named
assumption of the component (`DeferredAssumption` and so on). These ask for
disjoint names and, in Deferred and ProcList, a finite pool of memory. Prime's
asks that the square of the first root past a number of the module be an int:
4 MB of `kmalloc` are 2^20 numbers, far below 46340^2. SimpleTimer's asks that
jiffies have more than twice as many values as a timeout plus the lateness of a
softirq, which is what the signed comparison of the timer wheel needs.

| Module | Theorems |
|---|---|
| `DeferredProofs` | `TypeCorrect`, `MutualExclusion`, `ListIntegrity`, `TraversalsAreSafe`, `ReferencesBalance`, `CleanUnload`, `OnlyTheDeadAreReaped`, `Refinement`, all from `Invariance` |
| `Lab13Proofs` | of SimpleTimer `TypeCorrect`, `ExpiryNearby`, `TimeoutBetweenMessages`, from `Invariance`; of KThread `StopsOnlyOnDemand`, `ExitHears` |
| `LockedThreadsProofs` | `LockExcludes`, `LockIsReturned`, `NothingRunsAfterRmmod` |
| `IrqDriverProofs` | for careful programs `HandoverIsClean`, `MutexProtects`, from `Inductive`, and `SessionsAreSerial`, from `OutlinesHold`; for those of `ioctl_test.c` `SumsAreExpected`, and `TypeCorrect` (assuming `EarlyOpen = {}`) |
| `CharDevProofs` | `TypeCorrect`, `ExclusiveOpen` (assuming `~EarlyOpen`), `CanReopen`, `Refinement` |
| `ProcListProofs` | `TypeCorrect`, `RingIsSound`, `WalksAreThorough`, `ReadsAreWhole`, `FaultsAreReads`, `ImplementsNameList`, `ImplementsModuleText`, all from `Inductive` |
| `MmapProofs` | `TypeCorrect`, `OnlyStampedIsShown`, `TextStays` |
| `PrimeProofs` | `TypeCorrect`, `ModuleNeverOverflows`, `PrimalityTest` |

*Deferred.* None of the invariants of the run is inductive alone. `IInv` adds:

- `CallerInv`: a caller's locals agree with its position, and at `link` the head
  it has read is still the list. Without it `EntriesOwned` breaks in
  `IoctlLink`, which would write back a stale list. It holds because only the
  lock's owner changes the list (`LockOwned`).
- `WalkInv`: a traversal has entries left only while it holds the lock, and
  that of exit has yet to visit all that is listed. Without it `CursorSafe`
  breaks when the other walker unlinks, and `TornDown` when exit unlocks.
- `DanglingInv`: a dangling entry is allocated, so that a pin changes the count
  of entries and the reference count together (`UsageExact`, by the cardinality
  lemmas `PinUsage`, `ReapUsage`).
- `UnloadedInv`: the lock is free when the module is unloaded.

Each conjunct has its own step lemma (`LockStep`, `CallerStep`, `WalkStep`,
`UsageStep`, `EntriesStep`, `TypeStep`, `TornDownStep`) with a case per action.
`Refinement` then maps every step to a step of `ModuleText` or a stutter
(`TextNext`): each action moves at most one holder, or hands one over, and
`ExitUnlock` finds none by `TornDown`.

*SimpleTimer.* `IInv` measures an armed timer in jiffies. Either it expires in
`k` of them and the last message is at least `Timeout - k` old (`Ahead`), or it
has expired `late` jiffies ago and the last message is a timeout old (`Past`).
`NotYet` and `Ripe` show that `Reached`, the signed comparison, tells these two
apart wherever jiffies wraps, and `Closer` and `Later` what one tick makes of
them. So an armed timer is in its window (`ExpiryNearby`), and one that is due
(`DueIsPast`) has its timeout behind it.

*KThread.* `KInv` ties each flag to
the place of the other side in the protocol: `terminated` implies that the
thread is past its wait, which implies `stop`, which implies that exit has
begun; a waiter that is `done` has seen its flag or a signal.

*LockedThreads.* `IInv` is `TypeOK`, `LockReleased` and `Exclusion`, with
`NoLockNoUse` (a thread without a lock is never at a place where it takes or
gives one back) and `OrderInv` (init starts threads that do not exist yet, exit
has stopped all before `nxt`, none runs when the module is unloaded). A thread
that died with the lock is no exception to `Exclusion`: the others never get in.

*IrqDriver.* `CleanHandover` alone is not inductive: it says nothing of what the
holder still has to do. `IInv` follows every process through its program. Who
does not hold the mutex has nothing but a LOCK to execute (`Outside`). Who holds
it is at work, or in the RESET before UNLOCK, or at UNLOCK with clean data
(`Inside`). In the middle, `Resetting(c, j)` says that the first `j` stores of
the RESET are done: so many counters are 0, then `acc`, then `sum`. `OneMoves`
reduces a step of one process to that process, since the others can at most wait
for the mutex; `HolderStep` reduces an access to what it does to a RESET. The
handler is work of whoever raised it, because it is raised by an ioctl. A kill
changes nothing: the mutex stays locked, and the data with it.

From there it is a matter of what each program computes, and the proof is that
of a sequential program. `Effect(kind, d)` is what a command, or the handler,
makes of data `d` when nothing else touches it; an `Outline` of a program says
which data there can be after each of its commands, from clean counters, and is
checked command by command without any of the others. `HInv` is the invariant
of all processes together: whoever does not hold the mutex waits for it or has
given it back (`Waiting`), and whoever does is at some access of its last
command, with the data as far as `Half` says (`Working`): a counter has its old
value until the store to it and its final one from there on, and the registers
hold what the next access needs. `HalfStep` is the step of one access, with a
lemma per command. `OthersFollow` says that the others do not notice, which is
where the mutex is used, and `FollowMutexLock` that the next one finds what its
outline starts with, which is `HandoverIsClean`. `Loading` is needed because
`my_driver_init` writes the counters too: at that time only early processes use
the device and hold the mutex. They owe nothing to their outlines, which init may
spoil, and `EarlyMoves` shows that they spoil nobody else's: the reset before
their UNLOCK is theirs, and what init stores meanwhile is 0.
So `OutlinesHold` holds for all programs that are careful and every `EarlyOpen`,
for the processes that came after init, and `SessionsAreSerial` says what it
means for the data. `HandoverIsClean` and `MutexProtects` make no exception.

`OfParent` and `OfChild` are the outlines of `ioctl_test.c` (`OutlineParent`,
`OutlineChild`): `Filled(m)` after `m` commands of the rounds of increments, and
after the child's INT either nothing or what the handler leaves, because the
interrupt may be dropped. What is before each PRINT in them is what `test.sh`
expects (`SumBefore`), and what a handler prints is 15 less than the 0 it found:
that is `SumsAreExpected`. No number in them leaves the ranges of `TypeOK`
(`InBounds`), which is claimed where nobody is early (`EarlyOpen = {}`).

*CharDev.* `access = 0` exactly when no file is open, and nothing is open before
init has ended; the second part is where `EarlyOpen` must be FALSE. `CanReopen`
and `Refinement` need no such assumption.

*ProcList.* The properties speak of the walk from the head, which `Chain` defines
by recursion. `WalkIsRing` replaces it by a sequence: when the links of a
sequence `s` of distinct entries lead from the head through `s` and back
(`Ring(s)`), the walk is `s`. It has a solution since the ring gives one, and
only one since two would differ at a least place. `InsertRing`, `RemoveRing`,
`InsertBack` and `RemoveBack` are what the stores of `list.h` do to such a
sequence and to its mirror image. `IInv` has four parts:

- `HeapInv`: at every store of `list.h` there is a ring. `prv` is its mirror
  image but between the two stores of an insertion or a removal, and every
  allocated entry is on it but the one a job is adding or has just unlinked.
- `JobInv`, part of it: the locals of the active job are still right. The
  neighbours it has read are neighbours (`Linking`, `Unlinking`), the entry it is
  at or goes on with is on the ring (`Visiting`, `Leaving`), and nothing that the
  walk has passed is selected (`Passed`), which is what makes `Thorough` true.
- `ReadInv`: for a read that is not torn there is a number of entries, those
  added in front of it since, such that `from` and `shown` are the names on the
  ring that follow them, and the read is at the entry after what it has shown.
  It is kept because additions happen at the two ends of the list only.
- `ControlInv`: one job at a time, and which phase of the module allows which
  jobs and reads (`Phases`): a write may go on until `proc_remove` has waited for
  it. This is where the stop at `overlap` is used.

`ListStep` then says what each store does to the names on the ring, nothing or
one step of `NameList`, and `NamesNext` and `TextNext` conclude.

*Mmap.* `IInv` says why the order of `mymmap_init` is enough although the device
comes first: a live module has an area with all its stamps (`FilledInv`), which
are there page by page while init runs and nobody has written before
(`StampInv`); until then the size is 0 (`SizeInv`), and so nothing is mapped
(`MapInv`), nor ever beyond the area (`InsideInv`). For `TextStays`: the steps
that write the area anew find nobody (`UnloadedInv`, `MapInv`), since a mapping
has a file of its own (`FileInv`) and a file keeps `mymmap_exit` away.

*Prime.* `RootInv` and `DivideInv` are the loop invariants of `get_nearest_sqrt`
and `check_if_prime`: the square below the root is less than the number, and no
number below `iter` divides it. `RootSuffices` turns them into primality (of a
divisor beyond the root and its cofactor, one must be below), and
`RootIsProper` shows that what divides is a proper divisor from 3 on.

**Only model-checked.** Liveness (`KeepsTicking`, `DeadAreReaped`,
`UnloadCompletes`, `KeepsPrinting`, `HandshakeEnds`, `RequestsGranted`,
`TestsEnd`), which is outside this prover's reach, the three violations, and the
`ASSUME` of `MCProcList` about `ListExample`, whose operators are folds over
sequences and would take an induction. Every invariant and every refinement
that a passing run checks is a theorem, `Exclusive` under the assumption
`~EarlyOpen` and those of `IrqDriver` under what is said of the programs and of
early processes.

## 5. What is not modelled

- Text: `ioctl_command_to_string` and all log messages, the byte contents of the
  lab11 buffer, names beyond their length (lab10), strings written to a mapping
  (lab14), the timing of lab9; `mymmap_read` and the `my_read`, `my_write` of lab12, which
  print or return their count and change nothing; the log lines `test.sh` counts.
- Memory ordering between processors: steps are sequentially consistent. The
  shared flags and list heads are aligned words, and what is modelled is the order
  of accesses.
- What the kernel does to a list that two changes have met on, or with memory
  used after it was freed: `ProcList` stops there, because any outcome is
  possible and none says more about the code.
- The vmalloc and page allocator variants of lab14, which are not built.
- `list_practice.c`, the same exercise as `list_example.c`, and
  `linked_list.c`, a user program on a list of its own that nothing else touches.
- `prime_syscall.c`, whose kernel side is not in the repository; modules that only
  print; configuration data; the image scripts, whose effects depend on QEMU, `sudo`
  and the mount table (`boot:51` tests the pid file before QEMU creates it, so
  two boots started together both find it missing).

## 6. Plan

All modules planned for the kernel code are written, and each has its proofs.
What is left:

1. Outlines of programs other than `ioctl_test.c`, which need no new proof of
   the driver: `OutlinesHold` takes any.
2. `BootVM`: the pid file and `exit_vm.sh`.

Runs stay few. When a later component needs one, a question that its own model
repeats gives way to it, and the answer stays under *Known disagreements*.
