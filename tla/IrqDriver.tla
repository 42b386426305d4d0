------------------------------ MODULE IrqDriver ------------------------------
(* labs/lab12/driver/driver.c: five counters and their sum, worked on by    *)
(* ioctls of any number of processes and by the handler of an interrupt     *)
(* that one of the ioctls raises.  The handler takes a spinlock, the ioctls *)
(* take nothing: two of the commands lock and unlock a mutex for their      *)
(* caller, who holds it from one ioctl to another.                          *)
(*                                                                          *)
(* An ioctl is a sequence of accesses to the shared data; the processes and *)
(* the handler interleave at each of them.                                  *)
EXTENDS Integers, Sequences

CONSTANTS
  Clients,   \* processes that use the device
  Program,   \* Program[c]: the commands c issues, in order
  MayDie,    \* a process may be killed
  EarlyOpen  \* processes that may open the device while init still runs

Counters == 0 .. 4
Commands == {"PRINT0", "PRINT1", "PRINT2", "INC_0", "INC_1", "INC_2", "INC_3",
             "INC_4", "INC_ALL", "INT", "SUM", "RESET", "LOCK", "UNLOCK"}

ASSUME IrqDriverAssumption ==
  /\ Program \in [Clients -> Seq(Commands)] /\ "none" \notin Clients
  /\ MayDie \in BOOLEAN /\ EarlyOpen \subseteq Clients

VARIABLES
  mod,         \* unloaded, positions in my_driver_init, live, failed
  registered,  \* what the kernel knows of the module: region, cdev, irq
  zeroed,      \* counters init has set to 0
  num, sum,    \* dev_data
  dev_mutex,   \* the process that holds it, or none
  lock,        \* the context whose handler holds the spinlock, or none
  running,     \* processes that have the device open
  killed,      \* processes that were killed
  early,       \* processes that opened the device before init was over
  prog,        \* ioctls each process has still to issue
  code,        \* accesses left in the ioctl, or the handler, it executes
  reg, acc,    \* registers: num[i] read by num[i]++, local sum
  inIrq,       \* the process whose INT the kernel is handling, or none
  printed      \* the last line: its text, the sum, whether by one of early

vars == <<mod, registered, zeroed, num, sum, dev_mutex, lock, running, killed,
          early, prog, code, reg, acc, inIrq, printed>>
modVars == <<mod, registered, zeroed>>
dataVars == <<num, sum>>
lockVars == <<dev_mutex, lock, inIrq>>
procVars == <<running, killed, early, prog>>
regVars == <<reg, acc>>

Init ==
  /\ mod = "unloaded" /\ registered = {} /\ zeroed = 0
  /\ num = [i \in Counters |-> 0] /\ sum = 0
  /\ dev_mutex = "none" /\ lock = "none" /\ inIrq = "none"
  /\ running = {} /\ killed = {} /\ early = {} /\ prog = Program
  /\ code = [c \in Clients |-> <<>>]
  /\ reg = [c \in Clients |-> 0] /\ acc = [c \in Clients |-> 0]
  /\ printed = <<"nothing", 0, FALSE>>

-------------------------------------------------------------------------------
(* my_driver_init.  cdev_add lets processes in, who find the data before    *)
(* init has set it.  No error path takes back what was registered before    *)
(* it, and the kernel then frees the module with the device still there:    *)
(* the model stops at whoever has it open.                                  *)
InitCdev ==
  /\ mod = "unloaded" /\ registered = {}
  /\ \/ mod' = "cdev" /\ registered' = {"region", "cdev"}
     \/ mod' = "failed" /\ registered' = {"region"}
  /\ UNCHANGED <<zeroed, dataVars, lockVars, procVars, code, regVars, printed>>

InitData ==
  /\ mod = "cdev"
  /\ \/ /\ zeroed \in Counters /\ zeroed' = zeroed + 1
        /\ num' = [num EXCEPT ![zeroed] = 0] /\ UNCHANGED <<mod, sum>>
     \/ zeroed = 5 /\ sum' = 0 /\ mod' = "irq" /\ UNCHANGED <<zeroed, num>>
  /\ UNCHANGED <<registered, lockVars, procVars, code, regVars, printed>>

InitIrq ==
  /\ mod = "irq" /\ lock' = "none"
  /\ \/ mod' = "vector" /\ registered' = registered \cup {"irq"}
     \/ mod' = "failed" /\ UNCHANGED registered
  /\ UNCHANGED <<zeroed, dataVars, dev_mutex, inIrq, procVars, code, regVars, printed>>

InitVector ==
  /\ mod = "vector" /\ mod' \in {"live", "failed"}
  /\ UNCHANGED <<registered, zeroed, dataVars, lockVars, procVars, code, regVars, printed>>

(* my_driver_exit, when no process has the device open.  free_irq finds no  *)
(* handler with the dev_id NULL and leaves my_irq_handler where it is.      *)
ModuleExit ==
  /\ mod = "live" /\ running = {} /\ mod' = "unloaded"
  /\ registered' = registered \ {"region", "cdev"}
  /\ UNCHANGED <<zeroed, dataVars, lockVars, procVars, code, regVars, printed>>

-------------------------------------------------------------------------------
(* The accesses each command is made of. *)
Each(op) == <<<<op, 0>>, <<op, 1>>, <<op, 2>>, <<op, 3>>, <<op, 4>>>>
Inc(i) == <<<<"load", i>>, <<"store", i>>>>

(* Mutants: RESET forgets the sum; forgets a counter. *)
ResetNumOnly == Each("zero")
ResetFour == <<<<"zero", 1>>, <<"zero", 2>>, <<"zero", 3>>, <<"zero", 4>>,
               <<"clear", 0>>, <<"put", 0>>>>

Reset == Each("zero") \o <<<<"clear", 0>>, <<"put", 0>>>>
Sum == <<<<"clear", 0>>>> \o Each("add") \o <<<<"put", 0>>>>

Code(cmd) ==
  CASE cmd = "PRINT0" -> <<<<"print", "IOCTL0">>>>
    [] cmd = "PRINT1" -> <<<<"print", "IOCTL1">>>>
    [] cmd = "PRINT2" -> <<<<"print", "IOCTL2">>>>
    [] cmd = "INC_0" -> Inc(0)
    [] cmd = "INC_1" -> Inc(1)
    [] cmd = "INC_2" -> Inc(2)
    [] cmd = "INC_3" -> Inc(3)
    [] cmd = "INC_4" -> Inc(4)
    [] cmd = "INC_ALL" -> Inc(0) \o Inc(1) \o Inc(2) \o Inc(3) \o Inc(4)
    [] cmd = "INT" -> <<<<"int", 0>>>>
    [] cmd = "SUM" -> Sum
    [] cmd = "RESET" -> Reset
    [] cmd = "LOCK" -> <<<<"mutex_lock", 0>>>>
    [] cmd = "UNLOCK" -> <<<<"mutex_unlock", 0>>>>

(* my_irq_handler. *)
Handler ==
  <<<<"spin_lock", 0>>>> \o Each("minus") \o <<<<"getsum", 0>>>> \o Each("add")
    \o <<<<"put", 0>>, <<"spin_unlock", 0>>, <<"print", "IRQ">>, <<"iret", 0>>>>

-------------------------------------------------------------------------------
(* A process: open, the ioctls of its program, close.  A fatal signal takes *)
(* effect between two ioctls; close does not unlock the mutex.              *)
Open(c) ==
  /\ \/ mod = "live" /\ UNCHANGED early
     \/ /\ c \in EarlyOpen /\ mod \in {"cdev", "irq", "vector"}
        /\ early' = early \cup {c}
  /\ c \notin running \cup killed /\ prog[c] = Program[c]
  /\ prog[c] # <<>> /\ running' = running \cup {c}
  /\ UNCHANGED <<modVars, dataVars, lockVars, killed, prog, code, regVars, printed>>

Ioctl(c) ==
  /\ c \in running /\ code[c] = <<>> /\ prog[c] # <<>>
  /\ code' = [code EXCEPT ![c] = Code(Head(prog[c]))]
  /\ prog' = [prog EXCEPT ![c] = Tail(@)]
  /\ UNCHANGED <<modVars, dataVars, lockVars, running, early, killed, regVars, printed>>

Close(c) ==
  /\ c \in running /\ code[c] = <<>> /\ prog[c] = <<>>
  /\ running' = running \ {c}
  /\ UNCHANGED <<modVars, dataVars, lockVars, killed, early, prog, code, regVars, printed>>

Kill(c) ==
  /\ MayDie /\ c \in running /\ code[c] = <<>>
  /\ running' = running \ {c} /\ killed' = killed \cup {c}
  /\ UNCHANGED <<modVars, dataVars, lockVars, early, prog, code, regVars, printed>>

(* The next access of c is op on i. *)
At(c, op, i) == code[c] # <<>> /\ Head(code[c]) = <<op, i>>
Advance(c) == code' = [code EXCEPT ![c] = Tail(@)]

Load(c, i) ==
  /\ At(c, "load", i) /\ Advance(c) /\ reg' = [reg EXCEPT ![c] = num[i]]
  /\ UNCHANGED <<modVars, dataVars, lockVars, procVars, acc, printed>>

(* Stores to num[i]: of num[i]++, of RESET, and of the handler. *)
Store(c, i) ==
  /\ \/ At(c, "store", i) /\ num' = [num EXCEPT ![i] = reg[c] + 1]
     \/ At(c, "zero", i) /\ num' = [num EXCEPT ![i] = 0]
     \/ At(c, "minus", i) /\ num' = [num EXCEPT ![i] = -(i + 1)]
  /\ Advance(c)
  /\ UNCHANGED <<modVars, sum, lockVars, procVars, regVars, printed>>

Accumulate(c) ==
  /\ \/ At(c, "clear", 0) /\ acc' = [acc EXCEPT ![c] = 0]
     \/ At(c, "getsum", 0) /\ acc' = [acc EXCEPT ![c] = sum]
     \/ \E i \in Counters : At(c, "add", i) /\ acc' = [acc EXCEPT ![c] = @ + num[i]]
  /\ Advance(c)
  /\ UNCHANGED <<modVars, dataVars, lockVars, procVars, reg, printed>>

PutSum(c) ==
  /\ At(c, "put", 0) /\ Advance(c) /\ sum' = acc[c]
  /\ UNCHANGED <<modVars, num, lockVars, procVars, regVars, printed>>

Printk(c) ==
  \E who \in {"IOCTL0", "IOCTL1", "IOCTL2", "IRQ"} :
    /\ At(c, "print", who) /\ Advance(c) /\ printed' = <<who, sum, c \in early>>
    /\ UNCHANGED <<modVars, dataVars, lockVars, procVars, regVars>>

(* Mutants: the lock is taken whoever holds it; is never given back. *)
MutexLockBlind(c) ==
  /\ At(c, "mutex_lock", 0) /\ Advance(c) /\ dev_mutex' = c
  /\ UNCHANGED <<modVars, dataVars, lock, inIrq, procVars, regVars, printed>>

MutexKept(c) ==
  /\ At(c, "mutex_unlock", 0) /\ Advance(c)
  /\ UNCHANGED <<modVars, dataVars, lockVars, procVars, regVars, printed>>

MutexLock(c) ==
  /\ At(c, "mutex_lock", 0) /\ Advance(c) /\ dev_mutex = "none"
  /\ dev_mutex' = c
  /\ UNCHANGED <<modVars, dataVars, lock, inIrq, procVars, regVars, printed>>

MutexUnlock(c) ==
  /\ At(c, "mutex_unlock", 0) /\ Advance(c) /\ dev_mutex' = "none"
  /\ UNCHANGED <<modVars, dataVars, lock, inIrq, procVars, regVars, printed>>

(* int $0x3B runs the handler at once, on the processor where init wrote    *)
(* the vector.  Elsewhere, before that, or while another processor handles  *)
(* the same interrupt, nothing runs.                                        *)
Interrupt(c) ==
  /\ At(c, "int", 0)
  /\ \/ /\ mod = "live" /\ inIrq = "none"
        /\ inIrq' = c /\ code' = [code EXCEPT ![c] = Handler \o Tail(@)]
     \/ Advance(c) /\ UNCHANGED inIrq
  /\ UNCHANGED <<modVars, dataVars, dev_mutex, lock, procVars, regVars, printed>>

SpinLock(c) ==
  /\ At(c, "spin_lock", 0) /\ Advance(c) /\ lock = "none" /\ lock' = c
  /\ UNCHANGED <<modVars, dataVars, dev_mutex, inIrq, procVars, regVars, printed>>

SpinUnlock(c) ==
  /\ At(c, "spin_unlock", 0) /\ Advance(c) /\ lock' = "none"
  /\ UNCHANGED <<modVars, dataVars, dev_mutex, inIrq, procVars, regVars, printed>>

Iret(c) ==
  /\ At(c, "iret", 0) /\ Advance(c) /\ inIrq' = "none"
  /\ UNCHANGED <<modVars, dataVars, dev_mutex, lock, procVars, regVars, printed>>

Run(c) ==
  /\ mod # "failed"
  /\ \/ Ioctl(c) \/ Close(c)
     \/ \E i \in Counters : Load(c, i) \/ Store(c, i)
     \/ Accumulate(c) \/ PutSum(c) \/ Printk(c)
     \/ MutexLock(c) \/ MutexUnlock(c)
     \/ Interrupt(c) \/ SpinLock(c) \/ SpinUnlock(c) \/ Iret(c)

Next ==
  \/ InitCdev \/ InitData \/ InitIrq \/ InitVector \/ ModuleExit
  \/ \E c \in Clients : Open(c) \/ Run(c) \/ Kill(c)

Spec == Init /\ [][Next]_vars

(* A process that has the device open is scheduled. *)
FairSpec == Spec /\ \A c \in Clients : WF_vars(Run(c))

-------------------------------------------------------------------------------
(* Type invariant; no counter goes past the 5 increments between two        *)
(* resets, and the sum stays between that of the handler and 25.            *)
TypeOK ==
  /\ mod \in {"unloaded", "cdev", "irq", "vector", "live", "failed"}
  /\ registered \subseteq {"region", "cdev", "irq"} /\ zeroed \in 0 .. 5
  /\ num \in [Counters -> -5 .. 5]
  /\ sum \in -15 .. 25
  /\ dev_mutex \in Clients \cup {"none"} /\ lock \in Clients \cup {"none"}
  /\ running \subseteq Clients /\ killed \subseteq Clients /\ early \subseteq Clients
  /\ inIrq \in Clients \cup {"none"}

(* Each process finds the sum of its own commands, whatever the others do   *)
(* (test.sh:29-32).  Only those that opened the device before init was over *)
(* may not: init sets to 0 what they have counted (driver.c:222, 227-230).  *)
Expected ==
  [nothing |-> 0, IRQ |-> -15, IOCTL0 |-> 15, IOCTL1 |-> 10, IOCTL2 |-> 25]
ExpectedSums == ~printed[3] => printed[2] = Expected[printed[1]]

(* Whoever takes the mutex finds the counters as init left them: the data   *)
(* is reset before the mutex is given up, and nobody touches it without.    *)
CleanHandover ==
  dev_mutex = "none" => sum = 0 /\ \A i \in Counters : num[i] = 0

(* That depends on the programs: nothing in driver.c makes a process take   *)
(* the mutex.  A careful program does everything between LOCK and UNLOCK    *)
(* and a RESET comes right before every UNLOCK.                             *)
Careful(p) ==
  /\ p # <<>> => p[1] = "LOCK" /\ p[Len(p)] = "UNLOCK"
  /\ \A k \in 1 .. Len(p) - 1 :
       /\ p[k] = "UNLOCK" <=> p[k + 1] = "LOCK"
       /\ p[k + 1] = "UNLOCK" => p[k] = "RESET"

(* Every process comes to the end of its program, unless one was killed (it *)
(* may have left the mutex locked for all the others) or init failed under  *)
(* it (the kernel has freed what it runs).                                  *)
TestsEnd ==
  \A c \in Clients :
    c \in running ~> c \notin running \/ killed # {} \/ mod = "failed"
===============================================================================
