----------------------------- MODULE SimpleTimer -----------------------------
(* labs/lab13/timer/timer.c: one kernel timer whose handler prints a        *)
(* message and arms the timer again.  jiffies is a counter of width Wrap    *)
(* that wraps around, compared as the timer wheel does.                     *)
EXTENDS Naturals

CONSTANTS
  Timeout,   \* TIMER_TIMEOUT * HZ, in jiffies
  Wrap,      \* number of values of jiffies
  MaxLate    \* bound: jiffies a softirq can be late, or can take

ASSUME TimerAssumption ==
  /\ Timeout \in Nat \ {0} /\ MaxLate \in Nat
  /\ Wrap \in Nat /\ Wrap > 2 * (Timeout + MaxLate)

VARIABLES
  mod,      \* unloaded, init (timer set up, not armed), live, exit
  armed,    \* timer is pending
  expires,  \* timer.expires
  hpc,      \* position in timer_handler
  jiffies,
  late,     \* jiffies since the timer expired, or since the handler began
  since     \* history: jiffies since the last message, up to Timeout

vars == <<mod, armed, expires, hpc, jiffies, late, since>>

Plus(a, b) == (a + b) % Wrap

(* time_after_eq(a, b): the signed difference of two jiffies values. *)
Reached(a, b) == (a + Wrap - b) % Wrap < Wrap \div 2

Init ==
  /\ mod = "unloaded" /\ armed = FALSE /\ expires = 0 /\ hpc = "idle"
  /\ jiffies \in 0 .. Wrap - 1 /\ late = 0 /\ since = Timeout

TimerInit ==
  /\ mod = "unloaded" /\ hpc = "idle" /\ mod' = "init" /\ armed' = FALSE
  /\ since' = Timeout
  /\ UNCHANGED <<expires, hpc, jiffies, late>>

(* Mutants: the next expiry counts from the last one, not from now; it is   *)
(* given as a delay where mod_timer takes a point of time.                  *)
ModTimerFromExpiry ==
  /\ armed' = TRUE /\ expires' = Plus(expires, Timeout) /\ late' = 0

ModTimerDelay ==
  /\ armed' = TRUE /\ expires' = Timeout /\ late' = 0

ModTimer ==
  /\ armed' = TRUE /\ expires' = Plus(jiffies, Timeout) /\ late' = 0

TimerInitArm ==
  /\ mod = "init" /\ ModTimer /\ mod' = "live"
  /\ UNCHANGED <<hpc, jiffies, since>>

(* A pending timer is detached and its handler runs when jiffies has        *)
(* reached expires.                                                         *)
Due == armed /\ Reached(jiffies, expires)

Expire ==
  /\ Due /\ hpc = "idle" /\ armed' = FALSE /\ hpc' = "print" /\ late' = 0
  /\ UNCHANGED <<mod, expires, jiffies, since>>

PrintMessage ==
  /\ hpc = "print" /\ hpc' = "mod_timer" /\ since' = 0
  /\ UNCHANGED <<mod, armed, expires, jiffies, late>>

(* Mutant: the message is printed, the timer is not armed again. *)
HandlerForgets ==
  /\ hpc = "mod_timer" /\ hpc' = "idle"
  /\ UNCHANGED <<mod, armed, expires, jiffies, late, since>>

HandlerModTimer ==
  /\ hpc = "mod_timer" /\ ModTimer /\ hpc' = "idle"
  /\ UNCHANGED <<mod, jiffies, since>>

(* timer_exit: del_timer detaches a pending timer and does not wait for a   *)
(* running handler.  Then the kernel frees the module; a handler that is    *)
(* still running goes on in freed memory.                                   *)
TimerExit ==
  /\ mod = "live" /\ armed' = FALSE /\ mod' = "exit"
  /\ late' = IF hpc = "idle" THEN 0 ELSE late
  /\ UNCHANGED <<expires, hpc, jiffies, since>>

Unload ==
  /\ mod = "exit" /\ mod' = "unloaded"
  /\ UNCHANGED <<armed, expires, hpc, jiffies, late, since>>

(* A jiffy passes; an expired timer or a running handler waits for at most  *)
(* MaxLate of them.                                                         *)
Tick ==
  /\ Due \/ hpc # "idle" => late < MaxLate
  /\ late' = IF Due \/ hpc # "idle" THEN late + 1 ELSE late
  /\ jiffies' = Plus(jiffies, 1)
  /\ since' = IF since < Timeout THEN since + 1 ELSE since
  /\ UNCHANGED <<mod, armed, expires, hpc>>

Handler == PrintMessage \/ HandlerModTimer

Next ==
  \/ TimerInit \/ TimerInitArm \/ TimerExit \/ Unload
  \/ Expire \/ Handler
  \/ Tick

Spec == Init /\ [][Next]_vars

(* Time passes, init and exit of the module run to their end, expired       *)
(* timers and handlers run.  Nobody has to call rmmod.                      *)
Fairness ==
  /\ WF_vars(Tick) /\ WF_vars(TimerInitArm) /\ WF_vars(Unload)
  /\ WF_vars(Expire) /\ WF_vars(Handler)

FairSpec == Spec /\ Fairness

-------------------------------------------------------------------------------
(* Type invariant. *)
TypeOK ==
  /\ mod \in {"unloaded", "init", "live", "exit"}
  /\ armed \in BOOLEAN
  /\ expires \in 0 .. Wrap - 1
  /\ hpc \in {"idle", "print", "mod_timer"}
  /\ jiffies \in 0 .. Wrap - 1
  /\ late \in 0 .. MaxLate
  /\ since \in 0 .. Timeout

(* An armed timer expires within the next TIMER_TIMEOUT * HZ jiffies, or    *)
(* has expired no longer ago than a softirq can be late, wherever jiffies   *)
(* wraps (timer.c:34, :44): no expiry is so far off that it seems to lie on *)
(* the other side of now.                                                   *)
ExpiresInWindow ==
  armed => \/ \E k \in 1 .. Timeout : expires = Plus(jiffies, k)
           \/ \E l \in 0 .. MaxLate : jiffies = Plus(expires, l)

(* Two messages are never less than TIMER_TIMEOUT apart, whatever the       *)
(* delays of the softirq and wherever jiffies wraps (timer.c:5, :34).       *)
MessagesApart == [][PrintMessage => since >= Timeout]_vars

(* A loaded module prints again and again (timer.c:5, "prints message every *)
(* TIMER_TIMEOUT").                                                         *)
KeepsPrinting == mod = "live" ~> (hpc = "print" \/ mod # "live")

(* timer.c never runs after rmmod (timer.c:53, "Must stop timer"). *)
Text == INSTANCE ModuleText
          WITH Holders <- {"timer"},
               loaded  <- mod # "unloaded",
               holders <- {h \in {"timer"} : armed \/ hpc # "idle"}

TextSpec == Text!Spec
===============================================================================
