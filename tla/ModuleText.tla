------------------------------ MODULE ModuleText ------------------------------
(***************************************************************************)
(* What every loadable module of this repository promises to the kernel:   *)
(* the code and the static data of a module go away at rmmod only when     *)
(* nothing refers to them any more.  A holder is anything through which    *)
(* the kernel can still enter the module: an open file (its fops), a       *)
(* pending or running timer, a queued or running work item, a registered   *)
(* interrupt handler, a kernel thread inside a function of the module.     *)
(*                                                                         *)
(* The component modules implement this specification, each with its own   *)
(* holders.                                                                *)
(***************************************************************************)
CONSTANT Holders

VARIABLES loaded,    \* the module's text and data are mapped
          holders    \* the holders that can still reach them

textVars == <<loaded, holders>>

Init ==
  /\ loaded = FALSE
  /\ holders = {}

Insmod ==
  /\ ~loaded
  /\ loaded' = TRUE
  /\ UNCHANGED holders

(* A holder appears or goes; only text that is mapped can be referred to.  *)
Acquire(h) ==
  /\ loaded
  /\ holders' = holders \cup {h}
  /\ UNCHANGED loaded

Release(h) ==
  /\ loaded
  /\ holders' = holders \ {h}
  /\ UNCHANGED loaded

(* A holder ends by handing its work to another, in one step for the kernel: *)
(* a timer handler that returns after schedule_work.                         *)
Handover(g, h) ==
  /\ loaded
  /\ g \in holders
  /\ holders' = (holders \ {g}) \cup {h}
  /\ UNCHANGED loaded

Unload ==
  /\ loaded
  /\ holders = {}
  /\ loaded' = FALSE
  /\ UNCHANGED holders

Next ==
  \/ Insmod
  \/ \E h \in Holders : Acquire(h) \/ Release(h)
  \/ \E g, h \in Holders : Handover(g, h)
  \/ Unload

Spec == Init /\ [][Next]_textVars
===============================================================================
