------------------------------- MODULE NameList -------------------------------
(***************************************************************************)
(* What the process list of lab10 is for its users while its module is     *)
(* loaded: a sequence of names that grows at either end by whole entries   *)
(* and loses the first entry with a given name.  "delete all" is a         *)
(* sequence of such deletions, and so is the deletion at rmmod.  A reader  *)
(* may look at the list between any two of these steps.                    *)
(***************************************************************************)
EXTENDS Sequences, SequencesExt

CONSTANT Names

VARIABLES loaded,   \* the module is there
          names     \* the list

listVars == <<loaded, names>>

Init == loaded = FALSE /\ names = <<>>

Insmod == ~loaded /\ loaded' = TRUE /\ UNCHANGED names

AddFront(n) == loaded /\ names' = <<n>> \o names /\ UNCHANGED loaded

AddEnd(n) == loaded /\ names' = Append(names, n) /\ UNCHANGED loaded

DeleteFirst(n) ==
  \E i \in 1 .. Len(names) :
    /\ names[i] = n /\ \A j \in 1 .. i - 1 : names[j] # n
    /\ names' = RemoveAt(names, i)
    /\ UNCHANGED loaded

(* The list goes away with the module, and only then. *)
Unload == loaded /\ loaded' = FALSE /\ names' = <<>>

Next ==
  \/ Insmod \/ Unload
  \/ \E n \in Names : AddFront(n) \/ AddEnd(n) \/ DeleteFirst(n)

Spec == Init /\ [][Next]_listVars
===============================================================================
