----------------------------- MODULE ListExample -----------------------------
(* labs/lab10/list_example/list_example.c: what its init does to my_list.    *)
(* The list is used by insmod and rmmod only, one at a time, so the whole of *)
(* it is a function of the allocations that succeed.                         *)
EXTENDS Integers, Sequences, SequencesExt

pids == [j \in 0 .. 9 |-> j * 10000 + j]

(* add_pid puts an entry in front; -ENOMEM leaves the list, and init goes on. *)
add_pid(my_list, pid) == <<pid>> \o my_list

(* del_pid takes out the first entry with that pid; -EINVAL when none has.    *)
del_pid(my_list, pid) == RemoveFirst(my_list, pid)

(* list_module_init, when kmalloc succeeds in the turns of given. *)
list_module_init(given) ==
  LET added == FoldLeft(LAMBDA l, j : IF j \in given THEN add_pid(l, pids[j]) ELSE l,
                        <<>>, [k \in 1 .. 10 |-> k - 1])
  IN FoldLeft(LAMBDA l, j : del_pid(l, pids[j]), added, <<0, 1, 2, 4, 8>>)

(* destroy_list empties it at rmmod. *)
destroy_list(my_list) == SelectSeq(my_list, LAMBDA pid : FALSE)

(* Whatever allocations fail, init leaves exactly the pids it has added and *)
(* not deleted, the last one first.                                         *)
InitLeavesTheRest ==
  \A given \in SUBSET (0 .. 9) :
    LET l == list_module_init(given) IN
      /\ ToSet(l) = {pids[j] : j \in given \ {0, 1, 2, 4, 8}}
      /\ IsSorted(l, LAMBDA a, b : a > b)
===============================================================================
