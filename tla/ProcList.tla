------------------------------- MODULE ProcList -------------------------------
(* labs/lab10/api_assignment/kernel-api/list.c: names kept in a kernel list, *)
(* changed through /proc/list/management and read through /proc/list/preview *)
(* with no lock.  Every step uses one list entry, in the order list.h writes *)
(* them: what a reader or rmmod on another processor can see in between.     *)
(* A name is represented by its length; names of one length are one name.    *)
EXTENDS Integers, FiniteSets, Sequences, SequencesExt, TLC

CONSTANTS
  Writers, Readers,   \* processes that write management, read preview
  Entries,            \* the memory kmalloc can give to name_entry structures
  Counts,             \* the values of count a write is made with
  HEAD, POISON, Rmmod,
  NAME_MAX_SIZE, PROCFS_MAX_SIZE,
  UINT                \* the number of values of an unsigned int

ASSUME ProcListAssumption ==
  /\ NAME_MAX_SIZE \in Nat /\ PROCFS_MAX_SIZE \in Nat /\ Counts \subseteq Nat
  /\ UINT \in Nat /\ UINT > NAME_MAX_SIZE + PROCFS_MAX_SIZE
  /\ IsFiniteSet(Entries) /\ HEAD \notin Entries /\ POISON \notin Entries \cup {HEAD}
  /\ Rmmod \notin Writers /\ Readers \cap (Writers \cup {Rmmod}) = {}

VARIABLES
  mod,        \* unloaded; preview, live: steps of list_init; destroy,
              \* destroyed, write, read: steps of list_exit; overlap when two
              \* changes met, fault when freed memory was used: there the
              \* model stops
  nxt, prv,   \* the list_head of every entry and of name_list
  name,       \* name[e], Free when e is not allocated
  task,       \* what a writer, or rmmod, is doing
  reader,     \* what a reader is doing
  torn        \* history: the readers that an entry was deleted under

heap == <<nxt, prv, name>>
readVars == <<reader, torn>>
vars == <<mod, heap, task, readVars>>

Cells == Entries \cup {HEAD}
Tasks == Writers \cup {Rmmod}
Free == -1

(* The locals of a change: the entry it is at, the neighbours it has read,  *)
(* the name it looks for.  The locals of a read: the entry it is at, what   *)
(* it has shown; from (history): the names when it began.                   *)
Job(op, at, n, cur, prev, next) ==
  [op |-> op, at |-> at, name |-> n, cur |-> cur, prev |-> prev, next |-> next]
Read(at, cur, shown, from) == [at |-> at, cur |-> cur, shown |-> shown, from |-> from]
NoJob == Job("none", "none", Free, HEAD, HEAD, HEAD)
NoRead == Read("none", HEAD, <<>>, <<>>)

Active == {t \in Tasks : task[t].at # "none"}
Reading == {r \in Readers : reader[r].at # "none"}
Usable == {HEAD} \cup {e \in Entries : name[e] # Free}

(* The forward list, as list_for_each_entry walks it from the head. *)
Chain[k \in 0 .. Cardinality(Entries)] ==
  IF k = 0 THEN nxt[HEAD]
  ELSE IF Chain[k - 1] \in Entries THEN nxt[Chain[k - 1]] ELSE Chain[k - 1]
WalkLength == Cardinality({k \in 0 .. Cardinality(Entries) - 1 : Chain[k] \in Entries})
Walk == [k \in 1 .. WalkLength |-> Chain[k - 1]]
Listed == [i \in 1 .. Len(Walk) |-> name[Walk[i]]]

Init ==
  /\ mod = "unloaded"
  /\ nxt = [c \in Cells |-> HEAD] /\ prv = [c \in Cells |-> HEAD]
  /\ name = [e \in Entries |-> Free]
  /\ task = [t \in Tasks |-> NoJob]
  /\ reader = [r \in Readers |-> NoRead] /\ torn = {}

-------------------------------------------------------------------------------
(* list_init: preview can be read before management exists; when that       *)
(* cannot be created, preview is removed again.                             *)
CreatePreview == mod = "unloaded" /\ mod' = "preview" /\ UNCHANGED <<heap, task, readVars>>

CreateManagement ==
  mod = "preview" /\ mod' \in {"live", "read"} /\ UNCHANGED <<heap, task, readVars>>

(* /proc lets calls in until proc_remove begins, which waits for those that *)
(* are in.  Mutant: list_exit leaves the files there.                       *)
CanWrite == mod \in {"live", "destroy", "destroyed"}
CanRead == mod \in {"preview", "live", "destroy", "destroyed", "write"}
Whatever(P) == TRUE
NoCall(P) == P \cap (Active \cup Reading) = {}

BeginRemoval == mod = "destroyed" /\ mod' = "write" /\ UNCHANGED <<heap, task, readVars>>

RemoveManagement ==
  mod = "write" /\ NoCall(Writers) /\ mod' = "read" /\ UNCHANGED <<heap, task, readVars>>

(* What a write after destroy_list has added is leaked; the model gives the *)
(* memory back, so that Entries bounds one load.                            *)
RemovePreview ==
  /\ mod = "read" /\ NoCall(Readers) /\ mod' = "unloaded"
  /\ nxt' = [c \in Cells |-> HEAD] /\ prv' = [c \in Cells |-> HEAD]
  /\ name' = [e \in Entries |-> Free]
  /\ UNCHANGED <<task, readVars>>

-------------------------------------------------------------------------------
(* name_size in list_write, unsigned: it wraps when the write is shorter    *)
(* than a command and a space.  Mutant: it is signed, and negative.         *)
Length(count) == IF count > PROCFS_MAX_SIZE THEN PROCFS_MAX_SIZE ELSE count
SignedSize(count) == Length(count) - 5
NameSize(count) == (Length(count) - 5) % UINT

(* Names that get past the tests of list_write and add_to_list. *)
Accepted == {s \in {NameSize(c) : c \in Counts} : s < NAME_MAX_SIZE}

(* list_add and list_add_tail: the neighbours of the new entry. *)
Gap(op) == IF op = "addf" THEN [prev |-> HEAD, next |-> nxt[HEAD]]
                          ELSE [prev |-> prv[HEAD], next |-> HEAD]

(* list_write of addf or adde; when kmalloc fails nothing happens, and the  *)
(* result of add_to_list is not looked at.                                  *)
Add(w) ==
  \E op \in {"addf", "adde"}, n \in Accepted, e \in Entries :
    /\ CanWrite /\ Active = {} /\ name[e] = Free
    /\ name' = [name EXCEPT ![e] = n]
    /\ nxt' = [nxt EXCEPT ![e] = e] /\ prv' = [prv EXCEPT ![e] = e]
    /\ task' = [task EXCEPT ![w] =
                  Job("add", "prepare", Free, e, Gap(op).prev, Gap(op).next)]
    /\ UNCHANGED <<mod, readVars>>

At(t, at) == task[t].at = at
Goto(t, at) == task' = [task EXCEPT ![t].at = at]

(* __list_add: next->prev and the entry's own links, then prev->next.       *)
(* Mutant: the entry's own next is not set when it is published.            *)
PrepareHalf(t) ==
  /\ At(t, "prepare") /\ Goto(t, "publish")
  /\ prv' = [prv EXCEPT ![task[t].next] = task[t].cur]
  /\ UNCHANGED <<mod, nxt, name, readVars>>

Prepare(t) ==
  /\ At(t, "prepare") /\ Goto(t, "publish")
  /\ prv' = [prv EXCEPT ![task[t].next] = task[t].cur, ![task[t].cur] = task[t].prev]
  /\ nxt' = [nxt EXCEPT ![task[t].cur] = task[t].next]
  /\ UNCHANGED <<mod, name, readVars>>

Publish(t) ==
  /\ At(t, "publish") /\ task' = [task EXCEPT ![t] = NoJob]
  /\ nxt' = [nxt EXCEPT ![task[t].prev] = task[t].cur]
  /\ UNCHANGED <<mod, prv, name, readVars>>

-------------------------------------------------------------------------------
(* list_for_each_entry_safe over the list from entry c on. *)
Walker(op, n, c) == Job(op, "test", n, c, HEAD, HEAD)
Selects(t, c) == task[t].op = "destroy" \/ name[c] = task[t].name

(* list_write of delf or dela; list_exit calls destroy_list. *)
Delete(w) ==
  \E op \in {"delf", "dela"}, n \in Accepted :
    /\ CanWrite /\ Active = {}
    /\ task' = [task EXCEPT ![w] = Walker(op, n, nxt[HEAD])]
    /\ UNCHANGED <<mod, heap, readVars>>

Exit ==
  /\ mod = "live" /\ Active = {} /\ mod' = "destroy"
  /\ task' = [task EXCEPT ![Rmmod] = Walker("destroy", Free, nxt[HEAD])]
  /\ UNCHANGED <<heap, readVars>>

(* The end of a walk; rmmod goes on to remove the files, and until it has   *)
(* begun a write may still come in.                                         *)
Finish(t) ==
  task' = [task EXCEPT ![t] = NoJob] /\ mod' = IF t = Rmmod THEN "destroyed" ELSE mod

Advance(t, c) ==
  task' = [task EXCEPT ![t] = Walker(task[t].op, task[t].name, c)] /\ UNCHANGED mod

(* One turn of the walk: the end of the list, another name, or an entry to  *)
(* delete, whose links list_del reads; the loop has read the next before.   *)
Visit(t) ==
  /\ At(t, "test")
  /\ LET c == task[t].cur IN
       \/ c = HEAD /\ Finish(t)
       \/ c \in Usable \ {HEAD} /\ ~Selects(t, c) /\ Advance(t, nxt[c])
       \/ /\ c \in Usable \ {HEAD} /\ Selects(t, c)
          /\ task' = [task EXCEPT ![t] =
                        Job(task[t].op, "back", task[t].name, c, prv[c], nxt[c])]
          /\ UNCHANGED mod
  /\ UNCHANGED <<heap, readVars>>

(* __list_del: next->prev = prev, then prev->next = next, which tears the   *)
(* reads that are going on.  Mutant: prev is forgotten.                     *)
UnlinkOneWay(t) ==
  At(t, "back") /\ Goto(t, "forward") /\ UNCHANGED <<mod, heap, readVars>>

UnlinkBack(t) ==
  /\ At(t, "back") /\ Goto(t, "forward")
  /\ prv' = [prv EXCEPT ![task[t].next] = task[t].prev]
  /\ UNCHANGED <<mod, nxt, name, readVars>>

UnlinkForward(t) ==
  /\ At(t, "forward") /\ Goto(t, "free")
  /\ nxt' = [nxt EXCEPT ![task[t].prev] = task[t].next]
  /\ torn' = Reading
  /\ UNCHANGED <<mod, prv, name, reader>>

(* Mutants: list_for_each_entry, which looks for the next entry in the one  *)
(* the body has freed; a body that moves on once more.                      *)
AheadLate(t) == POISON
AheadTwice(t) == nxt[task[t].next]
Ahead(t) == task[t].next

(* list_del poisons the links and kfree follows; delf is done, the others   *)
(* go on with the entry they had read ahead.                                *)
Reclaim(t) ==
  /\ At(t, "free")
  /\ IF task[t].op = "delf" THEN Finish(t) ELSE Advance(t, Ahead(t))
  /\ nxt' = [nxt EXCEPT ![task[t].cur] = POISON] /\ prv' = [prv EXCEPT ![task[t].cur] = POISON]
  /\ name' = [name EXCEPT ![task[t].cur] = Free]
  /\ UNCHANGED readVars

-------------------------------------------------------------------------------
(* seq_read calls list_proc_show; when the text does not fit it calls it    *)
(* again, which is another read.                                            *)
Open(r) ==
  /\ CanRead /\ r \notin Reading
  /\ reader' = [reader EXCEPT ![r] = Read("name", nxt[HEAD], <<>>, Listed)]
  /\ UNCHANGED <<mod, heap, task, torn>>

(* Mutant: the walk moves on twice in one turn. *)
NextTwice(c) == nxt[nxt[c]]
NextEntry(c) == nxt[c]

(* One turn: seq_printf of the name, then the next entry, or the end.  What *)
(* a torn read shows is not kept.                                           *)
ShowName(r) ==
  /\ reader[r].at = "name" /\ reader[r].cur \in Usable \ {HEAD}
  /\ LET R == reader[r] IN
     reader' = [reader EXCEPT ![r] =
       Read("next", R.cur, IF r \in torn THEN <<>> ELSE Append(R.shown, name[R.cur]), R.from)]
  /\ UNCHANGED <<mod, heap, task, torn>>

ShowNext(r) ==
  /\ reader[r].at = "next" /\ reader[r].cur \in Usable
  /\ LET R == reader[r] IN
     reader' = [reader EXCEPT ![r] = Read("name", NextEntry(R.cur), R.shown, R.from)]
  /\ UNCHANGED <<mod, heap, task, torn>>

ShowEnd(r) ==
  /\ reader[r].at = "name" /\ reader[r].cur = HEAD
  /\ reader' = [reader EXCEPT ![r] = NoRead] /\ torn' = torn \ {r}
  /\ UNCHANGED <<mod, heap, task>>

-------------------------------------------------------------------------------
(* A reader or a walk is at memory that was freed; the model stops there.   *)
Fault ==
  /\ ~({task[t].cur : t \in Active} \cup {reader[r].cur : r \in Reading} \subseteq Usable)
  /\ mod' = "fault" /\ UNCHANGED <<heap, task, readVars>>

(* Nothing keeps two writers, or a writer and rmmod, from changing the list *)
(* at once.  What that leaves is not specified by list.h: the model stops.  *)
Overlap ==
  /\ Active # {} /\ CanWrite /\ (mod = "live" \/ Writers \ Active # {})
  /\ mod' = "overlap" /\ UNCHANGED <<heap, task, readVars>>

Next ==
  /\ mod \notin {"overlap", "fault"}
  /\ \/ CreatePreview \/ CreateManagement \/ Exit
     \/ BeginRemoval \/ RemoveManagement \/ RemovePreview \/ Fault \/ Overlap
     \/ \E w \in Writers : Add(w) \/ Delete(w)
     \/ \E t \in Tasks : Prepare(t) \/ Publish(t) \/ Visit(t) \/ Reclaim(t)
     \/ \E t \in Tasks : UnlinkBack(t) \/ UnlinkForward(t)
     \/ \E r \in Readers : Open(r) \/ ShowName(r) \/ ShowNext(r) \/ ShowEnd(r)

Spec == Init /\ [][Next]_vars

-------------------------------------------------------------------------------
(* Type invariant; a name and its end fit in an entry (list.c:37-46). *)
Names == 0 .. NAME_MAX_SIZE - 1
Links == Cells \cup {POISON}
Jobs == [op : {"none", "add", "delf", "dela", "destroy"},
         at : {"none", "prepare", "publish", "test", "back", "forward", "free"},
         name : Names \cup {Free}, cur : Links, prev : Links, next : Links]
Reads == [at : {"none", "name", "next"}, cur : Links, shown : Seq(Names), from : Seq(Names)]
TypeOK ==
  /\ mod \in {"unloaded", "preview", "live", "destroy", "destroyed", "write",
              "read", "overlap", "fault"}
  /\ nxt \in [Cells -> Links] /\ prv \in [Cells -> Links]
  /\ name \in [Entries -> Names \cup {Free}]
  /\ task \in [Tasks -> Jobs] /\ reader \in [Readers -> Reads]
  /\ torn \subseteq Reading

(* One change at a time keeps the list sound: between two changes the       *)
(* entries form one ring, the same in both directions, and no allocated     *)
(* entry is outside it.                                                     *)
WellLinked ==
  (\A t \in Active : task[t].at = "test") =>
     /\ \A c \in Usable : nxt[c] \in Usable /\ prv[nxt[c]] = c
     /\ ToSet(Walk) = Usable \ {HEAD}

(* The end of a walk: delf has seen no such name, dela and destroy_list     *)
(* have left none, however the entries were laid out.                       *)
Thorough ==
  \A t \in Active :
    (task[t].at = "test" /\ task[t].cur = HEAD) => \A e \in ToSet(Walk) : ~Selects(t, e)

(* list_proc_show takes no lock, and additions do not disturb it: unless an *)
(* entry is deleted meanwhile, a read shows every name that was in the list *)
(* when it began, in order, and after them only names added later.          *)
ReadsWhole ==
  \A r \in Reading \ torn :
    (reader[r].at = "name" /\ reader[r].cur = HEAD)
       => IsPrefix(reader[r].from, reader[r].shown)

(* Freed memory is used only by a read that an entry was deleted under; no  *)
(* change uses what it has freed itself.                                    *)
FaultsNeedDeletion == mod = "fault" => torn # {}

(* At every single store of a change, what a reader starting now would walk *)
(* is the list of names before or after a whole step of the abstract list.  *)
Abstract == INSTANCE NameList
              WITH Names <- Accepted, loaded <- mod # "unloaded", names <- Listed
NameListSpec == Abstract!Spec

(* list.c is never entered after rmmod, though neither file pins the        *)
(* module: proc_remove waits.                                               *)
Text == INSTANCE ModuleText
          WITH Holders <- Tasks \cup Readers,
               loaded  <- mod # "unloaded",
               holders <- Active \cup Reading
TextSpec == Text!Spec
===============================================================================
