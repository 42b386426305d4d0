--------------------------------- MODULE Mmap ---------------------------------
(* labs/lab14/kernel/mymmap.c as it is built (USE_KMALLOC, :6): one area of  *)
(* memory that processes map and write, as labs/lab14/user/mmap-test.c does. *)
(* A mapping outlives the file it was made with, is copied by fork and can   *)
(* be unmapped in parts; the device appears before its area does.            *)
EXTENDS Integers, FiniteSets

CONSTANTS
  Files,      \* open file descriptions
  Vmas,       \* mappings
  MAX_PAGES,  \* pages of the area
  MaxLen,     \* bound: the longest mapping asked for, in pages
  NoFile

ASSUME MmapAssumption ==
  MAX_PAGES \in Nat \ {0} /\ MaxLen \in Nat /\ NoFile \notin Files

VARIABLES
  mod,        \* unloaded; cdev, fill: steps of mymmap_init; live; failed when
              \* init has failed: the kernel frees the module, which leaves its
              \* device behind, and the model stops
  size,       \* dev.size, in pages
  content,    \* who wrote last to each part of each page of the area: none
              \* when there is no area, raw as kmalloc gave it, stamp of init,
              \* text of a process
  stamped,    \* pages that init has stamped
  opened,     \* files with a descriptor
  map         \* the file and the pages of each mapping

vars == <<mod, size, content, stamped, opened, map>>

Pages == 0 .. MAX_PAGES - 1

(* The four bytes of a page that init stamps, and all the others. *)
Parts == {"head", "rest"}
Filled(c) == [p \in Pages |-> [q \in Parts |-> c]]
Unmapped == [file |-> NoFile, pages |-> {}]
Mapped == {v \in Vmas : map[v] # Unmapped}

Init ==
  /\ mod = "unloaded" /\ size = 0
  /\ content = Filled("none") /\ stamped = 0
  /\ opened = {} /\ map = [v \in Vmas |-> Unmapped]

-------------------------------------------------------------------------------
(* mymmap_init: the device, the area, a stamp on each page, the size.  The  *)
(* data of a module that is loaded again is new, its old area is lost.      *)
CdevAdd ==
  /\ mod = "unloaded" /\ mod' = "cdev" /\ size' = 0
  /\ content' = Filled("none") /\ stamped' = 0
  /\ UNCHANGED <<opened, map>>

(* kmalloc, which does not clear what it gives; its failure ends init       *)
(* without cdev_del.                                                        *)
Alloc ==
  /\ mod = "cdev"
  /\ \/ mod' = "fill" /\ content' = Filled("raw")
     \/ mod' = "failed" /\ UNCHANGED content
  /\ UNCHANGED <<size, stamped, opened, map>>

Stamp ==
  /\ mod = "fill" /\ stamped < MAX_PAGES /\ stamped' = stamped + 1
  /\ content' = [content EXCEPT ![stamped].head = "stamp"]
  /\ UNCHANGED <<mod, size, opened, map>>

(* Mutant: the size is set before the pages are stamped. *)
PublishEarly ==
  /\ mod = "fill" /\ size' = MAX_PAGES
  /\ mod' = IF stamped = MAX_PAGES THEN "live" ELSE mod
  /\ UNCHANGED <<content, stamped, opened, map>>

Publish ==
  /\ mod = "fill" /\ stamped = MAX_PAGES
  /\ mod' = "live" /\ size' = MAX_PAGES
  /\ UNCHANGED <<content, stamped, opened, map>>

(* A file lives while a descriptor or a mapping refers to it and, by .owner,*)
(* pins the module.  Mutant: .owner is not set.                             *)
NoOwner == {}
Pinned == opened \cup {map[v].file : v \in Mapped}

(* mymmap_exit: the area is not freed. *)
Exit ==
  /\ mod = "live" /\ Pinned = {} /\ mod' = "unloaded"
  /\ UNCHANGED <<size, content, stamped, opened, map>>

-------------------------------------------------------------------------------
Usable == mod \in {"cdev", "fill", "live"}

Open(f) ==
  /\ Usable /\ f \notin Pinned
  /\ opened' = opened \cup {f}
  /\ UNCHANGED <<mod, size, content, stamped, map>>

Close(f) ==
  /\ Usable /\ opened' = opened \ {f}
  /\ UNCHANGED <<mod, size, content, stamped, map>>

(* mymmap_mmap: ENOMEM until init is done, EINVAL when the area is too      *)
(* small; the offset is not looked at, so every mapping begins at page 0.   *)
(* remap_pfn_range that fails (EAGAIN) leaves no mapping.  Mutant: the test *)
(* is off by one.                                                           *)
FitsLoosely(len) == size # 0 /\ len <= size + 1
Fits(len) == size # 0 /\ len <= size

MapArea(v, f) ==
  \E len \in 1 .. MaxLen :
    /\ Usable /\ f \in opened /\ v \notin Mapped /\ Fits(len)
    /\ map' = [map EXCEPT ![v] = [file |-> f, pages |-> 0 .. len - 1]]
    /\ UNCHANGED <<mod, size, content, stamped, opened>>

(* fork copies a mapping; munmap takes pages out of one, at the end all.    *)
Fork(v, w) ==
  /\ Usable /\ v \in Mapped /\ w \notin Mapped
  /\ map' = [map EXCEPT ![w] = map[v]]
  /\ UNCHANGED <<mod, size, content, stamped, opened>>

Munmap(v) ==
  \E left \in SUBSET map[v].pages :
    /\ Usable /\ v \in Mapped /\ left # map[v].pages
    /\ map' = [map EXCEPT ![v] = IF left = {} THEN Unmapped ELSE [@ EXCEPT !.pages = left]]
    /\ UNCHANGED <<mod, size, content, stamped, opened>>

(* mmap-test writes a string to the head of each page it has mapped; a      *)
(* process may write anywhere.                                              *)
Store(v, p) ==
  \E q \in Parts :
    /\ Usable /\ p \in map[v].pages \cap Pages
    /\ content' = [content EXCEPT ![p][q] = "text"]
    /\ UNCHANGED <<mod, size, stamped, opened, map>>

Next ==
  \/ CdevAdd \/ Alloc \/ Stamp \/ Publish \/ Exit
  \/ \E f \in Files : Open(f) \/ Close(f)
  \/ \E v \in Vmas, f \in Files : MapArea(v, f)
  \/ \E v, w \in Vmas : Fork(v, w)
  \/ \E v \in Vmas : Munmap(v)
  \/ \E v \in Vmas, p \in Pages : Store(v, p)

Spec == Init /\ [][Next]_vars

-------------------------------------------------------------------------------
(* Type invariant. *)
TypeOK ==
  /\ mod \in {"unloaded", "cdev", "fill", "live", "failed"}
  /\ size \in 0 .. MAX_PAGES
  /\ content \in [Pages -> [Parts -> {"none", "raw", "stamp", "text"}]]
  /\ stamped \in 0 .. MAX_PAGES
  /\ opened \subseteq Files
  /\ map \in [Vmas -> [file : Files \cup {NoFile}, pages : SUBSET Nat]]

(* A process sees pages of the area only, and none that lacks the stamp of  *)
(* init or what a process wrote over it, whenever it opens and maps the     *)
(* device (mymmap.c:97, "Check that the device has sufficient space").  The *)
(* rest of such a page is as kmalloc gave it until a process writes there.  *)
ShowsStampedArea ==
  \A v \in Mapped : \A p \in map[v].pages :
    p \in Pages /\ content[p].head \in {"stamp", "text"}

(* What a process has stored stays there as long as anybody has the device  *)
(* open or mapped, in this process or in a child that fork made: no stamp   *)
(* of init comes later, and no other load of the module puts a new area     *)
(* under the mapping (mymmap.c:135, .owner).                                *)
StoresSurvive ==
  [][opened # {} \/ Mapped # {} =>
       \A p \in Pages, q \in Parts :
         content[p][q] = "text" => content'[p][q] = "text"]_vars
===============================================================================
