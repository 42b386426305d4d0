------------------------------ MODULE MmapProofs ------------------------------
(* Proofs about Mmap, for any number of files, mappings and pages.           *)
EXTENDS Mmap, TLAPS

(* The size stands for an area whose pages are stamped, and until then no    *)
(* process has written; nothing is mapped or open where the device is not,   *)
(* and nothing is mapped before the size is set.                             *)
FilledInv ==
  mod = "live" =>
    size = MAX_PAGES /\ \A p \in Pages : content[p].head \in {"stamp", "text"}
StampInv ==
  /\ mod = "cdev" => stamped = 0
  /\ mod = "fill" => \A p \in Pages : p < stamped => content[p].head = "stamp"
  /\ mod \in {"cdev", "fill"} =>
       \A p \in Pages, q \in Parts : content[p][q] # "text"
SizeInv == mod \in {"cdev", "fill"} => size = 0
MapInv == mod # "live" => Mapped = {}
InsideInv == \A v \in Vmas : map[v].pages \subseteq Pages
UnloadedInv == mod = "unloaded" => opened = {}
FileInv == \A v \in Mapped : map[v].file \in Files /\ map[v].pages # {}

IInv ==
  /\ TypeOK /\ FilledInv /\ StampInv
  /\ SizeInv /\ MapInv /\ InsideInv /\ UnloadedInv /\ FileInv

LEMMA InitInv == Init => IInv
  BY MmapAssumption DEF MmapAssumption, Init, IInv, TypeOK, FilledInv, StampInv,
     Filled, SizeInv, MapInv, InsideInv, UnloadedInv, FileInv, Mapped, Unmapped

LEMMA NothingPinned == Pinned = {} => opened = {} /\ Mapped = {}
  BY DEF Pinned

(* Init and exit of the module, and what opens and closes. *)
LEMMA ModuleStep ==
  ASSUME IInv, CdevAdd \/ Alloc \/ Stamp \/ Publish \/ Exit
  PROVE  IInv'
<1> USE MmapAssumption DEF MmapAssumption, IInv, TypeOK, FilledInv, StampInv,
        SizeInv, MapInv, InsideInv, UnloadedInv, FileInv, Mapped, Unmapped
<1>1. CASE CdevAdd
  BY <1>1 DEF CdevAdd, Filled
<1>2. CASE Alloc
  <2>1. CASE mod' = "failed"
    BY <1>2, <2>1 DEF Alloc
  <2>2. CASE mod' = "fill"
    <3>1. /\ content' = Filled("raw")
          /\ UNCHANGED <<size, stamped, opened, map>> /\ stamped = 0 /\ mod = "cdev"
      BY <1>2, <2>2 DEF Alloc
    <3>2. /\ content' \in [Pages -> [Parts -> {"none", "raw", "stamp", "text"}]]
          /\ \A p \in Pages, q \in Parts : content'[p][q] # "text"
      BY <3>1 DEF Filled
    <3>3. \A p \in Pages : ~(p < 0)
      BY DEF Pages
    <3>4. StampInv'
      BY <2>2, <3>1, <3>2, <3>3
    <3>5. QED
      <4> HIDE DEF StampInv
      <4>1. QED
        BY <2>2, <3>1, <3>2, <3>4
  <2>3. QED
    BY <1>2, <2>1, <2>2 DEF Alloc
<1>3. CASE Stamp
  <2>1. /\ stamped \in Pages /\ stamped' = stamped + 1 /\ stamped' \in 0 .. MAX_PAGES
        /\ "head" \in Parts
    BY <1>3 DEF Stamp, Pages, Parts
  <2>2. /\ content' \in [Pages -> [Parts -> {"none", "raw", "stamp", "text"}]]
        /\ content'[stamped].head = "stamp"
        /\ \A p \in Pages \ {stamped} : content'[p] = content[p]
        /\ \A q \in Parts : content'[stamped][q] \in {content[stamped][q], "stamp"}
    BY <1>3, <2>1 DEF Stamp
  <2>3. \A p \in Pages : p < stamped' => p < stamped \/ p = stamped
    BY <2>1 DEF Pages
  <2>4. StampInv'
    BY <1>3, <2>1, <2>2, <2>3 DEF Stamp
  <2>5. QED
    <3> HIDE DEF StampInv
    <3>1. QED
      BY <1>3, <2>1, <2>2, <2>4 DEF Stamp
<1>4. CASE Publish
  BY <1>4 DEF Publish, Pages
<1>5. CASE Exit
  <2>1. Mapped = {} /\ opened = {}
    BY <1>5, NothingPinned DEF Exit
  <2>2. QED
    BY <1>5, <2>1 DEF Exit
<1>6. QED
  BY <1>1, <1>2, <1>3, <1>4, <1>5

LEMMA FileStep ==
  ASSUME IInv, NEW f \in Files, Open(f) \/ Close(f)
  PROVE  IInv'
BY DEF Open, Close, Usable, IInv, TypeOK, FilledInv, StampInv, SizeInv, MapInv,
       InsideInv, UnloadedInv, FileInv, Mapped

(* A mapping that is made, copied, cut or written to. *)
LEMMA MappingStep ==
  ASSUME IInv,
         \/ \E v \in Vmas, f \in Files : MapArea(v, f)
         \/ \E v, w \in Vmas : Fork(v, w)
         \/ \E v \in Vmas : Munmap(v)
         \/ \E v \in Vmas, p \in Pages : Store(v, p)
  PROVE  IInv'
<1> USE MmapAssumption DEF MmapAssumption, IInv, TypeOK, FilledInv, StampInv,
        SizeInv, MapInv, InsideInv, UnloadedInv, FileInv, Mapped, Usable
<1>1. ASSUME NEW v \in Vmas, NEW f \in Files, MapArea(v, f) PROVE IInv'
  <2>1. PICK len \in 1 .. MaxLen :
          /\ Usable /\ Fits(len)
          /\ map' = [map EXCEPT ![v] = [file |-> f, pages |-> 0 .. len - 1]]
          /\ UNCHANGED <<mod, size, content, stamped, opened>>
    BY <1>1 DEF MapArea
  <2>2. mod = "live" /\ size = MAX_PAGES
    BY <2>1 DEF Fits
  <2>3. 0 .. len - 1 \subseteq Pages /\ 0 .. len - 1 \in SUBSET Nat
    BY <2>1, <2>2 DEF Fits, Pages
  <2>4. /\ map'[v].file \in Files /\ map'[v].pages # {}
        /\ \A w \in Vmas : w # v => map'[w] = map[w]
    <3>1. 0 \in 0 .. len - 1
      BY <2>1
    <3>2. map \in [Vmas -> [file : Files \cup {NoFile}, pages : SUBSET Nat]]
      OBVIOUS
    <3> HIDE DEF IInv
    <3>3. QED
      BY <2>1, <3>1, <3>2
  <2>5. FileInv'
    BY <2>4
  <2>6. QED
    <3> HIDE DEF FileInv
    <3>1. QED
      BY <2>1, <2>2, <2>3, <2>5
<1>2. ASSUME NEW v \in Vmas, NEW w \in Vmas, Fork(v, w) PROVE IInv'
  BY <1>2 DEF Fork
<1>3. ASSUME NEW v \in Vmas, Munmap(v) PROVE IInv'
  <2>1. PICK left \in SUBSET map[v].pages :
          map' = [map EXCEPT ![v] = IF left = {} THEN Unmapped
                                    ELSE [@ EXCEPT !.pages = left]]
    BY <1>3 DEF Munmap
  <2>2. v \in Mapped /\ UNCHANGED <<mod, size, content, stamped, opened>>
    BY <1>3 DEF Munmap
  <2>3. \A w \in Vmas : /\ map'[w].pages \subseteq map[w].pages
                        /\ map'[w] \in [file : Files \cup {NoFile}, pages : SUBSET Nat]
    BY <2>1 DEF Unmapped
  <2>4. DOMAIN map' = Vmas /\ map' = [w \in Vmas |-> map'[w]]
    BY <2>1
  <2>5. mod = "live"
    BY <2>2
  <2>6. map' \in [Vmas -> [file : Files \cup {NoFile}, pages : SUBSET Nat]]
    BY <2>3, <2>4
  <2>7. FileInv'
    <3>1. \A w \in Vmas : w # v => map'[w] = map[w]
      BY <2>1
    <3>2. \/ map'[v] = Unmapped
          \/ map'[v].file = map[v].file /\ map'[v].pages # {}
      BY <2>1
    <3>3. QED
      BY <2>2, <3>1, <3>2
  <2>8. QED
    <3> HIDE DEF FileInv
    <3>1. QED
      BY <2>2, <2>3, <2>5, <2>6, <2>7
<1>4. ASSUME NEW v \in Vmas, NEW p \in Pages, Store(v, p) PROVE IInv'
  <2>1. map[v] # Unmapped
    BY <1>4 DEF Store, Unmapped
  <2>2. mod = "live" /\ UNCHANGED <<mod, size, stamped, opened, map>>
    BY <1>4, <2>1 DEF Store
  <2>3. PICK q \in Parts : content' = [content EXCEPT ![p][q] = "text"]
    BY <1>4 DEF Store
  <2>4. /\ content' \in [Pages -> [Parts -> {"none", "raw", "stamp", "text"}]]
        /\ \A r \in Pages : content'[r].head \in {content[r].head, "text"}
    BY <2>3 DEF Parts
  <2>5. QED
    BY <2>2, <2>4
<1>5. QED
  BY <1>1, <1>2, <1>3, <1>4

LEMMA Invariance == Spec => []IInv
<1>1. IInv /\ [Next]_vars => IInv'
  <2>1. ASSUME IInv, UNCHANGED vars PROVE IInv'
    BY <2>1 DEF vars, IInv, TypeOK, FilledInv, StampInv, SizeInv, MapInv,
       InsideInv, UnloadedInv, FileInv, Mapped
  <2>2. QED
    BY <2>1, ModuleStep, FileStep, MappingStep DEF Next
<1>2. QED
  BY InitInv, <1>1, PTL DEF Spec

-------------------------------------------------------------------------------
(* Type correctness. *)
THEOREM TypeCorrect == Spec => []TypeOK
<1>1. IInv => TypeOK
  BY DEF IInv
<1>2. QED
  BY Invariance, <1>1, PTL

(* No process sees a page outside the area, or one without its stamp,        *)
(* although the device is there before either (cdev_add, mymmap.c:156):      *)
(* dev.size, set last, is what mymmap_mmap looks at.                         *)
THEOREM OnlyStampedIsShown == Spec => []ShowsStampedArea
<1>1. IInv => ShowsStampedArea
  BY DEF IInv, FilledInv, MapInv, InsideInv, ShowsStampedArea, Mapped
<1>2. QED
  BY Invariance, <1>1, PTL

(* The stores of init end before those of the processes begin, and the area  *)
(* is replaced only when nobody is left: what is stored stays.               *)
THEOREM TextStays == Spec => StoresSurvive
<1> DEFINE Stays == \A p \in Pages, q \in Parts :
                      content[p][q] = "text" => content'[p][q] = "text"
<1>1. ASSUME IInv, [Next]_vars, opened # {} \/ Mapped # {} PROVE Stays
  <2>1. CASE UNCHANGED content
    BY <2>1
  <2>2. CASE CdevAdd
    BY <1>1, <2>2 DEF CdevAdd, IInv, UnloadedInv, MapInv
  <2>3. CASE Alloc \/ Stamp
    BY <1>1, <2>3 DEF Alloc, Stamp, IInv, StampInv
  <2>4. CASE Publish \/ Exit
    BY <2>1, <2>4 DEF Publish, Exit
  <2>5. ASSUME NEW f \in Files, Open(f) \/ Close(f) PROVE Stays
    BY <2>1, <2>5 DEF Open, Close
  <2>6. ASSUME NEW v \in Vmas,
               \/ \E f \in Files : MapArea(v, f)
               \/ \E w \in Vmas : Fork(v, w)
               \/ Munmap(v)
        PROVE  Stays
    BY <2>1, <2>6 DEF MapArea, Fork, Munmap
  <2>7. ASSUME NEW v \in Vmas, NEW r \in Pages, Store(v, r) PROVE Stays
    <3>1. PICK s \in Parts : content' = [content EXCEPT ![r][s] = "text"]
      BY <2>7 DEF Store
    <3>2. QED
      BY <1>1, <3>1 DEF IInv, TypeOK
  <2>8. CASE UNCHANGED vars
    BY <2>1, <2>8 DEF vars
  <2>9. QED
    BY <1>1, <2>2, <2>3, <2>4, <2>5, <2>6, <2>7, <2>8 DEF Next
<1>2. IInv /\ [Next]_vars => [opened # {} \/ Mapped # {} => Stays]_vars
  BY <1>1
<1>3. QED
  BY Invariance, <1>2, PTL DEF Spec, StoresSurvive
===============================================================================
