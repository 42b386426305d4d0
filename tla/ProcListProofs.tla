---------------------------- MODULE ProcListProofs ----------------------------
(* Proofs about ProcList, for any number of entries, writers and readers.    *)
EXTENDS ProcList, SequenceTheorems, FiniteSetTheorems, FunctionTheorems,
        WellFoundedInduction, TLAPS

(* A set of naturals has a least element: what stands for induction here.    *)
LessThan == {ss \in Nat \X Nat : ss[1] < ss[2]}

LEMMA LeastNat ==
  \A T \in SUBSET Nat : T # {} => \E n \in T : \A m \in T : n <= m
<1> SUFFICES ASSUME NEW T \in SUBSET Nat, T # {}
             PROVE  \E n \in T : \A m \in T : n <= m
  OBVIOUS
<1>1. T \subseteq Nat /\ T # {} /\ IsWellFoundedOn(LessThan, Nat)
  BY NatLessThanWellFounded DEF OpToRel, LessThan
<1>2. PICK n \in T : \A m \in T : ~(<<m, n>> \in LessThan)
  BY <1>1, WFMin, Zenon
<1>3. ASSUME NEW m \in T PROVE n <= m
  <2>1. <<m, n>> \in Nat \X Nat /\ m \in Nat /\ n \in Nat
    OBVIOUS
  <2>2. ~(m < n)
    BY <1>2, <2>1 DEF LessThan
  <2>3. QED
    BY <2>1, <2>2
<1>4. QED
  BY <1>3

-------------------------------------------------------------------------------
(* The forward list as a sequence of entries; position 0 and the one after   *)
(* the last are the head.                                                    *)
Cell(s, i) == IF i \in 1 .. Len(s) THEN s[i] ELSE HEAD

Distinct(s) == s \in Seq(Entries) /\ \A i, j \in 1 .. Len(s) : s[i] = s[j] => i = j

RingOf(f, s) == Distinct(s) /\ \A i \in 0 .. Len(s) : f[Cell(s, i)] = Cell(s, i + 1)
BackOf(g, s) == \A i \in 0 .. Len(s) : g[Cell(s, i + 1)] = Cell(s, i)

Ring(s) == RingOf(nxt, s)

LEMMA DistinctLength ==
  ASSUME NEW s, Distinct(s)
  PROVE  Len(s) \in Nat /\ Cardinality(Entries) \in Nat /\ Len(s) <= Cardinality(Entries)
<1>1. IsFiniteSet(Entries)
  BY ProcListAssumption DEF ProcListAssumption
<1>2. Len(s) \in Nat /\ s \in [1 .. Len(s) -> Entries]
  BY DEF Distinct
<1>3. s \in Injection(1 .. Len(s), Entries)
  BY <1>2 DEF Distinct, Injection, IsInjective
<1>4. Cardinality(1 .. Len(s)) <= Cardinality(Entries)
  BY <1>1, <1>3, FS_Injection
<1>5. Cardinality(1 .. Len(s)) = Len(s)
  BY <1>2, FS_Interval
<1>6. QED
  BY <1>1, <1>2, <1>4, <1>5, FS_CardinalityType

(* The recursion of Chain has a solution, since the ring gives one.          *)
Turn(f, k) ==
  IF k = 0 THEN nxt[HEAD] ELSE IF f[k - 1] \in Entries THEN nxt[f[k - 1]] ELSE f[k - 1]
Solves(f) == f = [k \in 0 .. Cardinality(Entries) |-> Turn(f, k)]

LEMMA RingSolves ==
  ASSUME NEW s, Ring(s)
  PROVE  Solves([k \in 0 .. Cardinality(Entries) |-> Cell(s, k + 1)])
<1> DEFINE N == Cardinality(Entries)
           f == [k \in 0 .. N |-> Cell(s, k + 1)]
<1>1. Len(s) \in Nat /\ N \in Nat /\ Len(s) <= N /\ HEAD \notin Entries
  BY DistinctLength, ProcListAssumption DEF Ring, RingOf, ProcListAssumption
<1>2. ASSUME NEW k \in 0 .. N PROVE f[k] = Turn(f, k)
  <2>1. CASE k = 0
    <3>1. nxt[Cell(s, 0)] = Cell(s, 0 + 1) /\ Cell(s, 0) = HEAD
      BY <1>1 DEF Ring, RingOf, Cell
    <3>2. QED
      BY <1>1, <2>1, <3>1 DEF Turn
  <2>2. CASE k # 0
    <3>1. k - 1 \in 0 .. N /\ f[k - 1] = Cell(s, k)
      BY <1>1, <2>2
    <3>2. CASE k \in 1 .. Len(s)
      <4>1. Cell(s, k) \in Entries /\ nxt[Cell(s, k)] = Cell(s, k + 1)
        BY <1>1, <3>2 DEF Ring, RingOf, Distinct, Cell
      <4>2. QED
        BY <2>2, <3>1, <4>1 DEF Turn
    <3>3. CASE k \notin 1 .. Len(s)
      <4>1. Cell(s, k) = HEAD /\ Cell(s, k + 1) = HEAD
        BY <1>1, <2>2, <3>3 DEF Cell
      <4>2. QED
        BY <1>1, <2>2, <3>1, <4>1 DEF Turn
    <3>4. QED
      BY <3>2, <3>3
  <2>3. QED
    BY <2>1, <2>2
<1>3. QED
  BY <1>2 DEF Solves

(* It has one only: two solutions would differ at a least place.             *)
LEMMA SolutionIsUnique ==
  ASSUME NEW f, NEW g, Solves(f), Solves(g), Cardinality(Entries) \in Nat
  PROVE  \A k \in 0 .. Cardinality(Entries) : f[k] = g[k]
<1> DEFINE N == Cardinality(Entries)
           Bad == {k \in 0 .. N : f[k] # g[k]}
<1>0. \A k \in 0 .. N : f[k] = Turn(f, k) /\ g[k] = Turn(g, k)
  <2>1. f = [k \in 0 .. N |-> Turn(f, k)] /\ g = [k \in 0 .. N |-> Turn(g, k)]
    BY DEF Solves
  <2> HIDE DEF N
  <2> DEFINE ff == [k \in 0 .. N |-> Turn(f, k)]
             gg == [k \in 0 .. N |-> Turn(g, k)]
  <2>2. \A k \in 0 .. N : ff[k] = Turn(f, k) /\ gg[k] = Turn(g, k)
    OBVIOUS
  <2>3. QED
    BY <2>1, <2>2
<1>1. SUFFICES ASSUME Bad # {} PROVE FALSE
  OBVIOUS
<1>2. PICK k \in Bad : \A m \in Bad : k <= m
  <2>1. Bad \in SUBSET Nat
    OBVIOUS
  <2> HIDE DEF Bad
  <2>2. QED
    BY <1>1, <2>1, LeastNat
<1>3. k # 0
  BY <1>0, <1>2 DEF Turn
<1>4. k - 1 \in 0 .. N /\ k - 1 \notin Bad
  BY <1>2, <1>3
<1>5. f[k - 1] = g[k - 1]
  BY <1>4
<1>6. QED
  BY <1>0, <1>2, <1>3, <1>5 DEF Turn

LEMMA ChainOnRing ==
  ASSUME NEW s, Ring(s)
  PROVE  \A k \in 0 .. Cardinality(Entries) : Chain[k] = Cell(s, k + 1)
<1> DEFINE f == [k \in 0 .. Cardinality(Entries) |-> Cell(s, k + 1)]
<1>1. Solves(f) /\ Cardinality(Entries) \in Nat
  BY RingSolves, DistinctLength DEF Ring, RingOf
<1>2. Chain = CHOOSE g : Solves(g)
  BY DEF Chain, Solves, Turn
<1>3. Solves(Chain)
  <2> HIDE DEF f
  <2>1. QED
    BY <1>1, <1>2
<1>4. \A k \in 0 .. Cardinality(Entries) : Chain[k] = f[k]
  <2> HIDE DEF f
  <2>1. QED
    BY <1>1, <1>3, SolutionIsUnique
<1>5. QED
  BY <1>4

(* What list_for_each_entry visits is the ring. *)
LEMMA WalkIsRing ==
  ASSUME NEW s, Ring(s)
  PROVE  Walk = s
<1> DEFINE N == Cardinality(Entries)
<1>1. Len(s) \in Nat /\ N \in Nat /\ Len(s) <= N /\ HEAD \notin Entries
  BY DistinctLength, ProcListAssumption DEF Ring, RingOf, ProcListAssumption
<1>2. {k \in 0 .. N - 1 : Chain[k] \in Entries} = 0 .. Len(s) - 1
  <2>1. \A k \in 0 .. N - 1 : Chain[k] = Cell(s, k + 1)
    BY <1>1, ChainOnRing
  <2>2. \A k \in 0 .. N - 1 : Chain[k] \in Entries <=> k + 1 \in 1 .. Len(s)
    BY <1>1, <2>1 DEF Cell, Ring, RingOf, Distinct
  <2>3. QED
    BY <1>1, <2>2
<1>3. Cardinality(0 .. Len(s) - 1) = Len(s)
  <2>1. 0 \in Int /\ Len(s) - 1 \in Int
    BY <1>1
  <2>2. Cardinality(0 .. Len(s) - 1) = IF 0 > Len(s) - 1 THEN 0 ELSE Len(s) - 1 - 0 + 1
    BY <2>1, FS_Interval
  <2>3. QED
    BY <1>1, <2>2
<1>4. WalkLength = Len(s)
  BY <1>2, <1>3 DEF WalkLength
<1>5. \A k \in 1 .. Len(s) : Chain[k - 1] = s[k]
  BY <1>1, ChainOnRing DEF Cell
<1>6. s = [k \in 1 .. Len(s) |-> s[k]]
  BY DEF Ring, RingOf, Distinct
<1>7. QED
  BY <1>4, <1>5, <1>6 DEF Walk

RingIsWalk == \A s : Ring(s) => Walk = s

LEMMA RingWalk == RingIsWalk
BY WalkIsRing DEF RingIsWalk

LEMMA NewWalk ==
  ASSUME NEW s, RingOf(nxt', s)
  PROVE  Walk' = s
<1>1. RingIsWalk'
  BY RingWalk, PTL
<1>2. QED
  BY <1>1 DEF RingIsWalk, Ring

-------------------------------------------------------------------------------
(* A sequence with an entry put in after position i, or without position j. *)
Inserted(s, i, e) ==
  [k \in 1 .. Len(s) + 1 |-> IF k <= i THEN s[k] ELSE IF k = i + 1 THEN e ELSE s[k - 1]]
Removed(s, j) == [k \in 1 .. Len(s) - 1 |-> IF k < j THEN s[k] ELSE s[k + 1]]

LEMMA InsertedDistinct ==
  ASSUME NEW s, Distinct(s), NEW e \in Entries \ ToSet(s), NEW i \in 0 .. Len(s)
  PROVE  Distinct(Inserted(s, i, e)) /\ Len(Inserted(s, i, e)) = Len(s) + 1
<1> DEFINE u == Inserted(s, i, e)
<1>1. Len(s) \in Nat /\ \A k \in 1 .. Len(s) : s[k] \in Entries /\ s[k] # e
  BY DEF Distinct, ToSet
<1>2. u \in Seq(Entries) /\ Len(u) = Len(s) + 1
  BY <1>1 DEF Inserted
<1>3. ASSUME NEW a \in 1 .. Len(u), NEW b \in 1 .. Len(u), u[a] = u[b] PROVE a = b
  <2>1. \A k \in 1 .. Len(s) + 1 :
           u[k] = IF k <= i THEN s[k] ELSE IF k = i + 1 THEN e ELSE s[k - 1]
    BY DEF Inserted
  <2>2. ASSUME NEW k \in 1 .. Len(s) + 1
        PROVE  \/ k <= i /\ k \in 1 .. Len(s) /\ u[k] = s[k]
               \/ k = i + 1 /\ u[k] = e
               \/ k > i + 1 /\ k - 1 \in 1 .. Len(s) /\ u[k] = s[k - 1]
    BY <1>1, <2>1
  <2> HIDE DEF u
  <2>3. a \in 1 .. Len(s) + 1 /\ b \in 1 .. Len(s) + 1
    BY <1>2
  <2>4. \A p, q \in 1 .. Len(s) : s[p] = s[q] => p = q
    BY DEF Distinct
  <2>5. CASE a <= i
    <3>1. a \in 1 .. Len(s) /\ u[a] = s[a]
      BY <1>1, <2>2, <2>3, <2>5
    <3>2. u[b] = s[a] /\ s[a] # e
      BY <1>1, <1>3, <3>1
    <3>3. CASE b <= i
      BY <2>2, <2>3, <2>4, <3>1, <3>2, <3>3
    <3>4. CASE b > i + 1
      <4>1. b - 1 \in 1 .. Len(s) /\ u[b] = s[b - 1]
        BY <1>1, <2>2, <2>3, <3>4
      <4>2. a = b - 1
        BY <2>4, <3>1, <3>2, <4>1
      <4>3. QED
        BY <1>1, <2>3, <2>5, <3>4, <4>2
    <3>5. QED
      BY <1>1, <2>2, <2>3, <3>2, <3>3, <3>4
  <2>6. CASE a = i + 1
    BY <1>1, <1>3, <2>2, <2>3, <2>6
  <2>7. CASE a > i + 1
    BY <1>1, <1>3, <2>2, <2>3, <2>4, <2>7
  <2>8. QED
    BY <1>1, <2>3, <2>5, <2>6, <2>7
<1>4. QED
  BY <1>2, <1>3 DEF Distinct

LEMMA InsertedCells ==
  ASSUME NEW s, Distinct(s), NEW e \in Entries \ ToSet(s), NEW i \in 0 .. Len(s),
         NEW k \in Int
  PROVE  Cell(Inserted(s, i, e), k) =
           IF k <= i THEN Cell(s, k) ELSE IF k = i + 1 THEN e ELSE Cell(s, k - 1)
<1>1. Len(s) \in Nat /\ Len(Inserted(s, i, e)) = Len(s) + 1
  BY InsertedDistinct DEF Distinct
<1>2. QED
  BY <1>1 DEF Cell, Inserted

LEMMA RemovedDistinct ==
  ASSUME NEW s, Distinct(s), NEW j \in 1 .. Len(s)
  PROVE  Distinct(Removed(s, j)) /\ Len(Removed(s, j)) = Len(s) - 1
<1> DEFINE u == Removed(s, j)
<1>1. Len(s) \in Nat /\ \A k \in 1 .. Len(s) : s[k] \in Entries
  BY DEF Distinct
<1>2. u \in Seq(Entries) /\ Len(u) = Len(s) - 1
  BY <1>1 DEF Removed
<1>3. ASSUME NEW a \in 1 .. Len(u), NEW b \in 1 .. Len(u), u[a] = u[b] PROVE a = b
  <2>1. \A k \in 1 .. Len(s) - 1 : u[k] = IF k < j THEN s[k] ELSE s[k + 1]
    BY DEF Removed
  <2> HIDE DEF u
  <2>2. QED
    BY <1>1, <1>2, <1>3, <2>1 DEF Distinct
<1>4. QED
  BY <1>2, <1>3 DEF Distinct

LEMMA RemovedCells ==
  ASSUME NEW s, Distinct(s), NEW j \in 1 .. Len(s), NEW k \in Int
  PROVE  Cell(Removed(s, j), k) = IF k < j THEN Cell(s, k) ELSE Cell(s, k + 1)
<1>1. Len(s) \in Nat /\ Len(Removed(s, j)) = Len(s) - 1
  BY RemovedDistinct DEF Distinct
<1>2. QED
  BY <1>1 DEF Cell, Removed

(* Two positions of a list hold the same cell only if they are both outside. *)
LEMMA CellsDiffer ==
  ASSUME NEW s, Distinct(s), NEW a \in Int, NEW b \in Int, Cell(s, a) = Cell(s, b)
  PROVE  a = b \/ (a \notin 1 .. Len(s) /\ b \notin 1 .. Len(s))
BY ProcListAssumption DEF ProcListAssumption, Cell, Distinct

LEMMA CellsType ==
  ASSUME NEW s, Distinct(s), NEW k
  PROVE  Cell(s, k) \in Cells /\ Cell(s, k) \in ToSet(s) \cup {HEAD}
BY DEF Cell, Cells, Distinct, ToSet

(* Stores that link an entry in, and out. *)
LEMMA InsertRing ==
  ASSUME NEW f, NEW s, RingOf(f, s), DOMAIN f = Cells,
         NEW i \in 0 .. Len(s), NEW e \in Entries \ ToSet(s), f[e] = Cell(s, i + 1)
  PROVE  RingOf([f EXCEPT ![Cell(s, i)] = e], Inserted(s, i, e))
<1> DEFINE u == Inserted(s, i, e)
           h == [f EXCEPT ![Cell(s, i)] = e]
<1>1. Distinct(s) /\ Distinct(u) /\ Len(s) \in Nat /\ Len(u) = Len(s) + 1
  BY InsertedDistinct DEF RingOf, Distinct
<1>2. ASSUME NEW k \in 0 .. Len(u) PROVE h[Cell(u, k)] = Cell(u, k + 1)
  <2>1. Cell(s, i) \in Cells /\ e \in Cells /\ e # Cell(s, i)
    BY <1>1, CellsType, ProcListAssumption DEF Cells, ProcListAssumption
  <2>2. CASE k < i
    <3>1. Cell(u, k) = Cell(s, k) /\ Cell(u, k + 1) = Cell(s, k + 1)
      BY <1>1, <2>2, InsertedCells
    <3>2. Cell(s, k) # Cell(s, i)
      BY <1>1, <2>2, CellsDiffer
    <3>3. f[Cell(s, k)] = Cell(s, k + 1) /\ Cell(s, k) \in Cells
      BY <1>1, <2>2, CellsType DEF RingOf
    <3>4. QED
      BY <3>1, <3>2, <3>3
  <2>3. CASE k = i
    <3>1. Cell(u, k) = Cell(s, i) /\ Cell(u, k + 1) = e
      BY <1>1, <2>3, InsertedCells
    <3>2. QED
      BY <2>1, <3>1
  <2>4. CASE k = i + 1
    <3>1. Cell(u, k) = e /\ Cell(u, k + 1) = Cell(s, i + 1)
      BY <1>1, <2>4, InsertedCells
    <3>2. QED
      BY <2>1, <3>1
  <2>5. CASE k > i + 1
    <3>1. Cell(u, k) = Cell(s, k - 1) /\ Cell(u, k + 1) = Cell(s, k)
      BY <1>1, <2>5, InsertedCells
    <3>2. Cell(s, k - 1) # Cell(s, i)
      BY <1>1, <2>5, CellsDiffer
    <3>3. f[Cell(s, k - 1)] = Cell(s, k) /\ Cell(s, k - 1) \in Cells
      BY <1>1, <2>5, CellsType DEF RingOf
    <3>4. QED
      BY <3>1, <3>2, <3>3
  <2>6. QED
    BY <1>1, <2>2, <2>3, <2>4, <2>5
<1>3. QED
  BY <1>1, <1>2 DEF RingOf

LEMMA RemoveRing ==
  ASSUME NEW f, NEW s, RingOf(f, s), DOMAIN f = Cells, NEW j \in 1 .. Len(s)
  PROVE  RingOf([f EXCEPT ![Cell(s, j - 1)] = Cell(s, j + 1)], Removed(s, j))
<1> DEFINE u == Removed(s, j)
           h == [f EXCEPT ![Cell(s, j - 1)] = Cell(s, j + 1)]
<1>1. Distinct(s) /\ Distinct(u) /\ Len(s) \in Nat /\ Len(u) = Len(s) - 1
  BY RemovedDistinct DEF RingOf, Distinct
<1>2. ASSUME NEW k \in 0 .. Len(u) PROVE h[Cell(u, k)] = Cell(u, k + 1)
  <2>1. Cell(s, j - 1) \in Cells
    BY <1>1, CellsType
  <2>2. CASE k < j - 1
    <3>1. Cell(u, k) = Cell(s, k) /\ Cell(u, k + 1) = Cell(s, k + 1)
      BY <1>1, <2>2, RemovedCells
    <3>2. Cell(s, k) # Cell(s, j - 1)
      BY <1>1, <2>2, CellsDiffer
    <3>3. f[Cell(s, k)] = Cell(s, k + 1) /\ Cell(s, k) \in Cells
      BY <1>1, <2>2, CellsType DEF RingOf
    <3>4. QED
      BY <3>1, <3>2, <3>3
  <2>3. CASE k = j - 1
    <3>1. Cell(u, k) = Cell(s, j - 1) /\ Cell(u, k + 1) = Cell(s, j + 1)
      BY <1>1, <2>3, RemovedCells
    <3>2. QED
      BY <2>1, <3>1
  <2>4. CASE k >= j
    <3>1. Cell(u, k) = Cell(s, k + 1) /\ Cell(u, k + 1) = Cell(s, k + 2)
      BY <1>1, <2>4, RemovedCells
    <3>2. Cell(s, k + 1) # Cell(s, j - 1)
      BY <1>1, <2>4, CellsDiffer
    <3>3. f[Cell(s, k + 1)] = Cell(s, k + 2) /\ Cell(s, k + 1) \in Cells
      BY <1>1, <2>4, CellsType DEF RingOf
    <3>4. QED
      BY <3>1, <3>2, <3>3
  <2>5. QED
    BY <1>1, <2>2, <2>3, <2>4
<1>3. QED
  BY <1>1, <1>2 DEF RingOf

LEMMA InsertBack ==
  ASSUME NEW g, NEW s, Distinct(s), BackOf(g, s), DOMAIN g = Cells,
         NEW i \in 0 .. Len(s), NEW e \in Entries \ ToSet(s)
  PROVE  BackOf([g EXCEPT ![Cell(s, i + 1)] = e, ![e] = Cell(s, i)], Inserted(s, i, e))
<1> DEFINE u == Inserted(s, i, e)
           h == [g EXCEPT ![Cell(s, i + 1)] = e, ![e] = Cell(s, i)]
<1>1. Distinct(u) /\ Len(s) \in Nat /\ Len(u) = Len(s) + 1
  BY InsertedDistinct DEF Distinct
<1>2. ASSUME NEW k \in 0 .. Len(u) PROVE h[Cell(u, k + 1)] = Cell(u, k)
  <2>1. /\ Cell(s, i + 1) \in Cells /\ e \in Cells /\ e # Cell(s, i + 1)
        /\ \A m : Cell(s, m) # e /\ Cell(s, m) \in Cells
    BY <1>1, CellsType, ProcListAssumption DEF Cells, ProcListAssumption
  <2>2. CASE k < i
    <3>1. Cell(u, k) = Cell(s, k) /\ Cell(u, k + 1) = Cell(s, k + 1)
      BY <1>1, <2>2, InsertedCells
    <3>2. Cell(s, k + 1) # Cell(s, i + 1)
      BY <1>1, <2>2, CellsDiffer
    <3>3. g[Cell(s, k + 1)] = Cell(s, k)
      <4>1. k \in 0 .. Len(s)
        BY <1>1, <2>2
      <4>2. QED
        BY <4>1 DEF BackOf
    <3>4. Cell(s, k + 1) # e /\ Cell(s, k + 1) \in Cells
      BY <2>1
    <3>5. h[Cell(s, k + 1)] = g[Cell(s, k + 1)]
      BY <2>1, <3>2, <3>4
    <3>6. QED
      BY <3>1, <3>3, <3>5
  <2>3. CASE k = i
    <3>1. Cell(u, k) = Cell(s, i) /\ Cell(u, k + 1) = e
      BY <1>1, <2>3, InsertedCells
    <3>2. QED
      BY <2>1, <3>1
  <2>4. CASE k = i + 1
    <3>1. Cell(u, k) = e /\ Cell(u, k + 1) = Cell(s, i + 1)
      BY <1>1, <2>4, InsertedCells
    <3>2. QED
      BY <2>1, <3>1
  <2>5. CASE k > i + 1
    <3>1. Cell(u, k) = Cell(s, k - 1) /\ Cell(u, k + 1) = Cell(s, k)
      BY <1>1, <2>5, InsertedCells
    <3>2. Cell(s, k) # Cell(s, i + 1)
      BY <1>1, <2>5, CellsDiffer
    <3>3. g[Cell(s, k - 1 + 1)] = Cell(s, k - 1) /\ k - 1 + 1 = k
      BY <1>1, <2>5 DEF BackOf
    <3>4. QED
      BY <2>1, <3>1, <3>2, <3>3
  <2>6. QED
    BY <1>1, <2>2, <2>3, <2>4, <2>5
<1>3. QED
  BY <1>1, <1>2 DEF BackOf

LEMMA RemoveBack ==
  ASSUME NEW g, NEW s, Distinct(s), BackOf(g, s), DOMAIN g = Cells, NEW j \in 1 .. Len(s)
  PROVE  BackOf([g EXCEPT ![Cell(s, j + 1)] = Cell(s, j - 1)], Removed(s, j))
<1> DEFINE u == Removed(s, j)
           h == [g EXCEPT ![Cell(s, j + 1)] = Cell(s, j - 1)]
<1>1. Distinct(u) /\ Len(s) \in Nat /\ Len(u) = Len(s) - 1
  BY RemovedDistinct DEF Distinct
<1>2. ASSUME NEW k \in 0 .. Len(u) PROVE h[Cell(u, k + 1)] = Cell(u, k)
  <2>1. \A m : Cell(s, m) \in Cells
    BY CellsType
  <2>2. CASE k < j - 1
    <3>1. Cell(u, k) = Cell(s, k) /\ Cell(u, k + 1) = Cell(s, k + 1)
      BY <1>1, <2>2, RemovedCells
    <3>2. Cell(s, k + 1) # Cell(s, j + 1)
      BY <1>1, <2>2, CellsDiffer
    <3>3. g[Cell(s, k + 1)] = Cell(s, k)
      <4>1. k \in 0 .. Len(s)
        BY <1>1, <2>2
      <4>2. QED
        BY <4>1 DEF BackOf
    <3>4. QED
      BY <2>1, <3>1, <3>2, <3>3
  <2>3. CASE k = j - 1
    <3>1. Cell(u, k) = Cell(s, j - 1) /\ Cell(u, k + 1) = Cell(s, j + 1)
      BY <1>1, <2>3, RemovedCells
    <3>2. QED
      BY <2>1, <3>1
  <2>4. CASE k >= j
    <3>1. Cell(u, k) = Cell(s, k + 1) /\ Cell(u, k + 1) = Cell(s, k + 2)
      BY <1>1, <2>4, RemovedCells
    <3>2. Cell(s, k + 2) # Cell(s, j + 1)
      BY <1>1, <2>4, CellsDiffer
    <3>3. g[Cell(s, k + 1 + 1)] = Cell(s, k + 1) /\ k + 1 + 1 = k + 2
      BY <1>1, <2>4 DEF BackOf
    <3>4. QED
      BY <2>1, <3>1, <3>2, <3>3
  <2>5. QED
    BY <1>1, <2>2, <2>3, <2>4
<1>3. QED
  BY <1>1, <1>2 DEF BackOf

LEMMA InsertedSet ==
  ASSUME NEW s, Distinct(s), NEW e \in Entries \ ToSet(s), NEW i \in 0 .. Len(s)
  PROVE  ToSet(Inserted(s, i, e)) = ToSet(s) \cup {e}
<1> DEFINE u == Inserted(s, i, e)
<1>1. Len(s) \in Nat /\ Len(u) = Len(s) + 1
  BY InsertedDistinct DEF Distinct
<1>2. \A k \in 1 .. Len(s) + 1 :
        u[k] = IF k <= i THEN s[k] ELSE IF k = i + 1 THEN e ELSE s[k - 1]
  BY DEF Inserted
<1> HIDE DEF u
<1>3. ASSUME NEW k \in 1 .. Len(s) + 1 PROVE u[k] \in ToSet(s) \cup {e}
  <2>1. CASE k <= i
    BY <1>1, <1>2, <2>1 DEF ToSet
  <2>2. CASE k = i + 1
    BY <1>1, <1>2, <2>2
  <2>3. CASE k > i + 1
    <3>1. k - 1 \in 1 .. Len(s) /\ u[k] = s[k - 1]
      BY <1>1, <1>2, <2>3
    <3>2. QED
      BY <3>1 DEF ToSet
  <2>4. QED
    BY <1>1, <2>1, <2>2, <2>3
<1>4. ASSUME NEW k \in 1 .. Len(s) PROVE \E m \in 1 .. Len(s) + 1 : u[m] = s[k]
  <2>1. CASE k <= i
    BY <1>1, <1>2, <2>1
  <2>2. CASE k > i
    <3>1. k + 1 \in 1 .. Len(s) + 1 /\ u[k + 1] = s[k]
      BY <1>1, <1>2, <2>2
    <3>2. QED
      BY <3>1
  <2>3. QED
    BY <1>1, <2>1, <2>2
<1>5. i + 1 \in 1 .. Len(s) + 1 /\ u[i + 1] = e
  BY <1>1, <1>2
<1>6. DOMAIN s = 1 .. Len(s) /\ DOMAIN u = 1 .. Len(s) + 1
  BY DEF Distinct, u, Inserted
<1>7. ToSet(u) = ToSet(s) \cup {e}
  BY <1>3, <1>4, <1>5, <1>6 DEF ToSet
<1>8. QED
  BY <1>7 DEF u

LEMMA RemovedSet ==
  ASSUME NEW s, Distinct(s), NEW j \in 1 .. Len(s)
  PROVE  ToSet(Removed(s, j)) = ToSet(s) \ {s[j]}
<1> DEFINE u == Removed(s, j)
<1>1. Len(s) \in Nat /\ Len(u) = Len(s) - 1
  BY RemovedDistinct DEF Distinct
<1>2. \A k \in 1 .. Len(s) - 1 : u[k] = IF k < j THEN s[k] ELSE s[k + 1]
  BY DEF Removed
<1>3. \A a, b \in 1 .. Len(s) : s[a] = s[b] => a = b
  BY DEF Distinct
<1> HIDE DEF u
<1>4. ASSUME NEW k \in 1 .. Len(s) - 1 PROVE u[k] \in ToSet(s) \ {s[j]}
  <2>1. CASE k < j
    <3>1. k \in 1 .. Len(s) /\ u[k] = s[k] /\ k # j
      BY <1>1, <1>2, <2>1
    <3>2. QED
      BY <1>3, <3>1 DEF ToSet
  <2>2. CASE k >= j
    <3>1. k + 1 \in 1 .. Len(s) /\ u[k] = s[k + 1] /\ k + 1 # j
      BY <1>1, <1>2, <2>2
    <3>2. QED
      BY <1>3, <3>1 DEF ToSet
  <2>3. QED
    BY <1>1, <2>1, <2>2
<1>5. ASSUME NEW k \in 1 .. Len(s), k # j PROVE \E m \in 1 .. Len(s) - 1 : u[m] = s[k]
  <2>1. CASE k < j
    BY <1>1, <1>2, <2>1
  <2>2. CASE k > j
    <3>1. k - 1 \in 1 .. Len(s) - 1 /\ u[k - 1] = s[k]
      BY <1>1, <1>2, <2>2
    <3>2. QED
      BY <3>1
  <2>3. QED
    BY <1>1, <1>5, <2>1, <2>2
<1>6. DOMAIN s = 1 .. Len(s) /\ DOMAIN u = 1 .. Len(s) - 1
  BY DEF Distinct, u, Removed
<1>7. ToSet(u) \subseteq ToSet(s) \ {s[j]}
  BY <1>4, <1>6 DEF ToSet
<1>8. ToSet(s) \ {s[j]} \subseteq ToSet(u)
  BY <1>5, <1>6 DEF ToSet
<1>9. QED
  BY <1>7, <1>8 DEF u

(* A store to an entry that is not on the list leaves the ring alone.        *)
LEMMA RingFrame ==
  ASSUME NEW f, NEW s, RingOf(f, s), DOMAIN f = Cells, NEW e \in Entries \ ToSet(s), NEW v
  PROVE  RingOf([f EXCEPT ![e] = v], s)
<1>1. ASSUME NEW k \in 0 .. Len(s) PROVE Cell(s, k) \in Cells /\ Cell(s, k) # e
  BY CellsType, ProcListAssumption DEF RingOf, ProcListAssumption
<1>2. QED
  BY <1>1 DEF RingOf

LEMMA BackFrame ==
  ASSUME NEW g, NEW s, Distinct(s), BackOf(g, s), DOMAIN g = Cells,
         NEW e \in Entries \ ToSet(s), NEW v
  PROVE  BackOf([g EXCEPT ![e] = v], s)
<1>1. ASSUME NEW k \in 0 .. Len(s) PROVE Cell(s, k + 1) \in Cells /\ Cell(s, k + 1) # e
  BY CellsType, ProcListAssumption DEF ProcListAssumption
<1>2. QED
  BY <1>1 DEF BackOf

-------------------------------------------------------------------------------
(* The inductive invariant.  What a change is in the middle of, when the     *)
(* entries on the forward list are s.                                        *)
Pending(t) == task[t].at \in {"prepare", "publish", "free"}
Passed(t, s, j) == \A i \in 1 .. j - 1 : ~Selects(t, s[i])

Linking(t, s) ==
  \E i \in {0, Len(s)} :
    /\ task[t].prev = Cell(s, i) /\ task[t].next = Cell(s, i + 1)
    /\ task[t].at = "publish" => /\ nxt[task[t].cur] = task[t].next
                                 /\ BackOf(prv, Inserted(s, i, task[t].cur))

Visiting(t, s) == \E j \in 1 .. Len(s) + 1 : task[t].cur = Cell(s, j) /\ Passed(t, s, j)

Unlinking(t, s) ==
  \E j \in 1 .. Len(s) :
    /\ task[t].cur = s[j] /\ Selects(t, s[j]) /\ Passed(t, s, j)
    /\ task[t].prev = Cell(s, j - 1) /\ task[t].next = Cell(s, j + 1)
    /\ task[t].at = "forward" => BackOf(prv, Removed(s, j))

Leaving(t, s) == \E j \in 1 .. Len(s) + 1 : task[t].next = Cell(s, j) /\ Passed(t, s, j)

JobInv(t, s) ==
  /\ task[t].at \in {"prepare", "publish"} => Linking(t, s)
  /\ task[t].at = "test" => Visiting(t, s)
  /\ task[t].at \in {"back", "forward"} => Unlinking(t, s)
  /\ task[t].at = "free" => Leaving(t, s)
  /\ Pending(t) => task[t].cur \in Entries \ ToSet(s) /\ name[task[t].cur] # Free

(* The ring of the entries s, and who owns the entries that are allocated.   *)
HeapInv(s) ==
  /\ RingOf(nxt, s)
  /\ name \in [Entries -> Accepted \cup {Free}]
  /\ \A e \in ToSet(s) : name[e] # Free
  /\ \A e \in Entries :
       name[e] # Free => e \in ToSet(s) \/ \E t \in Active : Pending(t) /\ task[t].cur = e
  /\ (\A t \in Active : task[t].at \notin {"publish", "forward"}) => BackOf(prv, s)
  /\ \A t \in Active : JobInv(t, s)

(* Where an undisturbed read is: a entries precede those that were there     *)
(* when it began.                                                            *)
Agrees(q, s, a) ==
  a + Len(q) <= Len(s) /\ \A i \in 1 .. Len(q) : q[i] = name[s[a + i]]

Place(r, s, a) ==
  LET from == reader[r].from  shown == reader[r].shown IN
    /\ Agrees(from, s, a) /\ Agrees(shown, s, a)
    /\ reader[r].at = "name" =>
         \/ reader[r].cur = HEAD /\ Len(from) <= Len(shown)
         \/ a + Len(shown) < Len(s) /\ reader[r].cur = s[a + Len(shown) + 1]
    /\ reader[r].at = "next" => Len(shown) >= 1 /\ reader[r].cur = s[a + Len(shown)]

Follows(r, s) == \E a \in 0 .. Len(s) : Place(r, s, a)

ReadInv(s) == \A r \in Reading \ torn : Follows(r, s)

(* One change at a time, and what the phases of the module allow.            *)
ControlInv ==
  /\ \A t, u \in Active : t = u
  /\ mod \in {"unloaded", "preview", "read"} => Active = {}
  /\ mod = "destroy" => Active = {Rmmod}
  /\ mod \in {"live", "destroyed", "write"} => Rmmod \notin Active
  /\ mod = "unloaded" => Reading = {}
  /\ \A t \in Active :
       /\ task[t].at \in {"prepare", "publish"} <=> task[t].op = "add"
       /\ task[t].op # "none" /\ (task[t].op = "destroy" <=> t = Rmmod)

IInv ==
  TypeOK /\ ControlInv /\ HeapInv(Walk) /\ ReadInv(Walk) /\ FaultsNeedDeletion
-------------------------------------------------------------------------------
LEMMA AcceptedNames == Accepted \subseteq Names /\ Free \notin Names
<1>1. ASSUME NEW c \in Counts PROVE NameSize(c) \in Nat
  <2>1. Length(c) - 5 \in Int /\ UINT \in Nat /\ UINT > 0
    BY ProcListAssumption DEF ProcListAssumption, Length
  <2>2. \A x \in Int, y \in Nat : y > 0 => x % y \in Nat
    OBVIOUS
  <2>3. QED
    BY <2>1, <2>2 DEF NameSize
<1>2. NAME_MAX_SIZE \in Nat
  BY ProcListAssumption DEF ProcListAssumption
<1>3. ASSUME NEW n \in Accepted PROVE n \in Names
  <2>1. n \in Nat /\ n < NAME_MAX_SIZE
    BY <1>1 DEF Accepted
  <2>2. QED
    BY <1>2, <2>1 DEF Names
<1>4. QED
  BY <1>3, <1>2 DEF Names, Free

(* Who acts is the only one that does, and what it does to its locals.       *)
LEMMA Alone ==
  ASSUME ControlInv, NEW t \in Tasks, task[t].at # "none"
  PROVE  Active = {t}
BY DEF ControlInv, Active

LEMMA TaskTypes ==
  ASSUME TypeOK, NEW t \in Tasks
  PROVE  /\ task[t].op \in {"none", "add", "delf", "dela", "destroy"}
         /\ task[t].at \in {"none", "prepare", "publish", "test", "back", "forward", "free"}
         /\ task[t].name \in Names \cup {Free}
         /\ task[t].cur \in Links /\ task[t].prev \in Links /\ task[t].next \in Links
BY DEF TypeOK, Jobs

LEMMA Moved ==
  ASSUME TypeOK, ControlInv, NEW t \in Tasks, task[t].at # "none",
         NEW at \in {"publish", "forward", "free"}, Goto(t, at)
  PROVE  /\ Active' = {t} /\ task'[t].at = at
         /\ task'[t].op = task[t].op /\ task'[t].name = task[t].name
         /\ task'[t].cur = task[t].cur
         /\ task'[t].prev = task[t].prev /\ task'[t].next = task[t].next
<1>1. Active = {t}
  BY Alone
<1>2. task'[t] = [task[t] EXCEPT !.at = at] /\ \A u \in Tasks : u # t => task'[u] = task[u]
  BY DEF TypeOK, Jobs, Goto
<1>3. /\ task'[t].at = at /\ task'[t].op = task[t].op /\ task'[t].name = task[t].name
      /\ task'[t].cur = task[t].cur
      /\ task'[t].prev = task[t].prev /\ task'[t].next = task[t].next
  BY <1>2 DEF TypeOK, Jobs
<1>4. QED
  BY <1>1, <1>2, <1>3 DEF Active

LEMMA Began ==
  ASSUME TypeOK, ControlInv, NEW t \in Tasks, Active \subseteq {t},
         NEW op, NEW at, NEW n, NEW c, NEW p, NEW x,
         task' = [task EXCEPT ![t] = Job(op, at, n, c, p, x)]
  PROVE  /\ Active' = (IF at = "none" THEN {} ELSE {t})
         /\ task'[t].at = at /\ task'[t].op = op /\ task'[t].name = n
         /\ task'[t].cur = c /\ task'[t].prev = p /\ task'[t].next = x
<1>1. task'[t] = Job(op, at, n, c, p, x) /\ \A u \in Tasks : u # t => task'[u] = task[u]
  BY DEF TypeOK
<1>2. /\ task'[t].at = at /\ task'[t].op = op /\ task'[t].name = n
      /\ task'[t].cur = c /\ task'[t].prev = p /\ task'[t].next = x
  BY <1>1 DEF Job
<1>3. QED
  BY <1>1, <1>2 DEF Active

-------------------------------------------------------------------------------
(* The stores of an addition.                                                *)
LEMMA PrepareHeap ==
  ASSUME TypeOK, ControlInv, NEW s, HeapInv(s), NEW t \in Tasks, Prepare(t)
  PROVE  HeapInv(s)'
<1> DEFINE e == task[t].cur
<1>1. Active = {t} /\ Active' = {t} /\ task[t].at = "prepare" /\ task'[t].at = "publish"
  BY Alone, Moved DEF Prepare, At
<1>2. task'[t].cur = e /\ task'[t].prev = task[t].prev /\ task'[t].next = task[t].next
  BY Moved DEF Prepare, At
<1>3. JobInv(t, s) /\ RingOf(nxt, s) /\ BackOf(prv, s) /\ Distinct(s)
  BY <1>1 DEF HeapInv, RingOf
<1>4. e \in Entries \ ToSet(s) /\ name[e] # Free
  BY <1>1, <1>3 DEF JobInv, Pending
<1>5. PICK i \in {0, Len(s)} : task[t].prev = Cell(s, i) /\ task[t].next = Cell(s, i + 1)
  BY <1>1, <1>3 DEF JobInv, Linking
<1>6. i \in 0 .. Len(s) /\ Len(s) \in Nat /\ DOMAIN nxt = Cells /\ DOMAIN prv = Cells /\ e \in Cells
  BY <1>3, <1>4 DEF Distinct, TypeOK, Cells
<1>7. /\ nxt' = [nxt EXCEPT ![e] = Cell(s, i + 1)]
      /\ prv' = [prv EXCEPT ![Cell(s, i + 1)] = e, ![e] = Cell(s, i)]
      /\ name' = name
  BY <1>5 DEF Prepare
<1> HIDE DEF e
<1>8. RingOf(nxt', s) /\ nxt'[e] = Cell(s, i + 1)
  BY <1>3, <1>4, <1>6, <1>7, RingFrame
<1>9. BackOf(prv', Inserted(s, i, e))
  BY <1>3, <1>4, <1>6, <1>7, InsertBack
<1>10. JobInv(t, s)'
  <2>1. Linking(t, s)'
    BY <1>2, <1>5, <1>8, <1>9 DEF Linking
  <2>2. QED
    BY <1>1, <1>2, <1>4, <1>7, <2>1 DEF JobInv, Pending, e
<1>11. \A x \in Entries : name[x] # Free => x \in ToSet(s) \/ x = e
  BY <1>1 DEF HeapInv, e
<1>12. QED
  BY <1>1, <1>2, <1>7, <1>8, <1>10, <1>11 DEF HeapInv, Pending

LEMMA PublishHeap ==
  ASSUME TypeOK, ControlInv, NEW s, HeapInv(s), NEW t \in Tasks, Publish(t)
  PROVE  \E i \in {0, Len(s)} : \E e \in Entries \ ToSet(s) :
            e = task[t].cur /\ HeapInv(Inserted(s, i, e))' /\ name[e] # Free
<1>1. Active = {t} /\ Active' = {} /\ task[t].at = "publish"
  BY Alone, Began DEF Publish, At, NoJob
<1>2. JobInv(t, s) /\ RingOf(nxt, s) /\ Distinct(s)
  BY <1>1 DEF HeapInv, RingOf
<1>3. PICK e \in Entries \ ToSet(s) : e = task[t].cur /\ name[e] # Free
  BY <1>1, <1>2 DEF JobInv, Pending
<1>4. PICK i \in {0, Len(s)} :
        /\ task[t].prev = Cell(s, i) /\ task[t].next = Cell(s, i + 1)
        /\ nxt[e] = Cell(s, i + 1) /\ BackOf(prv, Inserted(s, i, e))
  BY <1>1, <1>2, <1>3 DEF JobInv, Linking
<1>5. i \in 0 .. Len(s) /\ Len(s) \in Nat /\ DOMAIN nxt = Cells
  BY <1>2 DEF Distinct, TypeOK
<1>6. nxt' = [nxt EXCEPT ![Cell(s, i)] = e] /\ prv' = prv /\ name' = name
  BY <1>3, <1>4 DEF Publish
<1>7. RingOf(nxt', Inserted(s, i, e))
  BY <1>2, <1>3, <1>4, <1>5, <1>6, InsertRing
<1>8. ToSet(Inserted(s, i, e)) = ToSet(s) \cup {e}
  BY <1>2, <1>5, InsertedSet
<1>9. \A x \in Entries : name[x] # Free => x \in ToSet(s) \/ x = e
  BY <1>1, <1>3 DEF HeapInv
<1>10. HeapInv(Inserted(s, i, e))'
  BY <1>1, <1>3, <1>4, <1>6, <1>7, <1>8, <1>9 DEF HeapInv
<1>11. QED
  BY <1>3, <1>10

-------------------------------------------------------------------------------
(* The stores of a deletion.                                                 *)
LEMMA UnlinkBackHeap ==
  ASSUME TypeOK, ControlInv, NEW s, HeapInv(s), NEW t \in Tasks, UnlinkBack(t)
  PROVE  HeapInv(s)'
<1>1. Active = {t} /\ Active' = {t} /\ task[t].at = "back" /\ task'[t].at = "forward"
  BY Alone, Moved DEF UnlinkBack, At
<1>2. /\ task'[t].cur = task[t].cur /\ task'[t].prev = task[t].prev
      /\ task'[t].next = task[t].next /\ task'[t].op = task[t].op
      /\ task'[t].name = task[t].name
  BY Moved DEF UnlinkBack, At
<1>3. JobInv(t, s) /\ RingOf(nxt, s) /\ BackOf(prv, s) /\ Distinct(s)
  BY <1>1 DEF HeapInv, RingOf
<1>4. PICK j \in 1 .. Len(s) :
        /\ task[t].cur = s[j] /\ Selects(t, s[j]) /\ Passed(t, s, j)
        /\ task[t].prev = Cell(s, j - 1) /\ task[t].next = Cell(s, j + 1)
  BY <1>1, <1>3 DEF JobInv, Unlinking
<1>5. DOMAIN prv = Cells
  BY DEF TypeOK
<1>6. nxt' = nxt /\ prv' = [prv EXCEPT ![Cell(s, j + 1)] = Cell(s, j - 1)] /\ name' = name
  BY <1>4 DEF UnlinkBack
<1>7. BackOf(prv', Removed(s, j))
  BY <1>3, <1>4, <1>5, <1>6, RemoveBack
<1>8. Selects(t, s[j])' /\ Passed(t, s, j)'
  BY <1>2, <1>4, <1>6 DEF Selects, Passed
<1>9. JobInv(t, s)'
  <2>1. Unlinking(t, s)'
    BY <1>2, <1>4, <1>7, <1>8 DEF Unlinking
  <2>2. QED
    BY <1>1, <2>1 DEF JobInv, Pending
<1>10. \A x \in Entries : name[x] # Free => x \in ToSet(s)
  BY <1>1 DEF HeapInv, Pending
<1>11. QED
  BY <1>1, <1>3, <1>6, <1>9, <1>10 DEF HeapInv

LEMMA UnlinkForwardHeap ==
  ASSUME TypeOK, ControlInv, NEW s, HeapInv(s), NEW t \in Tasks, UnlinkForward(t)
  PROVE  \E j \in 1 .. Len(s) :
           Selects(t, s[j]) /\ Passed(t, s, j) /\ HeapInv(Removed(s, j))'
<1>1. Active = {t} /\ Active' = {t} /\ task[t].at = "forward" /\ task'[t].at = "free"
  BY Alone, Moved DEF UnlinkForward, At
<1>2. /\ task'[t].cur = task[t].cur /\ task'[t].next = task[t].next
      /\ task'[t].op = task[t].op /\ task'[t].name = task[t].name
  BY Moved DEF UnlinkForward, At
<1>3. JobInv(t, s) /\ RingOf(nxt, s) /\ Distinct(s) /\ Len(s) \in Nat
  BY <1>1 DEF HeapInv, RingOf, Distinct
<1>4. PICK j \in 1 .. Len(s) :
        /\ task[t].cur = s[j] /\ Selects(t, s[j]) /\ Passed(t, s, j)
        /\ task[t].prev = Cell(s, j - 1) /\ task[t].next = Cell(s, j + 1)
        /\ BackOf(prv, Removed(s, j))
  BY <1>1, <1>3 DEF JobInv, Unlinking
<1>5. DOMAIN nxt = Cells
  BY DEF TypeOK
<1>6. nxt' = [nxt EXCEPT ![Cell(s, j - 1)] = Cell(s, j + 1)] /\ prv' = prv /\ name' = name
  BY <1>4 DEF UnlinkForward
<1> DEFINE u == Removed(s, j)
<1>7. RingOf(nxt', u) /\ Distinct(u) /\ Len(u) = Len(s) - 1
  BY <1>3, <1>5, <1>6, RemoveRing, RemovedDistinct
<1>8. ToSet(u) = ToSet(s) \ {s[j]} /\ s[j] \in ToSet(s) /\ s[j] \in Entries
  <2>1. ToSet(u) = ToSet(s) \ {s[j]}
    BY <1>3, RemovedSet
  <2>2. DOMAIN s = 1 .. Len(s) /\ s[j] \in Entries
    BY <1>3 DEF Distinct
  <2>3. s[j] \in ToSet(s)
    BY <2>2 DEF ToSet
  <2>4. QED
    BY <2>1, <2>2, <2>3
<1>9. Cell(u, j) = Cell(s, j + 1)
  BY <1>3, RemovedCells
<1>10. \A k \in 1 .. j - 1 : u[k] = s[k]
  BY <1>3 DEF Removed
<1> HIDE DEF u
<1>11. Passed(t, u, j)'
  BY <1>2, <1>4, <1>6, <1>10 DEF Passed, Selects
<1>12. JobInv(t, u)'
  <2>1. Leaving(t, u)'
    BY <1>2, <1>3, <1>4, <1>7, <1>9, <1>11 DEF Leaving
  <2>2. name[s[j]] # Free
    BY <1>8 DEF HeapInv
  <2>3. QED
    BY <1>1, <1>2, <1>4, <1>6, <1>8, <2>1, <2>2 DEF JobInv, Pending
<1>13. \A x \in Entries : name[x] # Free => x \in ToSet(s)
  BY <1>1 DEF HeapInv, Pending
<1>14. HeapInv(u)'
  <2>1. \A x \in Entries :
          name'[x] # Free => x \in ToSet(u) \/ \E v \in Active' : Pending(v)' /\ task'[v].cur = x
    BY <1>1, <1>2, <1>4, <1>6, <1>8, <1>13 DEF Pending
  <2>2. /\ name' \in [Entries -> Accepted \cup {Free}] /\ \A x \in ToSet(u) : name'[x] # Free
        /\ BackOf(prv', u)
    BY <1>4, <1>6, <1>8 DEF HeapInv, u
  <2>3. QED
    BY <1>1, <1>7, <1>12, <2>1, <2>2 DEF HeapInv
<1>15. QED
  BY <1>4, <1>14 DEF u

LEMMA ReclaimHeap ==
  ASSUME TypeOK, ControlInv, NEW s, HeapInv(s), NEW t \in Tasks, Reclaim(t)
  PROVE  HeapInv(s)'
<1>1. Active = {t} /\ task[t].at = "free"
  BY Alone DEF Reclaim, At
<1>2. JobInv(t, s) /\ RingOf(nxt, s) /\ BackOf(prv, s) /\ Distinct(s) /\ Len(s) \in Nat
  BY <1>1 DEF HeapInv, RingOf, Distinct
<1>3. PICK e \in Entries \ ToSet(s) : e = task[t].cur
  BY <1>1, <1>2 DEF JobInv, Pending
<1>4. PICK j \in 1 .. Len(s) + 1 : task[t].next = Cell(s, j) /\ Passed(t, s, j)
  BY <1>1, <1>2 DEF JobInv, Leaving
<1>5. DOMAIN nxt = Cells /\ DOMAIN prv = Cells /\ DOMAIN name = Entries
  BY DEF TypeOK
<1>6. /\ nxt' = [nxt EXCEPT ![e] = POISON] /\ prv' = [prv EXCEPT ![e] = POISON]
      /\ name' = [name EXCEPT ![e] = Free]
  BY <1>3 DEF Reclaim
<1>7. RingOf(nxt', s) /\ BackOf(prv', s)
  BY <1>2, <1>3, <1>5, <1>6, RingFrame, BackFrame
<1>8. name' \in [Entries -> Accepted \cup {Free}] /\ \A x \in ToSet(s) : name'[x] = name[x]
  <2>1. ToSet(s) \subseteq Entries
    BY <1>2 DEF ToSet, Distinct
  <2>2. QED
    BY <1>3, <1>5, <1>6, <2>1 DEF HeapInv
<1>9. \A x \in Entries : name'[x] # Free => x \in ToSet(s)
  BY <1>1, <1>3, <1>5, <1>6 DEF HeapInv
<1>10. \A x \in ToSet(s) : name'[x] # Free
  BY <1>8 DEF HeapInv
<1>11. (\A u \in Active : task[u].at = "test" /\ JobInv(u, s))'
  <2>1. CASE task[t].op = "delf"
    <3>1. Active' = {}
      BY <1>1, <2>1, Began DEF Reclaim, Finish, NoJob
    <3>2. QED
      BY <3>1
  <2>2. CASE task[t].op # "delf"
    <3>1. task' = [task EXCEPT ![t] =
             Job(task[t].op, "test", task[t].name, task[t].next, HEAD, HEAD)]
      BY <2>2 DEF Reclaim, Advance, Walker, Ahead
    <3>2. /\ Active' = {t} /\ task'[t].at = "test" /\ task'[t].cur = Cell(s, j)
          /\ task'[t].op = task[t].op /\ task'[t].name = task[t].name
      <4> DEFINE op == task[t].op  n == task[t].name  c == task[t].next
      <4>1. Active \subseteq {t} /\ "test" # "none" /\ c = Cell(s, j)
        BY <1>1, <1>4
      <4>2. task' = [task EXCEPT ![t] = Job(op, "test", n, c, HEAD, HEAD)]
        BY <3>1
      <4> HIDE DEF op, n, c
      <4>3. /\ Active' = {t} /\ task'[t].at = "test" /\ task'[t].cur = c
            /\ task'[t].op = op /\ task'[t].name = n
        BY <4>1, <4>2, Began
      <4>4. QED
        BY <4>1, <4>3 DEF op, n
    <3>3. \A k \in 1 .. j - 1 : s[k] \in ToSet(s)
      BY <1>2 DEF ToSet, Distinct
    <3>4. Passed(t, s, j)'
      BY <1>4, <1>8, <3>2, <3>3 DEF Passed, Selects
    <3>5. Visiting(t, s)'
      BY <3>2, <3>4 DEF Visiting
    <3>6. QED
      BY <3>2, <3>5 DEF JobInv, Pending
  <2>3. QED
    BY <2>1, <2>2
<1>12. QED
  BY <1>7, <1>8, <1>9, <1>10, <1>11 DEF HeapInv

-------------------------------------------------------------------------------
(* The other steps store to no entry of the list.                            *)
LEMMA AddHeap ==
  ASSUME TypeOK, ControlInv, NEW s, HeapInv(s), NEW t \in Writers, Add(t)
  PROVE  HeapInv(s)'
<1>1. PICK op \in {"addf", "adde"}, n \in Accepted, e \in Entries :
        /\ Active = {} /\ name[e] = Free
        /\ name' = [name EXCEPT ![e] = n]
        /\ nxt' = [nxt EXCEPT ![e] = e] /\ prv' = [prv EXCEPT ![e] = e]
        /\ task' = [task EXCEPT ![t] =
                      Job("add", "prepare", Free, e, Gap(op).prev, Gap(op).next)]
  BY Zenon DEF Add
<1>2. /\ Active' = {t} /\ task'[t].at = "prepare" /\ task'[t].cur = e
      /\ task'[t].prev = Gap(op).prev /\ task'[t].next = Gap(op).next
  <2> DEFINE p == Gap(op).prev  x == Gap(op).next
  <2>1. task' = [task EXCEPT ![t] = Job("add", "prepare", Free, e, p, x)] /\ t \in Tasks
    BY <1>1 DEF Tasks
  <2> HIDE DEF p, x
  <2>2. Active \subseteq {t} /\ "prepare" # "none"
    BY <1>1
  <2>3. /\ Active' = {t} /\ task'[t].at = "prepare" /\ task'[t].cur = e
        /\ task'[t].prev = p /\ task'[t].next = x
    BY <2>1, <2>2, Began
  <2>4. QED
    BY <2>3 DEF p, x
<1>3. RingOf(nxt, s) /\ BackOf(prv, s) /\ Distinct(s) /\ Len(s) \in Nat
  BY <1>1 DEF HeapInv, RingOf, Distinct
<1>4. e \notin ToSet(s) /\ ToSet(s) \subseteq Entries
  BY <1>1, <1>3 DEF HeapInv, ToSet, Distinct
<1>5. DOMAIN nxt = Cells /\ DOMAIN prv = Cells /\ DOMAIN name = Entries
  BY DEF TypeOK
<1>6. RingOf(nxt', s) /\ BackOf(prv', s)
  BY <1>1, <1>3, <1>4, <1>5, RingFrame, BackFrame
<1>7. \E i \in {0, Len(s)} : Gap(op).prev = Cell(s, i) /\ Gap(op).next = Cell(s, i + 1)
  <2>1. nxt[HEAD] = Cell(s, 1) /\ prv[HEAD] = Cell(s, Len(s)) /\ Cell(s, 0) = HEAD
        /\ Cell(s, Len(s) + 1) = HEAD
    BY <1>3 DEF RingOf, BackOf, Cell
  <2>2. CASE op = "addf"
    BY <2>1, <2>2 DEF Gap
  <2>3. CASE op = "adde"
    BY <2>1, <2>3 DEF Gap
  <2>4. QED
    BY <2>2, <2>3
<1>8. Linking(t, s)'
  BY <1>2, <1>7 DEF Linking
<1>9. name'[e] = n /\ n # Free /\ \A x \in Entries : x # e => name'[x] = name[x]
  BY <1>1, <1>5, AcceptedNames
<1>10. JobInv(t, s)'
  BY <1>2, <1>4, <1>8, <1>9 DEF JobInv, Pending
<1>11. name' \in [Entries -> Accepted \cup {Free}]
  BY <1>1, <1>5 DEF HeapInv
<1>12. \A x \in Entries : name'[x] # Free => x \in ToSet(s) \/ x = e
  BY <1>1, <1>9 DEF HeapInv
<1>13. \A x \in ToSet(s) : name'[x] # Free
  BY <1>4, <1>9 DEF HeapInv
<1>14. QED
  BY <1>2, <1>6, <1>10, <1>11, <1>12, <1>13 DEF HeapInv, Pending

(* A walk that begins, at the first entry.                                   *)
LEMMA WalkBegins ==
  ASSUME TypeOK, ControlInv, NEW s, HeapInv(s), NEW t \in Tasks, NEW op, NEW n,
         Active = {}, UNCHANGED heap,
         task' = [task EXCEPT ![t] = Walker(op, n, nxt[HEAD])]
  PROVE  HeapInv(s)'
<1>1. RingOf(nxt, s) /\ BackOf(prv, s) /\ Len(s) \in Nat
  BY DEF HeapInv, RingOf, Distinct
<1>2. nxt[HEAD] = Cell(s, 1)
  BY <1>1 DEF RingOf, Cell
<1>3. Active' = {t} /\ task'[t].at = "test" /\ task'[t].cur = Cell(s, 1)
  <2>1. Active \subseteq {t} /\ "test" # "none"
    OBVIOUS
  <2>2. Active' = {t} /\ task'[t].at = "test" /\ task'[t].cur = nxt[HEAD]
    BY <2>1, Began DEF Walker
  <2>3. QED
    BY <1>2, <2>2
<1>4. Visiting(t, s)'
  BY <1>1, <1>3 DEF Visiting, Passed
<1>5. JobInv(t, s)'
  BY <1>3, <1>4 DEF JobInv, Pending
<1>6. QED
  BY <1>1, <1>3, <1>5 DEF HeapInv, heap

LEMMA VisitHeap ==
  ASSUME TypeOK, ControlInv, NEW s, HeapInv(s), NEW t \in Tasks, Visit(t)
  PROVE  HeapInv(s)'
<1>1. Active = {t} /\ task[t].at = "test" /\ UNCHANGED heap
  BY Alone DEF Visit, At
<1>2. JobInv(t, s) /\ RingOf(nxt, s) /\ BackOf(prv, s) /\ Distinct(s) /\ Len(s) \in Nat
  BY <1>1 DEF HeapInv, RingOf, Distinct
<1>3. PICK j \in 1 .. Len(s) + 1 : task[t].cur = Cell(s, j) /\ Passed(t, s, j)
  BY <1>1, <1>2 DEF JobInv, Visiting
<1> DEFINE op == task[t].op  n == task[t].name  c == task[t].cur
<1>4. nxt' = nxt /\ prv' = prv /\ name' = name
  BY <1>1 DEF heap
<1>5. \A x \in Entries : name[x] # Free => x \in ToSet(s)
  BY <1>1 DEF HeapInv, Pending
<1>6. SUFFICES (\A u \in Active : JobInv(u, s) /\ task[u].at \notin {"publish", "forward"})'
  BY <1>2, <1>4, <1>5 DEF HeapInv
<1>7. CASE c = HEAD /\ Finish(t)
  <2>1. Active' = {}
    <3>1. Active \subseteq {t} /\ task' = [task EXCEPT ![t] = NoJob]
      BY <1>1, <1>7 DEF Finish
    <3>2. QED
      BY <3>1, Began DEF NoJob
  <2>2. QED
    BY <2>1
<1>8. CASE c # HEAD
  <2>1. j \in 1 .. Len(s) /\ c = s[j]
    BY <1>2, <1>3, <1>8 DEF Cell
  <2>2. nxt[c] = Cell(s, j + 1) /\ prv[c] = Cell(s, j - 1) /\ Cell(s, j) = c
    <3>1. nxt[Cell(s, j)] = Cell(s, j + 1) /\ Cell(s, j) = s[j]
      BY <1>2, <2>1 DEF RingOf, Cell
    <3>2. j - 1 \in 0 .. Len(s) /\ j - 1 + 1 = j
      BY <1>2, <2>1
    <3>3. prv[Cell(s, j - 1 + 1)] = Cell(s, j - 1)
      BY <1>2, <3>2 DEF BackOf
    <3>4. QED
      BY <2>1, <3>1, <3>2, <3>3
  <2>3. CASE ~Selects(t, c) /\ Advance(t, nxt[c])
    <3>1. task' = [task EXCEPT ![t] = Job(op, "test", n, Cell(s, j + 1), HEAD, HEAD)]
      BY <2>2, <2>3 DEF Advance, Walker
    <3> HIDE DEF op, n
    <3>2. /\ Active' = {t} /\ task'[t].at = "test" /\ task'[t].cur = Cell(s, j + 1)
          /\ task'[t].op = op /\ task'[t].name = n
      <4>1. Active \subseteq {t} /\ "test" # "none"
        BY <1>1
      <4> DEFINE x == Cell(s, j + 1)
      <4>2. task' = [task EXCEPT ![t] = Job(op, "test", n, x, HEAD, HEAD)]
        BY <3>1
      <4> HIDE DEF x
      <4>3. /\ Active' = {t} /\ task'[t].at = "test" /\ task'[t].cur = x
            /\ task'[t].op = op /\ task'[t].name = n
        BY <4>1, <4>2, Began
      <4>4. QED
        BY <4>3 DEF x
    <3>3. Passed(t, s, j + 1)
      BY <1>2, <1>3, <2>1, <2>3 DEF Passed
    <3>4. Passed(t, s, j + 1)'
      BY <1>4, <3>2, <3>3 DEF Passed, Selects, op, n
    <3>5. j + 1 \in 1 .. Len(s) + 1
      BY <1>2, <2>1
    <3>6. Visiting(t, s)'
      BY <3>2, <3>4, <3>5 DEF Visiting
    <3>7. QED
      BY <3>2, <3>6 DEF JobInv, Pending
  <2>4. CASE /\ Selects(t, c)
             /\ task' = [task EXCEPT ![t] = Job(op, "back", n, c, prv[c], nxt[c])]
    <3>1. task' = [task EXCEPT ![t] = Job(op, "back", n, c, Cell(s, j - 1), Cell(s, j + 1))]
      BY <2>2, <2>4
    <3> HIDE DEF op, n, c
    <3>2. /\ Active' = {t} /\ task'[t].at = "back" /\ task'[t].cur = c
          /\ task'[t].prev = Cell(s, j - 1) /\ task'[t].next = Cell(s, j + 1)
          /\ task'[t].op = op /\ task'[t].name = n
      <4>1. Active \subseteq {t} /\ "back" # "none"
        BY <1>1
      <4> DEFINE p == Cell(s, j - 1)  x == Cell(s, j + 1)
      <4>2. task' = [task EXCEPT ![t] = Job(op, "back", n, c, p, x)]
        BY <3>1
      <4> HIDE DEF p, x
      <4>3. /\ Active' = {t} /\ task'[t].at = "back" /\ task'[t].cur = c
            /\ task'[t].prev = p /\ task'[t].next = x
            /\ task'[t].op = op /\ task'[t].name = n
        BY <4>1, <4>2, Began
      <4>4. QED
        BY <4>3 DEF p, x
    <3>3. Passed(t, s, j)' /\ Selects(t, s[j])'
      BY <1>3, <1>4, <2>1, <2>4, <3>2 DEF Passed, Selects, op, n
    <3>4. Unlinking(t, s)'
      BY <2>1, <3>2, <3>3 DEF Unlinking
    <3>5. QED
      BY <3>2, <3>4 DEF JobInv, Pending
  <2>5. QED
    BY <1>8, <2>3, <2>4 DEF Visit
<1>9. QED
  BY <1>7, <1>8 DEF Visit

LEMMA RemovePreviewHeap ==
  ASSUME TypeOK, ControlInv, RemovePreview
  PROVE  HeapInv(<<>>)'
<1>1. Active = {} /\ task' = task
  BY DEF RemovePreview, ControlInv
<1>2. Active' = {}
  BY <1>1 DEF Active
<1>3. RingOf(nxt', <<>>) /\ BackOf(prv', <<>>)
  BY DEF RemovePreview, RingOf, BackOf, Distinct, Cell, Cells
<1>4. name' \in [Entries -> Accepted \cup {Free}] /\ \A e \in Entries : name'[e] = Free
  BY DEF RemovePreview
<1>5. ToSet(<<>>) = {}
  BY DEF ToSet
<1>6. QED
  BY <1>2, <1>3, <1>4, <1>5 DEF HeapInv

LEMMA HeapFrame ==
  ASSUME NEW s, HeapInv(s), UNCHANGED <<heap, task>>
  PROVE  HeapInv(s)'
<1>1. nxt' = nxt /\ prv' = prv /\ name' = name /\ task' = task
  BY DEF heap
<1>2. Active' = Active
  BY <1>1 DEF Active
<1>3. ASSUME NEW t \in Active PROVE JobInv(t, s)'
  <2>1. JobInv(t, s)
    BY DEF HeapInv
  <2>2. QED
    BY <1>1, <2>1
       DEF JobInv, Linking, Visiting, Unlinking, Leaving, Passed, Selects, Pending
<1>4. QED
  BY <1>1, <1>2, <1>3 DEF HeapInv, Pending

-------------------------------------------------------------------------------
(* Types: one case per group of actions that change the same variables.      *)
LEMMA EntryFacts ==
  ASSUME TypeOK, NEW c \in Usable
  PROVE  /\ c \in Cells /\ nxt[c] \in Links /\ prv[c] \in Links
         /\ c # HEAD => c \in Entries /\ name[c] \in Names
BY AcceptedNames, ProcListAssumption DEF TypeOK, Usable, Cells, Free, ProcListAssumption

LEMMA ListedType ==
  ASSUME TypeOK, HeapInv(Walk)
  PROVE  Listed \in Seq(Names) /\ Len(Listed) = Len(Walk)
<1>1. Walk \in Seq(Entries) /\ Len(Walk) \in Nat
  BY DEF HeapInv, RingOf, Distinct
<1>2. ASSUME NEW i \in 1 .. Len(Walk) PROVE name[Walk[i]] \in Names
  <2>1. Walk[i] \in Entries /\ Walk[i] \in ToSet(Walk)
    BY <1>1 DEF ToSet
  <2>2. name[Walk[i]] # Free
    BY <2>1 DEF HeapInv
  <2>3. QED
    BY <2>1, <2>2 DEF TypeOK
<1>3. QED
  BY <1>1, <1>2 DEF Listed

HeapType ==
  /\ nxt \in [Cells -> Links] /\ prv \in [Cells -> Links]
  /\ name \in [Entries -> Names \cup {Free}] /\ task \in [Tasks -> Jobs]
ReadType == reader \in [Readers -> Reads] /\ torn \subseteq Reading

LEMMA HeapTypeStep ==
  ASSUME TypeOK, Next
  PROVE  HeapType'
<1>1. HeapType /\ HEAD \in Cells /\ HEAD \in Links /\ POISON \in Links /\ Cells \subseteq Links
  BY DEF TypeOK, HeapType, Cells, Links
<1>2. nxt[HEAD] \in Links /\ prv[HEAD] \in Links
  BY <1>1 DEF TypeOK
<1>3. NoJob \in Jobs
  BY <1>1 DEF NoJob, Jobs, Job, Free
<1>4. ASSUME NEW op \in {"none", "add", "delf", "dela", "destroy"},
             NEW at \in {"prepare", "test", "back"}, NEW n \in Names \cup {Free},
             NEW c \in Links, NEW p \in Links, NEW x \in Links
      PROVE  Job(op, at, n, c, p, x) \in Jobs
  BY DEF Job, Jobs
<1>5. ASSUME NEW t \in Tasks, NEW at \in {"publish", "forward", "free"}, Goto(t, at)
      PROVE  task' \in [Tasks -> Jobs]
  BY <1>5 DEF TypeOK, Goto, Jobs
<1>6. ASSUME UNCHANGED <<heap, task>> PROVE HeapType'
  BY <1>1, <1>6 DEF HeapType, heap
<1>7. CASE CreatePreview \/ CreateManagement \/ BeginRemoval \/ RemoveManagement \/ Fault \/ Overlap
  BY <1>6, <1>7 DEF CreatePreview, CreateManagement, BeginRemoval, RemoveManagement, Fault, Overlap
<1>8. CASE \E r \in Readers : Open(r) \/ ShowName(r) \/ ShowNext(r) \/ ShowEnd(r)
  BY <1>6, <1>8 DEF Open, ShowName, ShowNext, ShowEnd
<1>9. CASE RemovePreview
  BY <1>1, <1>9 DEF RemovePreview, HeapType, Cells, Links
<1>10. CASE Exit
  <2>1. Walker("destroy", Free, nxt[HEAD]) \in Jobs
    BY <1>1, <1>2, <1>4 DEF Walker
  <2>2. QED
    BY <1>1, <1>10, <2>1 DEF Exit, HeapType, heap
<1>11. ASSUME NEW w \in Writers, Add(w) PROVE HeapType'
  <2>1. PICK op \in {"addf", "adde"}, n \in Accepted, e \in Entries :
          /\ name' = [name EXCEPT ![e] = n]
          /\ nxt' = [nxt EXCEPT ![e] = e] /\ prv' = [prv EXCEPT ![e] = e]
          /\ task' = [task EXCEPT ![w] =
                        Job("add", "prepare", Free, e, Gap(op).prev, Gap(op).next)]
    BY <1>11, Zenon DEF Add
  <2>2. e \in Cells /\ e \in Links /\ n \in Names /\ Gap(op).prev \in Links
        /\ Gap(op).next \in Links
    BY <1>1, <1>2, AcceptedNames DEF Cells, Gap
  <2>3. Job("add", "prepare", Free, e, Gap(op).prev, Gap(op).next) \in Jobs
    BY <1>4, <2>2
  <2>4. task' \in [Tasks -> Jobs]
    BY <1>1, <2>1, <2>3 DEF HeapType
  <2>5. QED
    BY <1>1, <2>1, <2>2, <2>4 DEF HeapType
<1>12. ASSUME NEW w \in Writers, Delete(w) PROVE HeapType'
  <2>1. PICK op \in {"delf", "dela"}, n \in Accepted :
          task' = [task EXCEPT ![w] = Walker(op, n, nxt[HEAD])] /\ UNCHANGED heap
    BY <1>12 DEF Delete
  <2>2. Walker(op, n, nxt[HEAD]) \in Jobs
    BY <1>1, <1>2, <1>4, AcceptedNames DEF Walker
  <2>3. QED
    BY <1>1, <2>1, <2>2 DEF HeapType, heap
<1>13. ASSUME NEW t \in Tasks, Prepare(t) \/ UnlinkBack(t) \/ UnlinkForward(t)
       PROVE  HeapType'
  <2>1. task[t].cur \in Links /\ task[t].prev \in Links /\ task[t].next \in Links
    BY TaskTypes
  <2>2. task' \in [Tasks -> Jobs]
    BY <1>5, <1>13 DEF Prepare, UnlinkBack, UnlinkForward
  <2>3. QED
    BY <1>1, <1>13, <2>1, <2>2 DEF Prepare, UnlinkBack, UnlinkForward, HeapType
<1>14. ASSUME NEW t \in Tasks, Publish(t) PROVE HeapType'
  BY <1>1, <1>3, <1>14, TaskTypes DEF Publish, HeapType
<1>15. ASSUME NEW t \in Tasks, Visit(t) PROVE HeapType'
  <2>1. UNCHANGED heap
    BY <1>15 DEF Visit
  <2>2. task' \in [Tasks -> Jobs]
    <3>1. CASE Finish(t)
      BY <1>1, <1>3, <3>1 DEF Finish, HeapType
    <3>2. ASSUME task[t].cur \in Usable \ {HEAD}, Advance(t, nxt[task[t].cur])
          PROVE  task' \in [Tasks -> Jobs]
      <4>1. Walker(task[t].op, task[t].name, nxt[task[t].cur]) \in Jobs
        BY <1>1, <1>4, <3>2, EntryFacts, TaskTypes DEF Walker
      <4>2. QED
        BY <1>1, <3>2, <4>1 DEF Advance, HeapType
    <3>3. ASSUME task[t].cur \in Usable \ {HEAD},
                 task' = [task EXCEPT ![t] =
                            Job(task[t].op, "back", task[t].name, task[t].cur,
                                prv[task[t].cur], nxt[task[t].cur])]
          PROVE  task' \in [Tasks -> Jobs]
      <4>1. Job(task[t].op, "back", task[t].name, task[t].cur,
                prv[task[t].cur], nxt[task[t].cur]) \in Jobs
        BY <1>4, <3>3, EntryFacts, TaskTypes
      <4>2. QED
        BY <1>1, <3>3, <4>1 DEF HeapType
    <3>4. QED
      BY <1>15, <3>1, <3>2, <3>3 DEF Visit
  <2>3. QED
    BY <1>1, <2>1, <2>2 DEF HeapType, heap
<1>16. ASSUME NEW t \in Tasks, Reclaim(t) PROVE HeapType'
  <2>1. task' \in [Tasks -> Jobs]
    <3>1. CASE Finish(t)
      BY <1>1, <1>3, <3>1 DEF Finish, HeapType
    <3>2. CASE Advance(t, Ahead(t))
      <4>1. Walker(task[t].op, task[t].name, Ahead(t)) \in Jobs
        BY <1>1, <1>4, TaskTypes DEF Walker, Ahead
      <4>2. QED
        BY <1>1, <3>2, <4>1 DEF Advance, HeapType
    <3>3. QED
      BY <1>16, <3>1, <3>2 DEF Reclaim
  <2>2. QED
    BY <1>1, <1>16, <2>1 DEF Reclaim, HeapType, Free
<1>17. QED
  BY <1>7, <1>8, <1>9, <1>10, <1>11, <1>12, <1>13, <1>14, <1>15, <1>16 DEF Next

LEMMA ReadTypeStep ==
  ASSUME TypeOK, HeapInv(Walk), Next
  PROVE  ReadType'
<1>1. ReadType /\ HEAD \in Links
  BY DEF TypeOK, ReadType, Cells, Links
<1>2. ASSUME NEW r \in Readers
      PROVE  /\ reader[r].cur \in Links
             /\ reader[r].shown \in Seq(Names) /\ reader[r].from \in Seq(Names)
  BY DEF TypeOK, Reads
<1>3. ASSUME NEW at \in {"none", "name", "next"}, NEW c \in Links,
             NEW q \in Seq(Names), NEW f \in Seq(Names)
      PROVE  Read(at, c, q, f) \in Reads
  BY DEF Read, Reads
<1>4. ASSUME NEW r \in Readers, NEW R \in Reads, reader' = [reader EXCEPT ![r] = R],
             \/ R.at # "none" /\ torn' = torn
             \/ R.at = "none" /\ torn' = torn \ {r}
      PROVE  ReadType'
  BY <1>1, <1>4 DEF ReadType, Reading, Reads
<1>5. ASSUME reader' = reader, torn' \in {torn, Reading} PROVE ReadType'
  BY <1>1, <1>5 DEF ReadType, Reading
<1>6. ASSUME NEW r \in Readers, Open(r) PROVE ReadType'
  <2>1. Read("name", nxt[HEAD], <<>>, Listed) \in Reads
    <3>1. nxt[HEAD] \in Links /\ Listed \in Seq(Names) /\ <<>> \in Seq(Names)
      BY ListedType DEF TypeOK, Cells
    <3>2. QED
      BY <1>3, <3>1
  <2>2. QED
    BY <1>4, <1>6, <2>1 DEF Open, Read
<1>7. ASSUME NEW r \in Readers, ShowName(r) PROVE ReadType'
  <2> DEFINE q == IF r \in torn THEN <<>> ELSE Append(reader[r].shown, name[reader[r].cur])
  <2>1. q \in Seq(Names)
    BY <1>2, <1>7, EntryFacts DEF ShowName
  <2>2. reader' = [reader EXCEPT ![r] = Read("next", reader[r].cur, q, reader[r].from)]
        /\ torn' = torn
    BY <1>7 DEF ShowName
  <2> HIDE DEF q
  <2>3. Read("next", reader[r].cur, q, reader[r].from) \in Reads
    BY <1>2, <1>3, <2>1
  <2>4. QED
    BY <1>4, <2>2, <2>3 DEF Read
<1>8. ASSUME NEW r \in Readers, ShowNext(r) PROVE ReadType'
  <2>1. Read("name", NextEntry(reader[r].cur), reader[r].shown, reader[r].from) \in Reads
    BY <1>2, <1>3, <1>8, EntryFacts DEF ShowNext, NextEntry
  <2>2. QED
    BY <1>4, <1>8, <2>1 DEF ShowNext, Read
<1>9. ASSUME NEW r \in Readers, ShowEnd(r) PROVE ReadType'
  <2>1. NoRead \in Reads /\ NoRead.at = "none"
    BY <1>1 DEF NoRead, Read, Reads
  <2>2. QED
    BY <1>4, <1>9, <2>1 DEF ShowEnd
<1>10. CASE \/ CreatePreview \/ CreateManagement \/ BeginRemoval \/ RemoveManagement
            \/ Fault \/ Overlap \/ RemovePreview \/ Exit
  BY <1>5, <1>10 DEF CreatePreview, CreateManagement, BeginRemoval, RemoveManagement, Fault,
                     Overlap, RemovePreview, Exit, readVars
<1>11. CASE \E w \in Writers : Add(w) \/ Delete(w)
  BY <1>5, <1>11 DEF Add, Delete, readVars
<1>12. CASE \E t \in Tasks : \/ Prepare(t) \/ Publish(t) \/ Visit(t) \/ Reclaim(t)
                             \/ UnlinkBack(t) \/ UnlinkForward(t)
  BY <1>5, <1>12 DEF Prepare, Publish, Visit, Reclaim, UnlinkBack, UnlinkForward, readVars
<1>13. QED
  BY <1>6, <1>7, <1>8, <1>9, <1>10, <1>11, <1>12 DEF Next

-------------------------------------------------------------------------------
(* Control: who may be where in each phase of the module.                    *)
Mods == {"unloaded", "preview", "live", "destroy", "destroyed", "write", "read", "overlap", "fault"}

(* The phases in which a change by t may be going on.                        *)
Phases(t) == IF t = Rmmod THEN {"destroy"} ELSE {"live", "destroyed", "write"}

LEMMA ControlStep ==
  ASSUME TypeOK, ControlInv, Next
  PROVE  mod' \in Mods /\ ControlInv'
<1>1. /\ mod \in Mods \ {"overlap", "fault"}
      /\ \A t, u \in Active : t = u
      /\ mod \in {"unloaded", "preview", "read"} => Active = {}
      /\ mod = "destroy" => Active = {Rmmod}
      /\ mod \in {"live", "destroyed", "write"} => Rmmod \notin Active
      /\ mod = "unloaded" => Reading = {}
      /\ \A t \in Active :
           /\ task[t].at \in {"prepare", "publish"} <=> task[t].op = "add"
           /\ task[t].op # "none" /\ (task[t].op = "destroy" <=> t = Rmmod)
  BY DEF TypeOK, ControlInv, Mods, Next
<1>2. task' = task => Active' = Active /\ \A t \in Active : task'[t] = task[t]
  BY DEF Active
<1>3. CASE CreatePreview \/ CreateManagement \/ BeginRemoval \/ RemoveManagement \/ Fault \/ Overlap
  <2>1. task' = task /\ Reading' = Reading
    BY <1>3 DEF CreatePreview, CreateManagement, BeginRemoval, RemoveManagement, Fault, Overlap,
                readVars, Reading
  <2>2. CASE RemoveManagement
    <3>1. Active \subseteq Writers \cup {Rmmod} /\ Writers \cap Active = {}
      BY <2>2 DEF RemoveManagement, NoCall, Active, Tasks
    <3>2. Active = {} /\ mod' = "read"
      BY <1>1, <2>2, <3>1 DEF RemoveManagement
    <3>3. QED
      BY <1>1, <1>2, <2>1, <3>2 DEF ControlInv, Mods
  <2>3. CASE ~RemoveManagement
    <3>1. /\ mod' \in Mods \ {"unloaded", "destroy"}
          /\ mod' \in {"preview", "read"} => Active = {}
          /\ mod' \in {"live", "destroyed", "write"} => Rmmod \notin Active
      BY <1>1, <1>3, <2>3 DEF CreatePreview, CreateManagement, BeginRemoval, Fault, Overlap, Mods
    <3>2. QED
      BY <1>1, <1>2, <2>1, <3>1 DEF ControlInv
  <2>4. QED
    BY <2>2, <2>3
<1>4. CASE RemovePreview
  <2>1. task' = task /\ Reading' = Reading /\ mod' = "unloaded" /\ Active = {}
    BY <1>1, <1>4 DEF RemovePreview, readVars, Reading
  <2>2. Reading = {}
    BY <1>4 DEF RemovePreview, NoCall, Reading
  <2>3. QED
    BY <1>2, <2>1, <2>2 DEF ControlInv, Mods
<1>5. CASE \E r \in Readers : Open(r) \/ ShowName(r) \/ ShowNext(r) \/ ShowEnd(r)
  <2>1. task' = task /\ mod' = mod
    BY <1>5 DEF Open, ShowName, ShowNext, ShowEnd
  <2>2. mod # "unloaded"
    BY <1>1, <1>5 DEF Open, ShowName, ShowNext, ShowEnd, CanRead, Reading
  <2>3. QED
    BY <1>1, <1>2, <2>1, <2>2 DEF ControlInv, Mods
<1>6. ASSUME NEW t \in Tasks, NEW op \in {"add", "delf", "dela", "destroy"},
             NEW at \in {"prepare", "test", "back"}, NEW n, NEW c, NEW p, NEW x,
             Active \subseteq {t}, task' = [task EXCEPT ![t] = Job(op, at, n, c, p, x)],
             at = "prepare" <=> op = "add", op = "destroy" <=> t = Rmmod,
             mod' \in Phases(t)
      PROVE  mod' \in Mods /\ ControlInv'
  <2>1. Active' = {t} /\ task'[t].at = at /\ task'[t].op = op
    <3>1. at # "none"
      OBVIOUS
    <3>2. QED
      BY <1>6, <3>1, Began
  <2>2. QED
    BY <1>6, <2>1 DEF ControlInv, Mods, Phases
<1>7. CASE Exit
  <2>1. Active = {} /\ Rmmod \in Tasks /\ mod' = "destroy"
    BY <1>7 DEF Exit, Tasks
  <2>2. task' = [task EXCEPT ![Rmmod] = Job("destroy", "test", Free, nxt[HEAD], HEAD, HEAD)]
    BY <1>7 DEF Exit, Walker
  <2>3. mod' \in Phases(Rmmod)
    BY <2>1 DEF Phases
  <2>4. QED
    BY <1>6, <2>1, <2>2, <2>3
<1>8. ASSUME NEW w \in Writers, Add(w) \/ Delete(w) PROVE mod' \in Mods /\ ControlInv'
  <2>1. mod' \in Phases(w) /\ Active = {} /\ w # Rmmod /\ w \in Tasks
    BY <1>1, <1>8, ProcListAssumption
       DEF Add, Delete, CanWrite, Tasks, ProcListAssumption, Phases
  <2>2. CASE Add(w)
    <3>1. PICK e \in Entries, p \in {Gap("addf").prev, Gap("adde").prev},
               x \in {Gap("addf").next, Gap("adde").next} :
             task' = [task EXCEPT ![w] = Job("add", "prepare", Free, e, p, x)]
      BY <2>2 DEF Add
    <3>2. QED
      BY <1>6, <2>1, <3>1
  <2>3. CASE Delete(w)
    <3>1. PICK op \in {"delf", "dela"}, n \in Accepted :
             task' = [task EXCEPT ![w] = Job(op, "test", n, nxt[HEAD], HEAD, HEAD)]
      BY <2>3 DEF Delete, Walker
    <3>2. QED
      BY <1>6, <2>1, <3>1
  <2>4. QED
    BY <1>8, <2>2, <2>3
<1>9. ASSUME NEW t \in Tasks, task[t].at # "none"
      PROVE  /\ Active = {t} /\ mod \in Phases(t)
             /\ task[t].at \in {"prepare", "publish"} <=> task[t].op = "add"
             /\ task[t].op # "none" /\ (task[t].op = "destroy" <=> t = Rmmod)
  BY <1>1, <1>9 DEF Active, Mods, Phases
<1>10. ASSUME NEW t \in Tasks, Prepare(t) \/ UnlinkBack(t) \/ UnlinkForward(t)
       PROVE  mod' \in Mods /\ ControlInv'
  <2>1. PICK at \in {"publish", "forward", "free"} :
          /\ Goto(t, at) /\ mod' = mod
          /\ task[t].at # "none"
          /\ at = "publish" <=> task[t].at \in {"prepare", "publish"}
    BY <1>10 DEF Prepare, UnlinkBack, UnlinkForward, At
  <2>2. Active' = {t} /\ task'[t].at = at /\ task'[t].op = task[t].op
    BY <2>1, Moved
  <2>3. QED
    BY <1>9, <2>1, <2>2 DEF ControlInv, Mods, Phases
<1>11. ASSUME NEW t \in Tasks, task[t].at # "none",
              task' = [task EXCEPT ![t] = NoJob],
              mod' = (IF t = Rmmod THEN "destroyed" ELSE mod)
       PROVE  mod' \in Mods /\ ControlInv'
  <2>1. Active = {t} /\ mod \in Phases(t)
    BY <1>9, <1>11
  <2>2. Active' = {}
    BY <1>11, <2>1, Began DEF NoJob
  <2>3. QED
    BY <1>11, <2>1, <2>2 DEF ControlInv, Mods, Phases
<1>12. ASSUME NEW t \in Tasks, Publish(t) PROVE mod' \in Mods /\ ControlInv'
  <2>1. task[t].at = "publish" /\ task' = [task EXCEPT ![t] = NoJob] /\ mod' = mod
    BY <1>12 DEF Publish, At
  <2>2. task[t].op = "add"
    BY <1>9, <2>1
  <2>3. t # Rmmod
    BY <1>9, <2>1, <2>2
  <2>4. QED
    BY <1>11, <2>1, <2>3
<1>13. ASSUME NEW t \in Tasks, NEW c, task[t].at \in {"test", "free"}, Advance(t, c)
       PROVE  mod' \in Mods /\ ControlInv'
  <2> DEFINE op == task[t].op  n == task[t].name
  <2>1. task' = [task EXCEPT ![t] = Job(op, "test", n, c, HEAD, HEAD)] /\ mod' = mod
    BY <1>13 DEF Advance, Walker
  <2>2. op \in {"add", "delf", "dela", "destroy"} /\ op # "add" /\ (op = "destroy" <=> t = Rmmod)
        /\ Active \subseteq {t} /\ mod \in Phases(t)
    <3>1. op # "none"
      BY <1>9, <1>13 DEF ControlInv
    <3>2. QED
      BY <1>9, <1>13, <3>1, TaskTypes
  <2> HIDE DEF op, n
  <2>3. QED
    BY <1>6, <2>1, <2>2
<1>14. ASSUME NEW t \in Tasks, Reclaim(t) PROVE mod' \in Mods /\ ControlInv'
  <2>1. task[t].at = "free" /\ (Finish(t) \/ Advance(t, Ahead(t)))
    BY <1>14 DEF Reclaim, At
  <2>2. QED
    BY <1>11, <1>13, <2>1 DEF Finish
<1>15. ASSUME NEW t \in Tasks, Visit(t) PROVE mod' \in Mods /\ ControlInv'
  <2>1. task[t].at = "test"
    BY <1>15 DEF Visit, At
  <2>2. CASE Finish(t)
    BY <1>11, <2>1, <2>2 DEF Finish
  <2>3. CASE Advance(t, nxt[task[t].cur])
    BY <1>13, <2>1, <2>3
  <2>4. ASSUME NEW op, NEW n, NEW c, NEW p, NEW x, op = task[t].op, mod' = mod,
               task' = [task EXCEPT ![t] = Job(op, "back", n, c, p, x)]
        PROVE  mod' \in Mods /\ ControlInv'
    <3>1. op \in {"add", "delf", "dela", "destroy"} /\ op # "add"
          /\ (op = "destroy" <=> t = Rmmod)
          /\ Active \subseteq {t} /\ mod \in Phases(t)
      <4>1. op # "none"
        BY <1>9, <2>1, <2>4 DEF ControlInv
      <4>2. QED
        BY <1>9, <2>1, <2>4, <4>1, TaskTypes
    <3>2. QED
      BY <1>6, <2>4, <3>1
  <2>5. QED
    BY <1>15, <2>2, <2>3, <2>4 DEF Visit
<1>16. QED
  BY <1>3, <1>4, <1>5, <1>7, <1>8, <1>10, <1>12, <1>14, <1>15 DEF Next

-------------------------------------------------------------------------------
(* A read that no deletion has torn keeps its place in the list.             *)
Kept(s) == \A k \in 1 .. Len(s) : name'[s[k]] = name[s[k]]

LEMMA AgreesFrame ==
  ASSUME NEW s, Distinct(s), NEW q \in Seq(Names), NEW a \in 0 .. Len(s),
         Agrees(q, s, a), Kept(s)
  PROVE  Agrees(q, s, a)'
<1>1. Len(s) \in Nat /\ Len(q) \in Nat /\ a + Len(q) <= Len(s)
  BY DEF Distinct, Agrees
<1>2. ASSUME NEW i \in 1 .. Len(q) PROVE q[i] = name'[s[a + i]]
  <2>1. a + i \in 1 .. Len(s)
    BY <1>1
  <2>2. QED
    BY <2>1 DEF Agrees, Kept
<1>3. QED
  BY <1>1, <1>2 DEF Agrees

LEMMA PlaceFrame ==
  ASSUME TypeOK, NEW s, Distinct(s), NEW r \in Readers, Follows(r, s), Kept(s),
         reader'[r] = reader[r]
  PROVE  Follows(r, s)'
<1>1. PICK a \in 0 .. Len(s) : Place(r, s, a)
  BY DEF Follows
<1>2. reader[r].from \in Seq(Names) /\ reader[r].shown \in Seq(Names)
  BY DEF TypeOK, Reads
<1>3. Agrees(reader[r].from, s, a) /\ Agrees(reader[r].shown, s, a)
  BY <1>1 DEF Place
<1>4. PICK f, q : f = reader[r].from /\ q = reader[r].shown
  OBVIOUS
<1>5. Agrees(f, s, a)' /\ Agrees(q, s, a)'
  BY <1>2, <1>3, <1>4, AgreesFrame
<1>6. Agrees(reader[r].from, s, a)' /\ Agrees(reader[r].shown, s, a)'
  BY <1>4, <1>5 DEF Agrees
<1>7. Place(r, s, a)'
  BY <1>1, <1>6 DEF Place
<1>8. QED
  BY <1>7 DEF Follows

(* An entry put in before all the others, or after them.                     *)
LEMMA PlaceInserted ==
  ASSUME TypeOK, NEW s, Distinct(s), NEW r \in Readers, Follows(r, s),
         name' = name, reader'[r] = reader[r],
         NEW e \in Entries \ ToSet(s), NEW i \in {0, Len(s)}
  PROVE  Follows(r, Inserted(s, i, e))'
<1> DEFINE u == Inserted(s, i, e)
           z == IF i = 0 THEN 1 ELSE 0
<1>1. PICK a \in 0 .. Len(s) : Place(r, s, a)
  BY DEF Follows
<1>2. reader[r].from \in Seq(Names) /\ reader[r].shown \in Seq(Names)
  BY DEF TypeOK, Reads
<1>3. Len(s) \in Nat /\ Len(u) = Len(s) + 1 /\ i \in 0 .. Len(s)
  BY InsertedDistinct DEF Distinct
<1>4. ASSUME NEW k \in 1 .. Len(s) PROVE u[z + k] = s[k]
  BY <1>3 DEF Inserted
<1>5. z \in {0, 1}
  OBVIOUS
<1> HIDE DEF u, z
<1>6. PICK f, q : f = reader[r].from /\ q = reader[r].shown
  OBVIOUS
<1>7. /\ a + Len(f) <= Len(s) /\ Len(f) \in Nat
      /\ a + Len(q) <= Len(s) /\ Len(q) \in Nat
  BY <1>1, <1>2, <1>6 DEF Place, Agrees
<1>8. ASSUME NEW k \in 1 .. Len(f) PROVE f[k] = name[u[(z + a) + k]]
  <2>1. a + k \in 1 .. Len(s) /\ z + (a + k) = (z + a) + k
    BY <1>5, <1>7
  <2>2. f[k] = name[s[a + k]]
    BY <1>1, <1>6 DEF Place, Agrees
  <2>3. QED
    BY <1>4, <2>1, <2>2
<1>9. ASSUME NEW k \in 1 .. Len(q) PROVE q[k] = name[u[(z + a) + k]]
  <2>1. a + k \in 1 .. Len(s) /\ z + (a + k) = (z + a) + k
    BY <1>5, <1>7
  <2>2. q[k] = name[s[a + k]]
    BY <1>1, <1>6 DEF Place, Agrees
  <2>3. QED
    BY <1>4, <2>1, <2>2
<1>10. z + a \in 0 .. Len(u) /\ z + a + Len(f) <= Len(u) /\ z + a + Len(q) <= Len(u)
  BY <1>3, <1>5, <1>7
<1>11. Agrees(reader[r].from, u, z + a)' /\ Agrees(reader[r].shown, u, z + a)'
  BY <1>6, <1>8, <1>9, <1>10 DEF Agrees
<1>12. ASSUME reader[r].at = "name"
       PROVE  \/ reader[r].cur = HEAD /\ Len(f) <= Len(q)
              \/ z + a + Len(q) < Len(u) /\ reader[r].cur = u[z + a + Len(q) + 1]
  <2>1. CASE reader[r].cur = HEAD /\ Len(f) <= Len(q)
    BY <2>1
  <2>2. CASE a + Len(q) < Len(s) /\ reader[r].cur = s[a + Len(q) + 1]
    <3>1. a + Len(q) + 1 \in 1 .. Len(s) /\ z + (a + Len(q) + 1) = z + a + Len(q) + 1
          /\ z + a + Len(q) < Len(u)
      BY <1>3, <1>5, <1>7, <2>2
    <3>2. QED
      BY <1>4, <2>2, <3>1
  <2>3. QED
    BY <1>1, <1>6, <1>12, <2>1, <2>2 DEF Place
<1>13. ASSUME reader[r].at = "next"
       PROVE  Len(q) >= 1 /\ reader[r].cur = u[z + a + Len(q)]
  <2>1. Len(q) >= 1 /\ reader[r].cur = s[a + Len(q)]
    BY <1>1, <1>6, <1>13 DEF Place
  <2>2. a + Len(q) \in 1 .. Len(s) /\ z + (a + Len(q)) = z + a + Len(q)
    BY <1>5, <1>7, <2>1
  <2>3. QED
    BY <1>4, <2>1, <2>2
<1>14. Place(r, u, z + a)'
  BY <1>6, <1>11, <1>12, <1>13 DEF Place
<1>15. QED
  BY <1>10, <1>14 DEF Follows, u

LEMMA HeapWalk ==
  ASSUME NEW s, HeapInv(s)
  PROVE  RingOf(nxt, s) /\ Distinct(s) /\ Len(s) \in Nat /\ Walk = s
<1>1. Ring(s)
  BY DEF HeapInv, Ring
<1>2. Walk = s
  BY <1>1, WalkIsRing
<1>3. QED
  BY <1>1, <1>2 DEF Ring, RingOf, Distinct

LEMMA OpenPlace ==
  ASSUME TypeOK, NEW s, HeapInv(s), NEW r \in Readers, Open(r)
  PROVE  Follows(r, s)'
<1>1. RingOf(nxt, s) /\ Distinct(s) /\ Len(s) \in Nat /\ Walk = s
  BY HeapWalk
<1>2. PICK f : f = Listed
  OBVIOUS
<1>3. f = [k \in 1 .. Len(s) |-> name[s[k]]] /\ Len(f) = Len(s)
  <2>1. f = [k \in 1 .. Len(s) |-> name[s[k]]]
    BY <1>1, <1>2 DEF Listed
  <2>2. QED
    BY <1>1, <2>1
<1>4. /\ reader'[r].at = "name" /\ reader'[r].cur = nxt[HEAD]
      /\ reader'[r].shown = <<>> /\ reader'[r].from = f
  <2>1. reader'[r] = Read("name", nxt[HEAD], <<>>, f)
    BY <1>2 DEF Open, TypeOK
  <2>2. QED
    BY <2>1 DEF Read
<1>5. name' = name
  BY DEF Open, heap
<1>6. Agrees(f, s, 0)' /\ Agrees(<<>>, s, 0)'
  BY <1>1, <1>3, <1>5 DEF Agrees
<1>7. \/ nxt[HEAD] = HEAD /\ Len(f) <= Len(<<>>)
      \/ 0 + Len(<<>>) < Len(s) /\ nxt[HEAD] = s[0 + Len(<<>>) + 1]
  <2>1. nxt[HEAD] = Cell(s, 1)
    BY <1>1 DEF RingOf, Cell
  <2>2. QED
    BY <1>1, <1>3, <2>1 DEF Cell
<1>8. Agrees(reader[r].from, s, 0)' /\ Agrees(reader[r].shown, s, 0)'
  BY <1>4, <1>6 DEF Agrees
<1>9. Place(r, s, 0)'
  BY <1>4, <1>7, <1>8 DEF Place
<1>10. QED
  BY <1>1, <1>9 DEF Follows

LEMMA ShowNamePlace ==
  ASSUME TypeOK, NEW s, HeapInv(s), NEW r \in Readers, r \notin torn, Follows(r, s), ShowName(r)
  PROVE  Follows(r, s)'
<1>1. Distinct(s) /\ Len(s) \in Nat /\ name' = name
  BY DEF HeapInv, RingOf, Distinct, ShowName, heap
<1>2. PICK a \in 0 .. Len(s) : Place(r, s, a)
  BY DEF Follows
<1>3. PICK f, q, c : f = reader[r].from /\ q = reader[r].shown /\ c = reader[r].cur
  OBVIOUS
<1>4. f \in Seq(Names) /\ q \in Seq(Names) /\ Len(f) \in Nat /\ Len(q) \in Nat
  BY <1>3 DEF TypeOK, Reads
<1>5. c \in Usable /\ c # HEAD /\ reader[r].at = "name"
  BY <1>3 DEF ShowName
<1>6. /\ Agrees(f, s, a) /\ Agrees(q, s, a)
      /\ a + Len(q) < Len(s) /\ c = s[a + Len(q) + 1]
  BY <1>2, <1>3, <1>5 DEF Place
<1>7. name[c] \in Names
  BY <1>5, EntryFacts
<1>8. PICK p : p = Append(q, name[c])
  OBVIOUS
<1>9. /\ p \in Seq(Names) /\ Len(p) = Len(q) + 1 /\ p[Len(q) + 1] = name[c]
      /\ \A k \in 1 .. Len(q) : p[k] = q[k]
  BY <1>4, <1>7, <1>8
<1>10. /\ reader'[r].at = "next" /\ reader'[r].cur = c
       /\ reader'[r].shown = p /\ reader'[r].from = f
  <2>1. reader'[r] = Read("next", c, p, f)
    BY <1>3, <1>8 DEF ShowName, TypeOK
  <2>2. QED
    BY <2>1 DEF Read
<1>11. Agrees(p, s, a)'
  <2>1. ASSUME NEW k \in 1 .. Len(p) PROVE p[k] = name[s[a + k]]
    <3>1. CASE k = Len(q) + 1
      <4>1. a + k = a + Len(q) + 1
        BY <1>4, <3>1
      <4>2. QED
        BY <1>6, <1>9, <3>1, <4>1
    <3>2. CASE k # Len(q) + 1
      <4>1. k \in 1 .. Len(q)
        BY <1>4, <1>9, <3>2
      <4>2. QED
        BY <1>6, <1>9, <4>1 DEF Agrees
    <3>3. QED
      BY <3>1, <3>2
  <2>2. a + Len(p) <= Len(s)
    BY <1>1, <1>4, <1>6, <1>9
  <2>3. QED
    BY <1>1, <2>1, <2>2 DEF Agrees
<1>12. Agrees(f, s, a)'
  BY <1>1, <1>6 DEF Agrees
<1>13. Agrees(reader[r].from, s, a)' /\ Agrees(reader[r].shown, s, a)'
  BY <1>10, <1>11, <1>12 DEF Agrees
<1>14. Len(p) >= 1 /\ c = s[a + Len(p)]
  <2>1. a + Len(p) = a + Len(q) + 1
    BY <1>4, <1>9
  <2>2. QED
    BY <1>4, <1>6, <1>9, <2>1
<1>15. Place(r, s, a)'
  BY <1>10, <1>13, <1>14 DEF Place
<1>16. QED
  BY <1>15 DEF Follows

LEMMA ShowNextPlace ==
  ASSUME TypeOK, NEW s, HeapInv(s), NEW r \in Readers, Follows(r, s), ShowNext(r)
  PROVE  Follows(r, s)'
<1>1. RingOf(nxt, s) /\ Distinct(s) /\ Len(s) \in Nat /\ name' = name
  BY DEF HeapInv, RingOf, Distinct, ShowNext, heap
<1>2. PICK a \in 0 .. Len(s) : Place(r, s, a)
  BY DEF Follows
<1>3. PICK f, q, c : f = reader[r].from /\ q = reader[r].shown /\ c = reader[r].cur
  OBVIOUS
<1>4. Len(f) \in Nat /\ Len(q) \in Nat
  BY <1>3 DEF TypeOK, Reads
<1>5. Agrees(f, s, a) /\ Agrees(q, s, a) /\ Len(q) >= 1 /\ c = s[a + Len(q)]
  BY <1>2, <1>3 DEF Place, ShowNext
<1>6. a + Len(q) <= Len(s) /\ a + Len(f) <= Len(s)
  BY <1>5 DEF Agrees
<1>7. /\ reader'[r].at = "name" /\ reader'[r].cur = nxt[c]
      /\ reader'[r].shown = q /\ reader'[r].from = f
  <2>1. reader'[r] = Read("name", nxt[c], q, f)
    BY <1>3 DEF ShowNext, NextEntry, TypeOK
  <2>2. QED
    BY <2>1 DEF Read
<1>8. nxt[c] = Cell(s, a + Len(q) + 1)
  <2>1. a + Len(q) \in 1 .. Len(s)
    BY <1>1, <1>4, <1>5, <1>6
  <2>2. Cell(s, a + Len(q)) = c
    BY <1>5, <2>1 DEF Cell
  <2>3. nxt[Cell(s, a + Len(q))] = Cell(s, a + Len(q) + 1)
    BY <1>1, <2>1 DEF RingOf
  <2>4. QED
    BY <2>2, <2>3
<1>9. \/ nxt[c] = HEAD /\ Len(f) <= Len(q)
      \/ a + Len(q) < Len(s) /\ nxt[c] = s[a + Len(q) + 1]
  BY <1>1, <1>4, <1>6, <1>8 DEF Cell
<1>10. Agrees(reader[r].from, s, a)' /\ Agrees(reader[r].shown, s, a)'
  BY <1>1, <1>5, <1>7 DEF Agrees
<1>11. Place(r, s, a)'
  BY <1>7, <1>9, <1>10 DEF Place
<1>12. QED
  BY <1>11 DEF Follows

(* The names in s are kept by whoever does not change the list.              *)
LEMMA ReadFrame ==
  ASSUME TypeOK, NEW s, Distinct(s), ReadInv(s), Kept(s), reader' = reader, torn' = torn
  PROVE  ReadInv(s)'
<1>1. Reading' = Reading
  BY DEF Reading
<1>2. ASSUME NEW r \in Reading \ torn PROVE Follows(r, s)'
  <2>1. r \in Readers /\ Follows(r, s)
    BY DEF ReadInv, Reading
  <2>2. QED
    BY <2>1, PlaceFrame
<1>3. QED
  BY <1>1, <1>2 DEF ReadInv

LEMMA ReadMoves ==
  ASSUME TypeOK, NEW s, HeapInv(s), ReadInv(s), NEW r \in Readers,
         Open(r) \/ ShowName(r) \/ ShowNext(r) \/ ShowEnd(r)
  PROVE  ReadInv(s)'
<1>1. Distinct(s) /\ Kept(s)
  BY DEF HeapInv, RingOf, Kept, heap, Open, ShowName, ShowNext, ShowEnd
<1>2. \A v \in Readers : v # r => reader'[v] = reader[v]
  BY DEF Open, ShowName, ShowNext, ShowEnd, TypeOK
<1>3. torn' = torn \ {r} \/ torn' = torn
  BY DEF Open, ShowName, ShowNext, ShowEnd
<1>4. ASSUME NEW v \in Reading' \ torn', v # r PROVE Follows(v, s)'
  <2>1. v \in Readers /\ v \in Reading \ torn
    BY <1>2, <1>3, <1>4 DEF Reading
  <2>2. Follows(v, s)
    BY <2>1 DEF ReadInv
  <2>3. QED
    BY <1>1, <1>2, <1>4, <2>1, <2>2, PlaceFrame
<1>5. ASSUME r \in Reading' \ torn' PROVE Follows(r, s)'
  <2>1. CASE Open(r)
    BY <2>1, OpenPlace
  <2>2. CASE ShowName(r) \/ ShowNext(r)
    <3>1. torn' = torn /\ r \in Reading
      BY <2>2 DEF ShowName, ShowNext, Reading
    <3>2. r \notin torn /\ Follows(r, s)
      BY <1>5, <3>1 DEF ReadInv
    <3>3. QED
      BY <2>2, <3>2, ShowNamePlace, ShowNextPlace
  <2>3. CASE ShowEnd(r)
    <3>1. reader'[r] = NoRead
      BY <2>3 DEF ShowEnd, TypeOK
    <3>2. r \notin Reading'
      BY <3>1 DEF Reading, NoRead, Read
    <3>3. QED
      BY <1>5, <3>2
  <2>4. QED
    BY <2>1, <2>2, <2>3
<1>6. QED
  BY <1>4, <1>5 DEF ReadInv

-------------------------------------------------------------------------------
(* One step of the list and of its reads.                                    *)
LEMMA ListStep ==
  ASSUME TypeOK, ControlInv, NEW s, HeapInv(s), ReadInv(s), Next
  PROVE  \/ HeapInv(s)' /\ ReadInv(s)' /\ Kept(s)
         \/ /\ RemovePreview \/ \E t \in Tasks : Publish(t) \/ UnlinkForward(t)
            /\ \E u : HeapInv(u)' /\ ReadInv(u)'
<1>1. RingOf(nxt, s) /\ Distinct(s) /\ Len(s) \in Nat /\ Walk = s
  BY HeapWalk
<1>2. ASSUME UNCHANGED <<heap, task>>, reader' = reader, torn' = torn
      PROVE  HeapInv(s)' /\ ReadInv(s)' /\ Kept(s)
  <2>1. Kept(s)
    BY <1>2 DEF heap, Kept
  <2>2. QED
    BY <1>1, <1>2, <2>1, HeapFrame, ReadFrame
<1>3. CASE CreatePreview \/ CreateManagement \/ BeginRemoval \/ RemoveManagement \/ Fault \/ Overlap
  BY <1>2, <1>3 DEF CreatePreview, CreateManagement, BeginRemoval, RemoveManagement,
                    Fault, Overlap, readVars
<1>4. CASE RemovePreview
  <2>1. HeapInv(<<>>)'
    BY <1>4, RemovePreviewHeap
  <2>2. Reading = {} /\ Reading' = Reading
    BY <1>4 DEF RemovePreview, NoCall, readVars, Reading
  <2>3. ReadInv(<<>>)'
    BY <2>2 DEF ReadInv
  <2>4. QED
    BY <1>4, <2>1, <2>3
<1>5. CASE Exit
  <2>1. HeapInv(s)'
    BY <1>5, WalkBegins DEF Exit, Tasks
  <2>2. Kept(s) /\ reader' = reader /\ torn' = torn
    BY <1>5 DEF Exit, Kept, heap, readVars
  <2>3. QED
    BY <1>1, <2>1, <2>2, ReadFrame
<1>6. ASSUME NEW w \in Writers, Add(w) PROVE HeapInv(s)' /\ ReadInv(s)' /\ Kept(s)
  <2>1. HeapInv(s)'
    BY <1>6, AddHeap
  <2>2. PICK e \in Entries, n \in Accepted : name[e] = Free /\ name' = [name EXCEPT ![e] = n]
    BY <1>6 DEF Add
  <2>3. \A k \in 1 .. Len(s) : s[k] \in Entries /\ name[s[k]] # Free
    BY <1>1 DEF Distinct, HeapInv, ToSet
  <2>4. Kept(s) /\ reader' = reader /\ torn' = torn
    BY <1>6, <2>2, <2>3 DEF Add, Kept, readVars, TypeOK
  <2>5. QED
    BY <1>1, <2>1, <2>4, ReadFrame
<1>7. ASSUME NEW w \in Writers, Delete(w) PROVE HeapInv(s)' /\ ReadInv(s)' /\ Kept(s)
  <2>1. HeapInv(s)'
    BY <1>7, WalkBegins DEF Delete, Tasks
  <2>2. Kept(s) /\ reader' = reader /\ torn' = torn
    BY <1>7 DEF Delete, Kept, heap, readVars
  <2>3. QED
    BY <1>1, <2>1, <2>2, ReadFrame
<1>8. ASSUME NEW t \in Tasks, Prepare(t) \/ Visit(t) \/ UnlinkBack(t)
      PROVE  HeapInv(s)' /\ ReadInv(s)' /\ Kept(s)
  <2>1. HeapInv(s)'
    BY <1>8, PrepareHeap, VisitHeap, UnlinkBackHeap
  <2>2. Kept(s) /\ reader' = reader /\ torn' = torn
    BY <1>8 DEF Prepare, Visit, UnlinkBack, Kept, heap, readVars
  <2>3. QED
    BY <1>1, <2>1, <2>2, ReadFrame
<1>9. ASSUME NEW t \in Tasks, Reclaim(t) PROVE HeapInv(s)' /\ ReadInv(s)' /\ Kept(s)
  <2>1. HeapInv(s)'
    BY <1>9, ReclaimHeap
  <2>2. task[t].cur \notin ToSet(s)
    BY <1>9, Alone DEF Reclaim, At, HeapInv, JobInv, Pending
  <2>3. \A k \in 1 .. Len(s) : s[k] \in Entries /\ s[k] # task[t].cur
    BY <1>1, <2>2 DEF Distinct, ToSet
  <2>4. Kept(s) /\ reader' = reader /\ torn' = torn
    BY <1>9, <2>3 DEF Reclaim, Kept, readVars, TypeOK
  <2>5. QED
    BY <1>1, <2>1, <2>4, ReadFrame
<1>10. ASSUME NEW t \in Tasks, Publish(t) PROVE \E u : HeapInv(u)' /\ ReadInv(u)'
  <2>1. PICK i \in {0, Len(s)}, e \in Entries \ ToSet(s) : HeapInv(Inserted(s, i, e))'
    BY <1>10, PublishHeap
  <2>2. reader' = reader /\ torn' = torn /\ name' = name /\ Reading' = Reading
    BY <1>10 DEF Publish, readVars, Reading
  <2>3. ReadInv(Inserted(s, i, e))'
    <3>1. ASSUME NEW r \in Reading \ torn PROVE Follows(r, Inserted(s, i, e))'
      <4>1. r \in Readers /\ Follows(r, s) /\ reader'[r] = reader[r]
        BY <2>2 DEF ReadInv, Reading
      <4>2. QED
        BY <1>1, <2>2, <4>1, PlaceInserted
    <3>2. QED
      BY <2>2, <3>1 DEF ReadInv
  <2>4. QED
    BY <2>1, <2>3
<1>11. ASSUME NEW t \in Tasks, UnlinkForward(t) PROVE \E u : HeapInv(u)' /\ ReadInv(u)'
  <2>1. PICK j \in 1 .. Len(s) : HeapInv(Removed(s, j))'
    BY <1>11, UnlinkForwardHeap
  <2>2. Reading' \ torn' = {}
    BY <1>11 DEF UnlinkForward, Reading
  <2>3. ReadInv(Removed(s, j))'
    BY <2>2 DEF ReadInv
  <2>4. QED
    BY <2>1, <2>3
<1>12. ASSUME NEW r \in Readers, Open(r) \/ ShowName(r) \/ ShowNext(r) \/ ShowEnd(r)
       PROVE  HeapInv(s)' /\ ReadInv(s)' /\ Kept(s)
  <2>1. UNCHANGED <<heap, task>> /\ Kept(s)
    BY <1>12 DEF Open, ShowName, ShowNext, ShowEnd, heap, Kept
  <2>2. QED
    BY <1>12, <2>1, HeapFrame, ReadMoves
<1>13. QED
  BY <1>3, <1>4, <1>5, <1>6, <1>7, <1>8, <1>9, <1>10, <1>11, <1>12 DEF Next

(* Whatever sequence the list is, it is the one that is walked.              *)
WalkIsTheList == \A s : HeapInv(s) /\ ReadInv(s) => HeapInv(Walk) /\ ReadInv(Walk)

LEMMA ListIsWalked == WalkIsTheList
<1> SUFFICES ASSUME NEW s, HeapInv(s), ReadInv(s) PROVE HeapInv(Walk) /\ ReadInv(Walk)
  BY DEF WalkIsTheList
<1>1. Walk = s
  BY HeapWalk
<1>2. QED
  BY <1>1

(* No change uses freed memory, nor does a read that is not torn.            *)
LEMMA OnlyTornFault ==
  ASSUME TypeOK, NEW s, HeapInv(s), ReadInv(s), Fault
  PROVE  torn # {}
<1>1. SUFFICES ASSUME torn = {}
               PROVE  {task[t].cur : t \in Active} \cup {reader[r].cur : r \in Reading} \subseteq Usable
  BY DEF Fault
<1>2. Distinct(s) /\ Len(s) \in Nat /\ ToSet(s) \subseteq Usable /\ HEAD \in Usable
  <2>1. Distinct(s) /\ Len(s) \in Nat
    BY HeapWalk
  <2>2. ToSet(s) \subseteq Entries
    BY <2>1 DEF Distinct, ToSet
  <2>3. QED
    BY <2>1, <2>2 DEF HeapInv, Usable
<1>3. \A k : Cell(s, k) \in Usable
  BY <1>2, CellsType
<1>4. ASSUME NEW t \in Active PROVE task[t].cur \in Usable
  <2>1. JobInv(t, s) /\ t \in Tasks /\ task[t].at # "none"
    BY DEF HeapInv, Active
  <2>2. CASE task[t].at = "test"
    BY <1>3, <2>1, <2>2 DEF JobInv, Visiting
  <2>3. CASE task[t].at \in {"back", "forward"}
    <3>1. PICK j \in 1 .. Len(s) : task[t].cur = s[j]
      BY <2>1, <2>3 DEF JobInv, Unlinking
    <3>2. QED
      BY <1>3, <3>1 DEF Cell
  <2>4. CASE Pending(t)
    BY <2>1, <2>4 DEF JobInv, Usable
  <2>5. QED
    BY <2>1, <2>2, <2>3, <2>4, TaskTypes DEF Pending
<1>5. ASSUME NEW r \in Reading PROVE reader[r].cur \in Usable
  <2>1. Follows(r, s) /\ r \in Readers /\ reader[r].at # "none"
    BY <1>1 DEF ReadInv, Reading
  <2>2. PICK a \in 0 .. Len(s) : Place(r, s, a)
    BY <2>1 DEF Follows
  <2>3. /\ Len(reader[r].shown) \in Nat /\ reader[r].at \in {"name", "next"}
        /\ a + Len(reader[r].shown) <= Len(s)
    BY <2>1, <2>2 DEF TypeOK, Reads, Place, Agrees
  <2>4. \A k \in 1 .. Len(s) : s[k] \in Usable
    BY <1>3 DEF Cell
  <2>5. QED
    BY <1>2, <2>2, <2>3, <2>4 DEF Place
<1>6. QED
  BY <1>4, <1>5

-------------------------------------------------------------------------------
LEMMA InitIInv == Init => IInv
<1> SUFFICES ASSUME Init PROVE IInv
  OBVIOUS
<1>1. Active = {} /\ Reading = {} /\ torn = {}
  BY DEF Init, Active, Reading, NoJob, NoRead, Job, Read
<1>2. TypeOK
  <2>1. HEAD \in Cells /\ HEAD \in Links
    BY DEF Cells, Links
  <2>2. NoJob \in Jobs /\ NoRead \in Reads
    BY <2>1 DEF NoJob, NoRead, Job, Read, Jobs, Reads, Free
  <2>3. QED
    BY <1>1, <2>1, <2>2 DEF Init, TypeOK, Free
<1>3. HeapInv(<<>>)
  <2>1. RingOf(nxt, <<>>) /\ BackOf(prv, <<>>)
    BY DEF Init, RingOf, BackOf, Distinct, Cell, Cells
  <2>2. name \in [Entries -> Accepted \cup {Free}] /\ \A e \in Entries : name[e] = Free
    BY DEF Init
  <2>3. ToSet(<<>>) = {}
    BY DEF ToSet
  <2>4. QED
    BY <1>1, <2>1, <2>2, <2>3 DEF HeapInv
<1>4. ReadInv(<<>>)
  BY <1>1 DEF ReadInv
<1>5. HeapInv(Walk) /\ ReadInv(Walk)
  BY <1>3, <1>4, ListIsWalked DEF WalkIsTheList
<1>6. ControlInv /\ FaultsNeedDeletion
  BY <1>1 DEF Init, ControlInv, FaultsNeedDeletion
<1>7. QED
  BY <1>2, <1>5, <1>6 DEF IInv

LEMMA StepIInv == IInv /\ [Next]_vars => IInv'
<1> SUFFICES ASSUME IInv, [Next]_vars PROVE IInv'
  OBVIOUS
<1>1. TypeOK /\ ControlInv /\ HeapInv(Walk) /\ ReadInv(Walk) /\ FaultsNeedDeletion
  BY DEF IInv
<1>2. CASE Next
  <2>1. TypeOK' /\ ControlInv'
    <3>1. HeapType' /\ ReadType' /\ mod' \in Mods /\ ControlInv'
      BY <1>1, <1>2, HeapTypeStep, ReadTypeStep, ControlStep
    <3>2. QED
      BY <3>1 DEF TypeOK, HeapType, ReadType, Mods
  <2>2. PICK u : HeapInv(u)' /\ ReadInv(u)'
    <3>1. PICK q : q = Walk
      OBVIOUS
    <3>2. HeapInv(q) /\ ReadInv(q)
      BY <1>1, <3>1
    <3>3. QED
      BY <1>1, <1>2, <3>2, ListStep
  <2>3. WalkIsTheList'
    BY ListIsWalked, PTL
  <2>4. HeapInv(Walk)' /\ ReadInv(Walk)'
    BY <2>2, <2>3 DEF WalkIsTheList
  <2>5. FaultsNeedDeletion'
    <3>1. CASE Fault
      BY <1>1, <3>1, OnlyTornFault DEF Fault, FaultsNeedDeletion, readVars
    <3>2. CASE ~Fault
      <4>1. mod # "fault" /\ mod' # "fault"
        BY <1>2, <3>2
           DEF Next, CreatePreview, CreateManagement, BeginRemoval, RemoveManagement,
               RemovePreview, Overlap, Exit, Add, Delete, Prepare, Publish, Visit, Reclaim, UnlinkBack,
               UnlinkForward, Open, ShowName, ShowNext, ShowEnd, Finish, Advance
      <4>2. QED
        BY <4>1 DEF FaultsNeedDeletion
    <3>3. QED
      BY <3>1, <3>2
  <2>6. QED
    BY <2>1, <2>4, <2>5 DEF IInv
<1>3. CASE UNCHANGED vars
  <2>1. UNCHANGED <<heap, task>> /\ mod' = mod /\ reader' = reader /\ torn' = torn
    BY <1>3 DEF vars, readVars
  <2>2. Kept(Walk) /\ Distinct(Walk)
    BY <1>1, <2>1, HeapWalk DEF heap, Kept
  <2>3. PICK u : u = Walk
    OBVIOUS
  <2>4. HeapInv(u)' /\ ReadInv(u)'
    BY <1>1, <2>1, <2>2, <2>3, HeapFrame, ReadFrame
  <2>5. WalkIsTheList'
    BY ListIsWalked, PTL
  <2>6. HeapInv(Walk)' /\ ReadInv(Walk)'
    BY <2>4, <2>5 DEF WalkIsTheList
  <2>7. Active' = Active /\ Reading' = Reading
    BY <2>1 DEF Active, Reading
  <2>8. TypeOK' /\ ControlInv' /\ FaultsNeedDeletion'
    BY <1>1, <2>1, <2>7 DEF TypeOK, ControlInv, FaultsNeedDeletion, heap
  <2>9. QED
    BY <2>6, <2>8 DEF IInv
<1>4. QED
  BY <1>2, <1>3

(* The ring, what each job has yet to do and what each read has shown hold   *)
(* at every store of list.h (list.c:35-109, :220-226).                       *)
THEOREM Inductive == Spec => []IInv
BY InitIInv, StepIInv, PTL DEF Spec

-------------------------------------------------------------------------------
(* Types (list.c:35-59: a name and its end fit in an entry).                 *)
THEOREM TypeCorrect == Spec => []TypeOK
<1>1. IInv => TypeOK
  BY DEF IInv
<1>2. QED
  BY Inductive, <1>1, PTL

(* Between two changes list_add and list_del have left one ring, the same in *)
(* both directions, with every allocated entry on it (list.c:35-97).         *)
THEOREM RingIsSound == Spec => []WellLinked
<1>1. ASSUME IInv, \A t \in Active : task[t].at = "test"
      PROVE  /\ \A c \in Usable : nxt[c] \in Usable /\ prv[nxt[c]] = c
             /\ ToSet(Walk) = Usable \ {HEAD}
  <2>1. PICK s : s = Walk
    OBVIOUS
  <2>2. HeapInv(s) /\ RingOf(nxt, s) /\ Distinct(s) /\ Len(s) \in Nat
    BY <1>1, <2>1, HeapWalk DEF IInv
  <2>3. BackOf(prv, s)
    BY <1>1, <2>2 DEF HeapInv
  <2>4. DOMAIN s = 1 .. Len(s) /\ \A k \in 1 .. Len(s) : s[k] \in Entries
    BY <2>2 DEF Distinct
  <2>5. ToSet(s) = Usable \ {HEAD}
    <3>1. ToSet(s) \subseteq Entries /\ HEAD \notin Entries
      BY <2>4, ProcListAssumption DEF ToSet, ProcListAssumption
    <3>2. \A e \in Entries : name[e] # Free <=> e \in ToSet(s)
      BY <1>1, <2>2 DEF HeapInv, Pending
    <3>3. QED
      BY <3>1, <3>2 DEF Usable
  <2>6. ASSUME NEW c \in Usable PROVE nxt[c] \in Usable /\ prv[nxt[c]] = c
    <3>1. PICK k \in 0 .. Len(s) : c = Cell(s, k)
      <4>1. CASE c = HEAD
        BY <2>2, <4>1 DEF Cell
      <4>2. CASE c # HEAD
        <5>1. PICK k \in 1 .. Len(s) : c = s[k]
          BY <2>4, <2>5, <4>2 DEF ToSet
        <5>2. QED
          BY <2>2, <5>1 DEF Cell
      <4>3. QED
        BY <4>1, <4>2
    <3>2. nxt[c] = Cell(s, k + 1) /\ prv[Cell(s, k + 1)] = c
      BY <2>2, <2>3, <3>1 DEF RingOf, BackOf
    <3>3. Cell(s, k + 1) \in Usable
      BY <2>2, <2>5, CellsType DEF Usable
    <3>4. QED
      BY <3>2, <3>3
  <2>7. QED
    BY <2>1, <2>5, <2>6
<1>2. IInv => WellLinked
  BY <1>1 DEF WellLinked
<1>3. QED
  BY Inductive, <1>2, PTL

(* The end of a walk has passed every entry that is still on the list, and   *)
(* none of them was selected (list.c:60-97).                                 *)
THEOREM WalksAreThorough == Spec => []Thorough
<1>1. ASSUME IInv, NEW t \in Active, task[t].at = "test", task[t].cur = HEAD
      PROVE  \A e \in ToSet(Walk) : ~Selects(t, e)
  <2>1. PICK s : s = Walk
    OBVIOUS
  <2>2. HeapInv(s) /\ Distinct(s) /\ Len(s) \in Nat
    BY <1>1, <2>1, HeapWalk DEF IInv
  <2>3. PICK j \in 1 .. Len(s) + 1 : Cell(s, j) = HEAD /\ Passed(t, s, j)
    BY <1>1, <2>2 DEF HeapInv, JobInv, Visiting
  <2>4. DOMAIN s = 1 .. Len(s) /\ \A k \in 1 .. Len(s) : s[k] \in Entries
    BY <2>2 DEF Distinct
  <2>5. j = Len(s) + 1
    BY <2>2, <2>3, <2>4, ProcListAssumption DEF Cell, ProcListAssumption
  <2>6. \A k \in 1 .. Len(s) : ~Selects(t, s[k])
    BY <2>2, <2>3, <2>5 DEF Passed
  <2>7. QED
    BY <2>1, <2>4, <2>6 DEF ToSet
<1>2. IInv => Thorough
  BY <1>1 DEF Thorough
<1>3. QED
  BY Inductive, <1>2, PTL

(* list_proc_show takes no lock and loses no name to an addition             *)
(* (list.c:101-109 against 35-59).                                           *)
THEOREM ReadsAreWhole == Spec => []ReadsWhole
<1>1. ASSUME IInv, NEW r \in Reading \ torn, reader[r].at = "name", reader[r].cur = HEAD
      PROVE  IsPrefix(reader[r].from, reader[r].shown)
  <2>1. PICK s : s = Walk
    OBVIOUS
  <2>2. HeapInv(s) /\ Distinct(s) /\ Len(s) \in Nat /\ Follows(r, s) /\ r \in Readers
    BY <1>1, <2>1, HeapWalk DEF IInv, ReadInv, Reading
  <2>3. PICK f, q : f = reader[r].from /\ q = reader[r].shown
    OBVIOUS
  <2>4. f \in Seq(Names) /\ q \in Seq(Names) /\ Len(f) \in Nat /\ Len(q) \in Nat
    BY <1>1, <2>2, <2>3 DEF IInv, TypeOK, Reads
  <2>5. PICK a \in 0 .. Len(s) :
          /\ Agrees(f, s, a) /\ Agrees(q, s, a)
          /\ \/ Len(f) <= Len(q)
             \/ a + Len(q) < Len(s) /\ HEAD = s[a + Len(q) + 1]
    BY <1>1, <2>2, <2>3 DEF Follows, Place
  <2>6. Len(f) <= Len(q)
    <3>1. \A k \in 1 .. Len(s) : s[k] \in Entries
      BY <2>2 DEF Distinct
    <3>2. HEAD \notin Entries
      BY ProcListAssumption DEF ProcListAssumption
    <3>3. a + Len(q) < Len(s) => a + Len(q) + 1 \in 1 .. Len(s)
      BY <2>2, <2>4
    <3>4. QED
      BY <2>5, <3>1, <3>2, <3>3
  <2>7. \A k \in 1 .. Len(f) : f[k] = q[k]
    BY <2>4, <2>5, <2>6 DEF Agrees
  <2>8. SubSeq(f, 1, Len(f)) = SubSeq(q, 1, Len(f))
    BY <2>4, <2>6, <2>7
  <2>9. QED
    BY <2>3, <2>6, <2>8 DEF IsPrefix
<1>2. IInv => ReadsWhole
  BY <1>1 DEF ReadsWhole
<1>3. QED
  BY Inductive, <1>2, PTL

(* Freed memory is used only by a read that an entry was deleted under: the  *)
(* walks of delf, dela and rmmod never use what they freed (list.c:60-109).  *)
THEOREM FaultsAreReads == Spec => []FaultsNeedDeletion
<1>1. IInv => FaultsNeedDeletion
  BY DEF IInv
<1>2. QED
  BY Inductive, <1>1, PTL

-------------------------------------------------------------------------------
(* The names on the list, for the abstract specification.                    *)
LEMMA NamesStep ==
  ASSUME NEW s, HeapInv(s), NEW u, HeapInv(u)'
  PROVE  /\ Listed = [k \in 1 .. Len(s) |-> name[s[k]]]
         /\ Listed' = [k \in 1 .. Len(u) |-> name'[u[k]]]
<1>1. Walk = s
  BY HeapWalk
<1>2. RingOf(nxt', u)
  BY DEF HeapInv
<1>3. Walk' = u
  BY <1>2, NewWalk
<1>4. QED
  BY <1>1, <1>3 DEF Listed

LEMMA RemovedNames ==
  ASSUME NEW q, NEW S, q \in Seq(S), NEW j \in 1 .. Len(q)
  PROVE  RemoveAt(q, j) = [k \in 1 .. Len(q) - 1 |-> IF k < j THEN q[k] ELSE q[k + 1]]
<1> DEFINE a == SubSeq(q, 1, j - 1)
           b == SubSeq(q, j + 1, Len(q))
<1>1. Len(q) \in Nat
  OBVIOUS
<1>2. a \in Seq(S) /\ Len(a) = j - 1 /\ \A k \in 1 .. j - 1 : a[k] = q[k]
  BY <1>1
<1>3. b \in Seq(S) /\ Len(b) = Len(q) - j /\ \A k \in 1 .. Len(q) - j : b[k] = q[j + k]
  BY <1>1
<1> HIDE DEF a, b
<1>4. a \o b = [k \in 1 .. Len(a) + Len(b) |-> IF k <= Len(a) THEN a[k] ELSE b[k - Len(a)]]
  <2>1. /\ a \o b \in Seq(S) /\ Len(a \o b) = Len(a) + Len(b)
        /\ \A k \in 1 .. Len(a) + Len(b) :
             (a \o b)[k] = IF k <= Len(a) THEN a[k] ELSE b[k - Len(a)]
    BY <1>2, <1>3, ConcatProperties
  <2>2. \A c \in Seq(S) : c = [k \in 1 .. Len(c) |-> c[k]]
    OBVIOUS
  <2>3. QED
    BY <2>1, <2>2
<1>5. Len(a) + Len(b) = Len(q) - 1
  BY <1>1, <1>2, <1>3
<1>6. ASSUME NEW k \in 1 .. Len(q) - 1
      PROVE  (IF k <= Len(a) THEN a[k] ELSE b[k - Len(a)]) =
             (IF k < j THEN q[k] ELSE q[k + 1])
  <2>1. CASE k < j
    BY <1>1, <1>2, <2>1
  <2>2. CASE k >= j
    <3>1. k - Len(a) \in 1 .. Len(q) - j /\ j + (k - Len(a)) = k + 1 /\ ~(k <= Len(a))
      BY <1>1, <1>2, <2>2
    <3>2. b[k - Len(a)] = q[j + (k - Len(a))]
      BY <1>3, <3>1
    <3>3. QED
      BY <2>2, <3>1, <3>2
  <2>3. QED
    BY <1>1, <2>1, <2>2
<1>7. QED
  BY <1>4, <1>5, <1>6 DEF RemoveAt, a, b

LEMMA PublishNames ==
  ASSUME TypeOK, ControlInv, NEW s, HeapInv(s), NEW t \in Tasks, Publish(t)
  PROVE  \E n \in Accepted : Listed' = <<n>> \o Listed \/ Listed' = Append(Listed, n)
<1>1. PICK i \in {0, Len(s)}, e \in Entries \ ToSet(s) :
        HeapInv(Inserted(s, i, e))' /\ name[e] # Free
  BY PublishHeap
<1>2. Distinct(s) /\ Len(s) \in Nat /\ name' = name
  BY HeapWalk DEF Publish
<1> DEFINE u == Inserted(s, i, e)
<1>3. Len(u) = Len(s) + 1
  BY <1>1, <1>2, InsertedDistinct
<1>4. /\ Listed = [k \in 1 .. Len(s) |-> name[s[k]]]
      /\ Listed' = [k \in 1 .. Len(s) + 1 |-> name[u[k]]]
  <2> HIDE DEF u
  <2>1. HeapInv(u)'
    BY <1>1 DEF u
  <2>2. QED
    BY <1>2, <1>3, <2>1, NamesStep
<1>5. \A k \in 1 .. Len(s) + 1 :
        u[k] = IF k <= i THEN s[k] ELSE IF k = i + 1 THEN e ELSE s[k - 1]
  BY DEF Inserted
<1>6. name[e] \in Accepted /\ \A k \in 1 .. Len(s) : name[s[k]] \in Accepted \cup {Free}
  BY <1>1, <1>2 DEF HeapInv, Distinct
<1> HIDE DEF u
<1>7. CASE i = 0
  <2>1. <<name[e]>> \o Listed =
          [k \in 1 .. 1 + Len(s) |-> IF k <= 1 THEN name[e] ELSE name[s[k - 1]]]
    BY <1>2, <1>4, <1>6
  <2>2. \A k \in 1 .. Len(s) + 1 : name[u[k]] = IF k <= 1 THEN name[e] ELSE name[s[k - 1]]
    BY <1>2, <1>5, <1>7
  <2>3. Listed' = <<name[e]>> \o Listed
    BY <1>2, <1>4, <2>1, <2>2
  <2>4. QED
    BY <1>6, <2>3
<1>8. CASE i = Len(s)
  <2>1. Append(Listed, name[e]) =
          [k \in 1 .. Len(s) + 1 |-> IF k = Len(s) + 1 THEN name[e] ELSE name[s[k]]]
    BY <1>2, <1>4, <1>6
  <2>2. \A k \in 1 .. Len(s) + 1 :
          name[u[k]] = IF k = Len(s) + 1 THEN name[e] ELSE name[s[k]]
    BY <1>2, <1>5, <1>8
  <2>3. Listed' = Append(Listed, name[e])
    BY <1>2, <1>4, <2>1, <2>2
  <2>4. QED
    BY <1>6, <2>3
<1>9. QED
  BY <1>1, <1>7, <1>8

LEMMA UnlinkNames ==
  ASSUME TypeOK, ControlInv, NEW s, HeapInv(s), NEW t \in Tasks, UnlinkForward(t)
  PROVE  \E n \in Accepted : \E j \in 1 .. Len(Listed) :
           /\ Listed[j] = n /\ \A k \in 1 .. j - 1 : Listed[k] # n
           /\ Listed' = RemoveAt(Listed, j)
<1>1. PICK j \in 1 .. Len(s) :
        Selects(t, s[j]) /\ Passed(t, s, j) /\ HeapInv(Removed(s, j))'
  BY UnlinkForwardHeap
<1>2. Distinct(s) /\ Len(s) \in Nat /\ name' = name
  BY HeapWalk DEF UnlinkForward
<1> DEFINE u == Removed(s, j)
<1>3. Len(u) = Len(s) - 1
  BY <1>2, RemovedDistinct
<1>4. /\ Listed = [k \in 1 .. Len(s) |-> name[s[k]]]
      /\ Listed' = [k \in 1 .. Len(s) - 1 |-> name[u[k]]]
  <2> HIDE DEF u
  <2>1. HeapInv(u)'
    BY <1>1 DEF u
  <2>2. QED
    BY <1>2, <1>3, <2>1, NamesStep
<1>5. \A k \in 1 .. Len(s) - 1 : u[k] = IF k < j THEN s[k] ELSE s[k + 1]
  BY DEF Removed
<1>6. \A k \in 1 .. Len(s) : name[s[k]] \in Accepted
  BY <1>2 DEF HeapInv, Distinct, ToSet
<1>7. Listed \in Seq(Accepted) /\ Len(Listed) = Len(s)
  BY <1>2, <1>4, <1>6
<1> HIDE DEF u
<1>8. Listed' = RemoveAt(Listed, j)
  <2>1. RemoveAt(Listed, j) =
          [k \in 1 .. Len(s) - 1 |-> IF k < j THEN Listed[k] ELSE Listed[k + 1]]
    BY <1>7, RemovedNames
  <2>2. ASSUME NEW k \in 1 .. Len(s) - 1
        PROVE  name[u[k]] = IF k < j THEN Listed[k] ELSE Listed[k + 1]
    BY <1>2, <1>4, <1>5
  <2>3. QED
    BY <1>4, <2>1, <2>2
<1>9. ASSUME NEW k \in 1 .. j - 1 PROVE Listed[k] # name[s[j]]
  <2>1. k \in 1 .. Len(s) /\ ~Selects(t, s[k])
    BY <1>1, <1>2 DEF Passed
  <2>2. name[s[k]] # name[s[j]]
    BY <1>1, <2>1 DEF Selects
  <2>3. QED
    BY <1>4, <2>1, <2>2
<1>10. Listed[j] = name[s[j]] /\ name[s[j]] \in Accepted
  BY <1>4, <1>6
<1>11. QED
  BY <1>7, <1>8, <1>9, <1>10

(* Only the creation and the removal of preview load and unload.             *)
LEMMA LoadedStep ==
  ASSUME ControlInv, Next, ~CreatePreview, ~RemovePreview
  PROVE  mod' = "unloaded" <=> mod = "unloaded"
<1>1. CASE Fault \/ Overlap
  <2>1. mod # "unloaded"
    BY <1>1 DEF Fault, Overlap, ControlInv, Usable
  <2>2. QED
    BY <1>1, <2>1 DEF Fault, Overlap
<1>2. CASE ~Fault /\ ~Overlap
  <2>1. \A t \in Tasks : Finish(t) => mod' \in {mod, "destroyed"}
    BY DEF Finish
  <2>2. \A t \in Tasks : Reclaim(t) \/ Visit(t) => task[t].at # "none"
    BY DEF Reclaim, Visit, At
  <2>3. \A t \in Tasks : Reclaim(t) \/ Visit(t) => mod # "unloaded" /\ mod' \in {mod, "destroyed"}
    BY <2>1, <2>2 DEF Reclaim, Visit, Advance, ControlInv, Active
  <2>4. QED
    BY <1>2, <2>3 DEF Next, CreateManagement, BeginRemoval, RemoveManagement, Exit, Add, Delete,
                      Prepare, Publish, UnlinkBack, UnlinkForward, Open, ShowName, ShowNext, ShowEnd
<1>3. QED
  BY <1>1, <1>2

LEMMA NamesInit == Init => Abstract!Init
<1> SUFFICES ASSUME Init PROVE Abstract!Init
  OBVIOUS
<1>1. RingOf(nxt, <<>>)
  BY DEF Init, RingOf, Distinct, Cell, Cells
<1>2. Walk = <<>>
  BY <1>1, WalkIsRing DEF Ring
<1>3. QED
  BY <1>2 DEF Abstract!Init, Init, Listed

LEMMA NamesNext == IInv /\ [Next]_vars => [Abstract!Next]_Abstract!listVars
<1> SUFFICES ASSUME IInv, [Next]_vars PROVE [Abstract!Next]_Abstract!listVars
  OBVIOUS
<1>1. PICK s : HeapInv(s) /\ ReadInv(s)
  BY DEF IInv
<1>2. TypeOK /\ ControlInv
  BY DEF IInv
<1>3. CASE UNCHANGED vars
  <2>1. HeapInv(s)' /\ name' = name /\ mod' = mod
    BY <1>1, <1>3, HeapFrame DEF vars, heap
  <2>2. Listed' = Listed
    BY <1>1, <2>1, NamesStep
  <2>3. QED
    BY <2>1, <2>2 DEF Abstract!listVars
<1>4. CASE Next
  <2>1. ASSUME HeapInv(s)', Kept(s) PROVE Listed' = Listed
    BY <1>1, <2>1, NamesStep DEF Kept
  <2>2. CASE RemovePreview
    <3>1. HeapInv(<<>>)'
      BY <1>2, <2>2, RemovePreviewHeap
    <3>2. Listed' = <<>>
      BY <1>1, <3>1, NamesStep
    <3>3. Abstract!Unload
      BY <2>2, <3>2 DEF Abstract!Unload, RemovePreview
    <3>4. QED
      BY <3>3 DEF Abstract!Next
  <2>3. ASSUME NEW t \in Tasks, Publish(t) PROVE Abstract!Next
    <3>1. PICK n \in Accepted : Listed' = <<n>> \o Listed \/ Listed' = Append(Listed, n)
      BY <1>1, <1>2, <2>3, PublishNames
    <3>2. mod # "unloaded" /\ mod' = mod
      BY <1>2, <2>3 DEF Publish, At, ControlInv, Active
    <3>3. Abstract!AddFront(n) \/ Abstract!AddEnd(n)
      BY <3>1, <3>2 DEF Abstract!AddFront, Abstract!AddEnd
    <3>4. QED
      BY <3>3 DEF Abstract!Next
  <2>4. ASSUME NEW t \in Tasks, UnlinkForward(t) PROVE Abstract!Next
    <3>1. PICK n \in Accepted : \E j \in 1 .. Len(Listed) :
            /\ Listed[j] = n /\ \A k \in 1 .. j - 1 : Listed[k] # n
            /\ Listed' = RemoveAt(Listed, j)
      BY <1>1, <1>2, <2>4, UnlinkNames
    <3>2. mod # "unloaded" /\ mod' = mod
      BY <1>2, <2>4 DEF UnlinkForward, At, ControlInv, Active
    <3>3. Abstract!DeleteFirst(n)
      <4>1. PICK j \in 1 .. Len(Listed) :
              /\ Listed[j] = n /\ \A k \in 1 .. j - 1 : Listed[k] # n
              /\ Listed' = RemoveAt(Listed, j)
        BY <3>1
      <4>2. (mod # "unloaded")' = (mod # "unloaded")
        BY <3>2
      <4>3. QED
        BY <4>1, <4>2 DEF Abstract!DeleteFirst, Abstract!RemoveAt, RemoveAt
    <3>4. QED
      BY <3>3 DEF Abstract!Next
  <2>5. CASE HeapInv(s)' /\ Kept(s)
    <3>1. Listed' = Listed
      BY <2>1, <2>5
    <3>2. CASE CreatePreview
      BY <3>1, <3>2 DEF CreatePreview, Abstract!Next, Abstract!Insmod
    <3>3. CASE ~CreatePreview /\ ~RemovePreview
      BY <1>2, <1>4, <3>1, <3>3, LoadedStep DEF Abstract!listVars
    <3>4. QED
      BY <2>2, <3>2, <3>3
  <2>6. QED
    BY <1>1, <1>2, <1>4, <2>2, <2>3, <2>4, <2>5, ListStep
<1>5. QED
  BY <1>3, <1>4

(* At every single store of a change the list a reader would walk is the     *)
(* list of names before or after a whole step (list.c:35-97).                *)
THEOREM ImplementsNameList == Spec => NameListSpec
<1>1. Spec => Abstract!Spec
  BY Inductive, NamesInit, NamesNext, PTL DEF Spec, Abstract!Spec
<1>2. QED
  BY <1>1 DEF NameListSpec

-------------------------------------------------------------------------------
LEMMA TextNext == IInv /\ [Next]_vars => [Text!Next]_Text!textVars
<1> SUFFICES ASSUME IInv, [Next]_vars PROVE [Text!Next]_Text!textVars
  OBVIOUS
<1>1. TypeOK /\ ControlInv
  BY DEF IInv
<1> DEFINE H == Active \cup Reading
<1>2. CASE UNCHANGED vars
  BY <1>2 DEF vars, readVars, Active, Reading, Text!textVars
<1>3. CASE CreatePreview
  BY <1>3 DEF CreatePreview, readVars, Active, Reading, Text!Next, Text!Insmod
<1>4. CASE RemovePreview
  <2>1. Active = {} /\ Reading = {} /\ Active' = Active /\ Reading' = Reading
    BY <1>1, <1>4 DEF RemovePreview, NoCall, ControlInv, readVars, Active, Reading
  <2>2. QED
    BY <1>4, <2>1 DEF RemovePreview, Text!Next, Text!Unload
<1>5. ASSUME Next, mod # "unloaded", mod' # "unloaded", NEW h \in Tasks \cup Readers,
             H' \in {H, H \cup {h}, H \ {h}}
      PROVE  [Text!Next]_Text!textVars
  <2>1. CASE H' = H
    BY <1>5, <2>1 DEF Text!textVars
  <2>2. CASE H' = H \cup {h}
    BY <1>5, <2>2 DEF Text!Next, Text!Acquire
  <2>3. CASE H' = H \ {h}
    BY <1>5, <2>3 DEF Text!Next, Text!Release
  <2>4. QED
    BY <1>5, <2>1, <2>2, <2>3
<1>6. CASE Next /\ ~CreatePreview /\ ~RemovePreview
  <2>1. mod' = "unloaded" <=> mod = "unloaded"
    BY <1>1, <1>6, LoadedStep
  <2>2. mod # "unloaded" \/ UNCHANGED <<task, reader>>
    BY <1>1, <1>6
       DEF ControlInv, Next, CreateManagement, BeginRemoval, RemoveManagement, Fault, Overlap, Exit,
           Add, Delete, CanWrite, Prepare, Publish, Visit, Reclaim, UnlinkBack,
           UnlinkForward, At, Open, CanRead, ShowName, ShowNext, ShowEnd, Active, Reading
  <2>3. \/ UNCHANGED <<task, reader>>
        \/ \E t \in Tasks : reader' = reader /\ \E j : task' = [task EXCEPT ![t] = j]
        \/ \E r \in Readers : task' = task /\ \E j : reader' = [reader EXCEPT ![r] = j]
    BY <1>6, Zenon
       DEF Next, CreateManagement, BeginRemoval, RemoveManagement, Fault, Overlap, Exit,
           Add, Delete, Prepare, Publish, Visit, Reclaim, UnlinkBack, Finish, Advance, Goto,
           UnlinkForward, Open, ShowName, ShowNext, ShowEnd, readVars, Tasks
  <2>4. CASE UNCHANGED <<task, reader>>
    BY <2>1, <2>4 DEF Text!textVars, Active, Reading
  <2>5. ASSUME mod # "unloaded", NEW t \in Tasks, NEW j, reader' = reader,
               task' = [task EXCEPT ![t] = j]
        PROVE  [Text!Next]_Text!textVars
    <3>1. Reading' = Reading /\ t \notin Reading
      BY <2>5, ProcListAssumption DEF Reading, Tasks, ProcListAssumption
    <3>2. Active' \in {Active, Active \cup {t}, Active \ {t}}
      BY <1>1, <2>5 DEF Active, TypeOK
    <3>3. H' \in {H, H \cup {t}, H \ {t}}
      BY <3>1, <3>2
    <3>4. QED
      BY <1>5, <1>6, <2>1, <2>5, <3>3
  <2>6. ASSUME mod # "unloaded", NEW r \in Readers, NEW j, task' = task,
               reader' = [reader EXCEPT ![r] = j]
        PROVE  [Text!Next]_Text!textVars
    <3>1. Active' = Active /\ r \notin Active
      BY <2>6, ProcListAssumption DEF Active, Tasks, ProcListAssumption
    <3>2. Reading' \in {Reading, Reading \cup {r}, Reading \ {r}}
      BY <1>1, <2>6 DEF Reading, TypeOK
    <3>3. H' \in {H, H \cup {r}, H \ {r}}
      BY <3>1, <3>2
    <3>4. QED
      BY <1>5, <1>6, <2>1, <2>6, <3>3
  <2>7. QED
    BY <2>2, <2>3, <2>4, <2>5, <2>6
<1>7. QED
  BY <1>2, <1>3, <1>4, <1>6

(* list.c is never entered after rmmod: proc_remove has waited for every     *)
(* call (list.c:220-226).                                                    *)
THEOREM ImplementsModuleText == Spec => TextSpec
<1>1. Init => Text!Init
  BY DEF Init, Text!Init, Active, Reading, NoJob, NoRead, Job, Read
<1>2. Spec => Text!Spec
  BY Inductive, TextNext, <1>1, PTL DEF Spec, Text!Spec
<1>3. QED
  BY <1>2 DEF TextSpec

===============================================================================
