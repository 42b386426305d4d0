------------------------------ MODULE PrimeProofs ------------------------------
(* Proofs about Prime, for an int of any width and any sizes: trial division *)
(* up to the nearest root is right, and does not overflow in the module.     *)
EXTENDS Prime, TLAPS

(* Facts about squares and divisors. *)
LEMMA Square == \A k \in Nat : k <= k * k
  <1> SUFFICES ASSUME NEW k \in Nat PROVE k <= k * k
    OBVIOUS
  <1>1. CASE k = 0
    BY <1>1
  <1>2. CASE k >= 1
    BY <1>2, SMT
  <1>3. QED
    BY <1>1, <1>2

LEMMA Monotone ==
  \A a, b, c, d \in Nat : a <= c /\ b <= d => a * b <= c * d
  BY SMT

(* Divisibility is kept apart from %, and expanded only where it is needed. *)
Divides(d, k) == k % d = 0

LEMMA PrimeByDivisors ==
  \A k \in Nat : IsPrime(k) <=> k > 1 /\ \A d \in 2 .. k - 1 : ~Divides(d, k)
  BY Zenon DEF IsPrime, Divides

(* A divisor comes with its cofactor, which is a divisor too. *)
LEMMA Cofactor ==
  \A k, d \in Nat : d > 0 /\ k > 0 /\ Divides(d, k) =>
     \E e \in Nat : k = d * e /\ e > 0
  BY SMTT(30) DEF Divides

LEMMA CofactorDivides ==
  \A d, e \in Nat : d > 0 /\ e > 0 => Divides(e, d * e)
  BY SMTT(30) DEF Divides

(* No divisor up to a root that is rounded up: prime.  Of two divisors      *)
(* beyond the root the product would be too large.                          *)
LEMMA RootSuffices ==
  ASSUME NEW k \in Nat, NEW r \in Nat, k >= 2, k <= r * r,
         \A d \in 2 .. r : ~Divides(d, k)
  PROVE  IsPrime(k)
<1>1. SUFFICES ASSUME NEW d \in 2 .. k - 1, Divides(d, k) PROVE r * r < k
  <2>1. r * r \in Nat
    OBVIOUS
  <2>2. QED
    BY <2>1, PrimeByDivisors
<1>2. PICK e \in Nat : k = d * e /\ e > 0
  BY <1>1, Cofactor
<1>3. e # 1
  BY <1>2
<1>4. Divides(e, k)
  BY <1>2, CofactorDivides
<1>5. d >= r + 1 /\ e >= r + 1
  BY <1>1, <1>2, <1>3, <1>4
<1>6. (r + 1) * (r + 1) <= d * e
  BY <1>5, Monotone
<1>7. (r + 1) * (r + 1) = r * r + 2 * r + 1
  OBVIOUS
<1>8. QED
  BY <1>2, <1>6, <1>7

(* From 3 on the root is less than the number, so that a divisor up to the  *)
(* root is a proper one.                                                    *)
LEMMA RootIsProper ==
  ASSUME NEW k \in Nat, NEW r \in Nat, k >= 3, r >= 1, (r - 1) * (r - 1) < k
  PROVE  r < k
<1>1. SUFFICES ASSUME r >= k PROVE FALSE
  OBVIOUS
<1>2. 2 * (k - 1) <= (r - 1) * (r - 1)
  BY <1>1, Monotone
<1>3. QED
  BY <1>2

-------------------------------------------------------------------------------
(* The loops: where the search for the root and the divisions have got to.  *)
RootInv ==
  pc = "root" => iter >= 1 /\ (iter - 1) * (iter - 1) < num

DivideInv ==
  pc = "divide" =>
    /\ root >= 1 /\ num <= root * root /\ (root - 1) * (root - 1) < num
    /\ iter >= 2 /\ \A d \in 2 .. iter - 1 : ~Divides(d, num)

(* A number that is being tested is one of those asked for; the module has  *)
(* no more of them than kmalloc gives.                                      *)
NumberInv == pc \in {"root", "divide"} => num >= 2 /\ num <= Bound

SizeInv == prog = "module" /\ pc \notin {"start", "failed"} => size <= KMALLOC_MAX

CountInv == pc # "next" => res <= i

IInv ==
  TypeOK /\ RootInv /\ DivideInv /\ NumberInv /\ SizeInv /\ CountInv /\ NoOverflow

LEMMA SizesAreInts == Sizes \subseteq Int
  BY PrimeAssumption DEF PrimeAssumption

LEMMA InitInv == Init => IInv
  BY PrimeAssumption DEF PrimeAssumption, Init, IInv, TypeOK, RootInv, DivideInv,
     NumberInv, SizeInv, CountInv, NoOverflow

(* The square that Root computes in the module is an int. *)
LEMMA ModuleSquares ==
  ASSUME IInv, pc = "root", prog = "module"
  PROVE  iter * iter <= INT_MAX
<1>1. iter - 1 \in Nat /\ (iter - 1) * (iter - 1) < num /\ num <= KMALLOC_MAX
  BY PrimeAssumption DEF PrimeAssumption, IInv, TypeOK, RootInv, NumberInv, SizeInv, Bound
<1>2. num \in Nat /\ KMALLOC_MAX \in Nat /\ INT_MAX \in Nat
  BY PrimeAssumption DEF PrimeAssumption, IInv, TypeOK
<1>3. iter - 1 \in 0 .. KMALLOC_MAX
  BY <1>1, <1>2, Square
<1>4. (iter - 1) * (iter - 1) < KMALLOC_MAX
  BY <1>1, <1>2
<1>5. ((iter - 1) + 1) * ((iter - 1) + 1) <= INT_MAX
  BY <1>3, <1>4, PrimeAssumption DEF PrimeAssumption
<1>6. (iter - 1) + 1 = iter
  BY DEF IInv, TypeOK
<1>7. QED
  BY <1>5, <1>6

LEMMA StepInv == IInv /\ [Next]_vars => IInv'
<1> SUFFICES ASSUME IInv, [Next]_vars PROVE IInv'
  OBVIOUS
<1> USE DEF IInv, TypeOK, RootInv, DivideInv, NumberInv, SizeInv, CountInv,
            NoOverflow, Bound
<1>0. /\ INT_MAX \in Nat /\ KMALLOC_MAX \in 0 .. INT_MAX
      /\ size \in -INT_MAX .. INT_MAX /\ iter \in Nat /\ root \in Nat /\ num \in Nat
      /\ res \in Nat /\ i \in Nat
  BY PrimeAssumption DEF PrimeAssumption
<1>1. CASE Start
  BY <1>0, <1>1 DEF Start, Allocates
<1>2. CASE Pick
  BY <1>0, <1>2 DEF Pick
<1>3. CASE Root
  <2>1. CASE iter * iter > INT_MAX /\ pc' = "overflow" /\ UNCHANGED <<iter, root>>
    BY <1>0, <1>3, <2>1, ModuleSquares DEF Root
  <2>2. CASE iter * iter < num /\ iter' = iter + 1 /\ UNCHANGED <<pc, root>>
    <3>1. iter <= iter * iter
      BY <1>0, Square
    <3>2. QED
      BY <1>0, <1>3, <2>2, <3>1 DEF Root
  <2>3. CASE /\ iter * iter \in num .. INT_MAX
             /\ root' = RootIs(iter) /\ iter' = 2 /\ pc' = "divide"
    <3>1. iter <= iter * iter
      BY <1>0, Square
    <3>2. QED
      BY <1>0, <1>3, <2>3, <3>1 DEF Root, RootIs
  <2>4. QED
    BY <1>3, <2>1, <2>2, <2>3 DEF Root
<1>4. CASE Divide
  <2>1. DivideInv'
    <3>1. CASE pc' # "divide"
      BY <3>1
    <3>2. CASE pc' = "divide"
      <4>1. iter' = iter + 1 /\ num' = num /\ root' = root /\ ~Divides(iter, num)
        BY <1>4, <3>2 DEF Divide, Divides
      <4>2. \A d \in 2 .. iter' - 1 : ~Divides(d, num)
        BY <1>0, <1>4, <4>1 DEF Divide
      <4>3. QED
        BY <1>0, <1>4, <4>1, <4>2 DEF Divide
    <3>3. QED
      BY <3>1, <3>2
  <2>2. QED
    <3> HIDE DEF DivideInv
    <3>1. QED
      BY <1>0, <1>4, <2>1 DEF Divide
<1>5. CASE NextNumber
  BY <1>0, <1>5 DEF NextNumber
<1>6. CASE End
  BY <1>0, <1>6 DEF End
<1>7. CASE UNCHANGED vars
  BY <1>7 DEF vars
<1>8. QED
  BY <1>1, <1>2, <1>3, <1>4, <1>5, <1>6, <1>7 DEF Next

LEMMA Invariance == Spec => []IInv
  BY InitInv, StepInv, PTL DEF Spec

-------------------------------------------------------------------------------
(* Type correctness: among others, no counter of the loops passes the int.  *)
THEOREM TypeCorrect == Spec => []TypeOK
<1>1. IInv => TypeOK
  BY DEF IInv
<1>2. QED
  BY Invariance, <1>1, PTL

(* get_nearest_sqrt never overflows in the module, whatever n it is loaded  *)
(* with, since the numbers are no larger than what kmalloc gives.           *)
THEOREM ModuleNeverOverflows == Spec => []NoOverflow
<1>1. IInv => NoOverflow
  BY DEF IInv
<1>2. QED
  BY Invariance, <1>1, PTL

(* check_if_prime counts nothing but primes and passes over none of them    *)
(* that is odd.                                                             *)
THEOREM PrimalityTest == Spec => CountsPrimes
<1> DEFINE Counted ==
      /\ res' # res => IsPrime(num) /\ res' = res + 1
      /\ Passed => ~IsPrime(num') \/ num' = 2
<1>1. IInv /\ [Next]_vars => [Counted]_vars
  <2> SUFFICES ASSUME IInv, Next PROVE Counted
    BY DEF vars, Passed
  <2> USE DEF Passed
  <2>0. iter \in Nat /\ root \in Nat /\ num \in Nat /\ res \in Nat
    BY PrimeAssumption DEF PrimeAssumption, IInv, TypeOK
  <2>1. CASE Start \/ Root \/ NextNumber \/ End
    BY <2>1 DEF Start, Root, NextNumber, End
  <2>2. CASE Pick
    <3>1. pc' = "next" => num' < 2 /\ num' \in Int
      BY <2>2, PrimeAssumption DEF Pick, Bound, PrimeAssumption, IInv, TypeOK
    <3>2. pc' = "next" => ~IsPrime(num')
      BY <3>1 DEF IsPrime
    <3>3. QED
      BY <2>2, <3>2 DEF Pick
  <2>3. CASE Divide
    <3>0. /\ pc = "divide" /\ num' = num /\ num >= 2
          /\ root >= 1 /\ num <= root * root /\ (root - 1) * (root - 1) < num
          /\ iter >= 2 /\ \A d \in 2 .. iter - 1 : ~Divides(d, num)
      BY <2>3 DEF Divide, IInv, NumberInv, DivideInv
    <3>1. CASE iter > root /\ pc' = "next" /\ res' = res + 1 /\ UNCHANGED iter
      <4>1. \A d \in 2 .. root : ~Divides(d, num)
        BY <2>0, <3>0, <3>1
      <4>2. IsPrime(num)
        BY <2>0, <3>0, <4>1, RootSuffices
      <4>3. QED
        BY <2>0, <3>1, <4>2
    <3>2. CASE iter <= root /\ num % iter = 0 /\ pc' = "next" /\ UNCHANGED <<res, iter>>
      <4>1. Divides(iter, num)
        BY <3>2 DEF Divides
      <4>2. CASE num >= 3
        <5>1. root < num
          BY <2>0, <3>0, <4>2, RootIsProper
        <5>2. ~IsPrime(num)
          BY <2>0, <3>0, <3>2, <4>1, <5>1, PrimeByDivisors
        <5>3. QED
          BY <3>0, <3>2, <5>2
      <4>3. QED
        BY <2>0, <3>0, <3>2, <4>2
    <3>3. CASE iter <= root /\ num % iter # 0 /\ iter' = iter + 1 /\ UNCHANGED <<pc, res>>
      BY <3>0, <3>3
    <3>4. QED
      BY <2>3, <3>1, <3>2, <3>3 DEF Divide
  <2>4. QED
    BY <2>1, <2>2, <2>3 DEF Next
<1>2. QED
  BY Invariance, <1>1, PTL DEF Spec, CountsPrimes
===============================================================================
