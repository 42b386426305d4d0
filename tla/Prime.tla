-------------------------------- MODULE Prime --------------------------------
(* labs/lab9: counting primes among random numbers, in a module that does it *)
(* while it is loaded (prime_kmod.c) and in a program (prime_user.c), with   *)
(* the same two loops on the int type.  A random number is chosen when it is *)
(* looked at.  When an int overflows the behaviour is undefined: the model   *)
(* stops there.                                                              *)
EXTENDS Integers

CONSTANTS
  INT_MAX,
  KMALLOC_MAX,  \* how many int kmalloc can give
  Sizes         \* values of the parameter n, of the option -n

(* What kmalloc gives is 4 MB at most, and int has 32 bits: the first square *)
(* that reaches a number of the module is an int.                           *)
ASSUME PrimeAssumption ==
  /\ INT_MAX \in Nat /\ KMALLOC_MAX \in 0 .. INT_MAX
  /\ \A k \in 0 .. KMALLOC_MAX : k * k < KMALLOC_MAX => (k + 1) * (k + 1) <= INT_MAX
  /\ Sizes \subseteq -INT_MAX .. INT_MAX

VARIABLES
  prog,  \* module or user
  pc,    \* start; loop: next number; root, divide: steps of check_if_prime;
         \* add: its result is counted; done; failed; overflow; crash
  size,  \* how many numbers
  i, res, num, iter, root

vars == <<prog, pc, size, i, res, num, iter, root>>

Init ==
  /\ prog \in {"module", "user"} /\ size \in Sizes
  /\ pc = "start" /\ i = 0 /\ res = 0 /\ num = 0 /\ iter = 0 /\ root = 0

(* kmalloc of size int; a negative size is a huge one, and 0 is accepted.   *)
(* Mutant: memory that is not bounded by what kmalloc can give.             *)
AllocatesAny(s) == s >= 0
Allocates(s) == s \in 0 .. KMALLOC_MAX

(* lkp_init and main up to their loop. *)
Start ==
  /\ pc = "start"
  /\ pc' = IF IF prog = "module" THEN Allocates(size) ELSE size > 0
           THEN "loop" ELSE "failed"
  /\ UNCHANGED <<prog, size, i, res, num, iter, root>>

(* The numbers: modulo size + 1 in the module, modulo max in the program.   *)
Bound == IF prog = "module" THEN size ELSE size - 1

Pick ==
  /\ pc = "loop" /\ i < size
  /\ num' \in 0 .. Bound
  /\ pc' = IF num' < 2 THEN "next" ELSE "root"
  /\ iter' = 1
  /\ UNCHANGED <<prog, size, i, res, root>>

(* get_nearest_sqrt, one turn.  Mutant: the root is rounded down. *)
LowRoot(k) == k - 1
RootIs(k) == k

Root ==
  /\ pc = "root"
  /\ \/ iter * iter > INT_MAX /\ pc' = "overflow" /\ UNCHANGED <<iter, root>>
     \/ iter * iter < num /\ iter' = iter + 1 /\ UNCHANGED <<pc, root>>
     \/ /\ iter * iter \in num .. INT_MAX
        /\ root' = RootIs(iter) /\ iter' = 2 /\ pc' = "divide"
  /\ UNCHANGED <<prog, size, i, res, num>>

(* The divisions of check_if_prime, one turn. *)
Divide ==
  /\ pc = "divide"
  /\ \/ iter > root /\ pc' = "next" /\ res' = res + 1 /\ UNCHANGED iter
     \/ iter <= root /\ num % iter = 0 /\ pc' = "next" /\ UNCHANGED <<res, iter>>
     \/ iter <= root /\ num % iter # 0 /\ iter' = iter + 1 /\ UNCHANGED <<pc, res>>
  /\ UNCHANGED <<prog, size, i, num, root>>

NextNumber ==
  /\ pc = "next" /\ pc' = "loop" /\ i' = i + 1
  /\ UNCHANGED <<prog, size, res, num, iter, root>>

(* The end: the program frees a pointer it never set. *)
End ==
  /\ pc = "loop" /\ i >= size
  /\ pc' \in IF prog = "user" THEN {"done", "crash"} ELSE {"done"}
  /\ UNCHANGED <<prog, size, i, res, num, iter, root>>

Next == Start \/ Pick \/ Root \/ Divide \/ NextNumber \/ End

Spec == Init /\ [][Next]_vars

-------------------------------------------------------------------------------
IsPrime(k) == k > 1 /\ \A d \in 2 .. k - 1 : k % d # 0

(* Type invariant. *)
TypeOK ==
  /\ prog \in {"module", "user"} /\ size \in Sizes
  /\ pc \in {"start", "loop", "root", "divide", "next", "done", "failed",
             "overflow", "crash"}
  /\ i \in Nat /\ res \in 0 .. i + 1 /\ num \in 0 .. INT_MAX
  /\ iter \in 0 .. INT_MAX + 1 /\ root \in 0 .. INT_MAX

(* check_if_prime counts nothing but primes, each once, and misses none     *)
(* from 3 on: the root is far enough for every composite number (the loop   *)
(* that ends at get_nearest_sqrt, prime_user.c:20).  Of 2 it says nothing,  *)
(* see CountsEveryPrime.                                                    *)
Passed == pc # "next" /\ pc' = "next" /\ res' = res

CountsPrimes ==
  [][/\ res' # res => IsPrime(num) /\ res' = res + 1
     /\ Passed => ~IsPrime(num') \/ num' = 2]_vars

(* What the program says of itself ("Function to check if a number is       *)
(* prime", prime_user.c:16, where only "Numbers less than 2 are not prime", *)
(* :19, leave early): no prime is passed over.  The nearest root of 2 is 2, *)
(* which divides it, and the code violates this.                            *)
CountsEveryPrime == [][Passed => ~IsPrime(num')]_vars

(* The module never overflows: what kmalloc can give keeps the numbers      *)
(* small.  The program has no such bound.                                   *)
NoOverflow == pc = "overflow" => prog = "user"
===============================================================================
