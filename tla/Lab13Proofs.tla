----------------------------- MODULE Lab13Proofs -----------------------------
(* Proofs about the two small programs of lab13: SimpleTimer, for any        *)
(* timeout, lateness and width of jiffies, and KThread, with and without     *)
(* signals and failures.                                                     *)
EXTENDS SimpleTimer, KThread, TLAPS

-------------------------------------------------------------------------------

(* The jiffies until the timer expires and since the last message make a     *)
(* timeout; once expired, the timer is as late as late says.                 *)
Ahead(k) == expires = Plus(jiffies, k) /\ since + k >= Timeout /\ late = 0
Past == jiffies = Plus(expires, late) /\ since = Timeout
Timed == armed => Past \/ \E k \in 1 .. Timeout : Ahead(k)

IInv ==
  /\ TypeOK /\ Timed
  /\ hpc = "print" => since = Timeout
  /\ hpc # "idle" => ~armed /\ mod # "init"
  /\ mod = "init" => ~armed

Jiffies == 0 .. Wrap - 1
-------------------------------------------------------------------------------
(* Arithmetic of jiffies, for differences a timer can have.                  *)
LEMMA Remainder ==
  ASSUME NEW w \in Nat \ {0}, NEW n \in Nat, n < 2 * w
  PROVE  n % w = IF n < w THEN n ELSE n - w
<1>1. CASE n < w
  BY <1>1
<1>2. CASE w <= n
  <2>1. n % w = n - w
    BY <1>2
  <2>2. QED
    BY <1>2, <2>1
<1>3. QED
  BY <1>1, <1>2

LEMMA PlusIs ==
  ASSUME NEW a \in Jiffies, NEW b \in 0 .. Timeout + MaxLate
  PROVE  Plus(a, b) \in Jiffies /\ Plus(a, b) = IF a + b < Wrap THEN a + b ELSE a + b - Wrap
<1>1. /\ Wrap \in Nat \ {0} /\ Timeout + MaxLate < Wrap /\ a + b \in Nat
      /\ a + b < 2 * Wrap /\ a \in Nat /\ b \in Nat
  BY TimerAssumption DEF Jiffies
<1> DEFINE n == a + b
<1> HIDE DEF n
<1>2. n % Wrap = IF n < Wrap THEN n ELSE n - Wrap
  <2>1. n \in Nat /\ n < 2 * Wrap
    BY <1>1 DEF n
  <2>2. QED
    BY <1>1, <2>1, Remainder
<1>3. Plus(a, b) = IF a + b < Wrap THEN a + b ELSE a + b - Wrap
  BY <1>1, <1>2 DEF Plus, n
<1>4. QED
  BY <1>1, <1>3 DEF Jiffies

(* A timer in the future has not expired, one in the past has.               *)
LEMMA NotYet ==
  ASSUME NEW j \in Jiffies, NEW k \in 1 .. Timeout PROVE ~Reached(j, Plus(j, k))
<1> DEFINE e == Plus(j, k)
<1>1. e \in Jiffies /\ e = IF j + k < Wrap THEN j + k ELSE j + k - Wrap
  BY PlusIs, TimerAssumption
<1> HIDE DEF e
<1>2. /\ Wrap \in Nat \ {0} /\ Timeout \in Nat /\ Wrap > 2 * Timeout /\ k \in 1 .. Timeout
      /\ j \in 0 .. Wrap - 1
  BY TimerAssumption DEF Jiffies
<1>3. (j + Wrap - e) % Wrap = Wrap - k
  <2>1. CASE j + k < Wrap
    <3>1. j + Wrap - e = Wrap - k
      BY <1>1, <1>2, <2>1
    <3>2. Wrap - k \in Nat /\ Wrap - k < Wrap
      BY <1>2
    <3>3. (Wrap - k) % Wrap = Wrap - k
      BY <1>2, <3>2
    <3>4. QED
      BY <3>1, <3>3
  <2>2. CASE j + k >= Wrap
    <3>1. j + Wrap - e = 2 * Wrap - k
      BY <1>1, <1>2, <2>2
    <3>2. 2 * Wrap - k \in Nat /\ Wrap <= 2 * Wrap - k /\ 2 * Wrap - k < 2 * Wrap
      BY <1>2
    <3>3. (2 * Wrap - k) % Wrap = (2 * Wrap - k) - Wrap
      BY <1>2, <3>2
    <3>4. QED
      BY <1>2, <3>1, <3>3
  <2>3. QED
    BY <1>2, <2>1, <2>2
<1>4. ~(Wrap - k < Wrap \div 2)
  BY <1>2
<1>5. QED
  BY <1>3, <1>4 DEF Reached, e

LEMMA Ripe ==
  ASSUME NEW e \in Jiffies, NEW l \in 0 .. MaxLate PROVE Reached(Plus(e, l), e)
<1> DEFINE j == Plus(e, l)
<1>1. j \in Jiffies /\ j = IF e + l < Wrap THEN e + l ELSE e + l - Wrap
  BY PlusIs, TimerAssumption
<1> HIDE DEF j
<1>2. /\ Wrap \in Nat \ {0} /\ MaxLate \in Nat /\ Wrap > 2 * (MaxLate + 1)
      /\ l \in 0 .. MaxLate /\ e \in 0 .. Wrap - 1
  BY TimerAssumption DEF Jiffies
<1>3. (j + Wrap - e) % Wrap = l
  <2>1. CASE e + l < Wrap
    <3>1. j + Wrap - e = Wrap + l
      BY <1>1, <1>2, <2>1
    <3>2. Wrap + l \in Nat /\ Wrap <= Wrap + l /\ Wrap + l < 2 * Wrap
      BY <1>2
    <3>3. (Wrap + l) % Wrap = (Wrap + l) - Wrap
      BY <1>2, <3>2
    <3>4. QED
      BY <1>2, <3>1, <3>3
  <2>2. CASE e + l >= Wrap
    <3>1. j + Wrap - e = l
      BY <1>1, <1>2, <2>2
    <3>2. l \in Nat /\ l < Wrap
      BY <1>2
    <3>3. l % Wrap = l
      BY <1>2, <3>2
    <3>4. QED
      BY <3>1, <3>3
  <2>3. QED
    BY <1>2, <2>1, <2>2
<1>4. l < Wrap \div 2
  BY <1>2
<1>5. QED
  BY <1>3, <1>4 DEF Reached, j

(* What a jiffy makes of them.                                               *)
LEMMA Closer ==
  ASSUME NEW j \in Jiffies, NEW k \in 1 .. Timeout
  PROVE  IF k = 1 THEN Plus(Plus(j, k), 0) = Plus(j, 1)
                  ELSE Plus(j, k) = Plus(Plus(j, 1), k - 1)
<1>1. /\ Timeout \in Nat \ {0} /\ MaxLate \in Nat
      /\ Wrap \in Nat /\ Wrap > 2 * (Timeout + MaxLate)
  BY TimerAssumption
<1>2. \A a \in Jiffies, b \in 0 .. Timeout + MaxLate :
        Plus(a, b) \in Jiffies /\ Plus(a, b) = IF a + b < Wrap THEN a + b ELSE a + b - Wrap
  BY PlusIs
<1>3. 0 \in 0 .. Timeout + MaxLate /\ 1 \in 0 .. Timeout + MaxLate
      /\ k \in 0 .. Timeout + MaxLate /\ k - 1 \in 0 .. Timeout + MaxLate
  BY <1>1
<1>4. /\ Plus(j, 1) \in Jiffies
      /\ Plus(j, 1) = IF j + 1 < Wrap THEN j + 1 ELSE j + 1 - Wrap
  BY <1>2, <1>3
<1>5. /\ Plus(j, k) \in Jiffies
      /\ Plus(j, k) = IF j + k < Wrap THEN j + k ELSE j + k - Wrap
  BY <1>2, <1>3
<1>6. CASE k = 1
  <2>1. Plus(Plus(j, k), 0) =
          IF Plus(j, k) + 0 < Wrap THEN Plus(j, k) + 0 ELSE Plus(j, k) + 0 - Wrap
    BY <1>2, <1>3, <1>5
  <2>2. QED
    BY <1>1, <1>5, <1>6, <2>1 DEF Jiffies
<1>7. CASE k # 1
  <2>1. Plus(Plus(j, 1), k - 1) =
          IF Plus(j, 1) + (k - 1) < Wrap THEN Plus(j, 1) + (k - 1)
          ELSE Plus(j, 1) + (k - 1) - Wrap
    BY <1>2, <1>3, <1>4
  <2>2. QED
    BY <1>1, <1>4, <1>5, <1>7, <2>1 DEF Jiffies
<1>8. QED
  BY <1>6, <1>7

LEMMA Later ==
  ASSUME NEW e \in Jiffies, NEW l \in 0 .. MaxLate, l < MaxLate
  PROVE  Plus(Plus(e, l), 1) = Plus(e, l + 1)
<1>1. /\ Timeout \in Nat \ {0} /\ MaxLate \in Nat
      /\ Wrap \in Nat /\ Wrap > 2 * (Timeout + MaxLate)
  BY TimerAssumption
<1>2. \A a \in Jiffies, b \in 0 .. Timeout + MaxLate :
        Plus(a, b) \in Jiffies /\ Plus(a, b) = IF a + b < Wrap THEN a + b ELSE a + b - Wrap
  BY PlusIs
<1>3. 1 \in 0 .. Timeout + MaxLate /\ l \in 0 .. Timeout + MaxLate
      /\ l + 1 \in 0 .. Timeout + MaxLate
  BY <1>1
<1>4. /\ Plus(e, l) \in Jiffies
      /\ Plus(e, l) = IF e + l < Wrap THEN e + l ELSE e + l - Wrap
      /\ Plus(e, l + 1) = IF e + (l + 1) < Wrap THEN e + (l + 1) ELSE e + (l + 1) - Wrap
  BY <1>2, <1>3
<1>5. Plus(Plus(e, l), 1) =
        IF Plus(e, l) + 1 < Wrap THEN Plus(e, l) + 1 ELSE Plus(e, l) + 1 - Wrap
  BY <1>2, <1>3, <1>4
<1>6. QED
  BY <1>1, <1>4, <1>5 DEF Jiffies

-------------------------------------------------------------------------------
(* A timer that is due has its message a timeout behind it.                  *)
LEMMA DueIsPast == ASSUME IInv, armed PROVE Due <=> Past
<1>1. jiffies \in Jiffies /\ expires \in Jiffies /\ late \in 0 .. MaxLate
  BY DEF IInv, TypeOK, Jiffies
<1>2. CASE Past
  BY <1>1, <1>2, Ripe DEF Past, Due
<1>3. CASE ~Past
  <2>1. PICK k \in 1 .. Timeout : Ahead(k)
    BY <1>3 DEF IInv, Timed
  <2>2. QED
    BY <1>1, <1>3, <2>1, NotYet DEF Ahead, Due
<1>4. QED
  BY <1>2, <1>3

LEMMA StepArm ==
  ASSUME IInv, ModTimer, UNCHANGED <<jiffies, since>>
  PROVE  Timed' /\ (armed \in BOOLEAN /\ expires \in Jiffies /\ late \in 0 .. MaxLate)'
<1>1. Timeout \in 1 .. Timeout /\ Timeout \in 0 .. Timeout + MaxLate
  BY TimerAssumption
<1>2. jiffies \in Jiffies /\ since \in 0 .. Timeout /\ 0 \in 0 .. MaxLate
  BY TimerAssumption DEF IInv, TypeOK, Jiffies
<1>3. expires' = Plus(jiffies, Timeout) /\ armed' = TRUE /\ late' = 0
  BY DEF ModTimer
<1>4. expires' \in Jiffies
  BY <1>1, <1>2, <1>3, PlusIs
<1>5. Ahead(Timeout)'
  BY <1>2, <1>3, TimerAssumption DEF Ahead, Plus
<1>6. QED
  BY <1>1, <1>2, <1>3, <1>4, <1>5 DEF Timed

LEMMA StepTick == ASSUME IInv, Tick PROVE IInv'
<1>1. /\ jiffies \in Jiffies /\ expires \in Jiffies /\ late \in 0 .. MaxLate
      /\ since \in 0 .. Timeout /\ Timeout \in Nat \ {0} /\ MaxLate \in Nat
  BY TimerAssumption DEF IInv, TypeOK, Jiffies
<1>2. /\ jiffies' = Plus(jiffies, 1) /\ UNCHANGED <<mod, armed, expires, hpc>>
      /\ since' = IF since < Timeout THEN since + 1 ELSE since
      /\ Due \/ hpc # "idle" => late < MaxLate
      /\ late' = IF Due \/ hpc # "idle" THEN late + 1 ELSE late
  BY DEF Tick
<1>3. jiffies' \in Jiffies
  BY <1>1, <1>2, PlusIs
<1>4. since' \in 0 .. Timeout /\ late' \in 0 .. MaxLate
  BY <1>1, <1>2
<1>5. Timed'
  <2>1. SUFFICES ASSUME armed PROVE (Past \/ \E k \in 1 .. Timeout : Ahead(k))'
    BY <1>2 DEF Timed
  <2>2. hpc = "idle"
    BY <2>1 DEF IInv
  <2>3. CASE Past
    <3>1. late' = late + 1 /\ late < MaxLate
      BY <1>2, <2>1, <2>3, DueIsPast
    <3>2. Plus(Plus(expires, late), 1) = Plus(expires, late + 1)
      BY <1>1, <3>1, Later
    <3>3. jiffies' = Plus(expires', late')
      BY <1>2, <2>3, <3>1, <3>2 DEF Past
    <3>4. Past'
      BY <1>1, <1>2, <2>3, <3>3 DEF Past, Plus
    <3>5. QED
      BY <3>4
  <2>4. CASE ~Past
    <3>1. PICK k \in 1 .. Timeout : Ahead(k)
      BY <2>1, <2>4 DEF IInv, Timed
    <3>2. expires = Plus(jiffies, k) /\ since + k >= Timeout /\ late = 0
      BY <3>1 DEF Ahead
    <3>3. late' = 0
      BY <1>2, <2>1, <2>2, <2>4, <3>2, DueIsPast
    <3>4. CASE k = 1
      <4>1. Plus(expires, 0) = jiffies'
        BY <1>1, <1>2, <3>2, <3>4, Closer
      <4>2. since' = Timeout
        BY <1>1, <1>2, <3>2, <3>4
      <4>3. Past'
        BY <1>2, <3>3, <4>1, <4>2 DEF Past, Plus
      <4>4. QED
        BY <4>3
    <3>5. CASE k # 1
      <4>1. expires = Plus(jiffies', k - 1)
        BY <1>1, <1>2, <3>2, <3>5, Closer
      <4>2. k - 1 \in 1 .. Timeout /\ since' + (k - 1) >= Timeout
        BY <1>1, <1>2, <3>2, <3>5
      <4>3. Ahead(k - 1)'
        BY <1>2, <3>3, <4>1, <4>2 DEF Ahead, Plus
      <4>4. QED
        BY <4>2, <4>3
    <3>6. QED
      BY <3>4, <3>5
  <2>5. QED
    BY <2>3, <2>4
<1>6. hpc = "print" => since' = Timeout
  BY <1>1, <1>2 DEF IInv
<1>7. QED
  BY <1>2, <1>3, <1>4, <1>5, <1>6 DEF IInv, TypeOK, Jiffies

LEMMA NextKeeps == ASSUME IInv, [Next]_vars PROVE IInv'
<1>1. 0 \in 0 .. MaxLate /\ 0 \in 0 .. Timeout /\ Timeout \in 0 .. Timeout
  BY TimerAssumption
<1>2. CASE TimerInit
  BY <1>1, <1>2 DEF TimerInit, IInv, TypeOK, Timed
<1>3. CASE TimerInitArm
  BY <1>3, StepArm DEF TimerInitArm, IInv, TypeOK, Jiffies, ModTimer
<1>4. CASE TimerExit
  BY <1>1, <1>4 DEF TimerExit, IInv, TypeOK, Timed
<1>5. CASE Unload
  BY <1>5 DEF Unload, IInv, TypeOK, Timed, Past, Ahead
<1>6. CASE Expire
  <2>1. Past
    BY <1>6, DueIsPast DEF Expire, Due
  <2>2. mod # "init"
    BY <1>6 DEF Expire, Due, IInv
  <2>3. QED
    <3>1. since = Timeout /\ armed' = FALSE /\ hpc' = "print" /\ late' = 0
          /\ UNCHANGED <<mod, expires, jiffies, since>>
      BY <1>6, <2>1 DEF Expire, Past
    <3>2. TypeOK'
      BY <1>1, <3>1 DEF IInv, TypeOK
    <3>3. QED
      BY <2>2, <3>1, <3>2 DEF IInv, Timed
<1>7. CASE PrintMessage
  BY <1>1, <1>7 DEF PrintMessage, IInv, TypeOK, Timed
<1>8. CASE HandlerModTimer
  BY <1>8, StepArm DEF HandlerModTimer, IInv, TypeOK, Jiffies
<1>9. CASE Tick
  BY <1>9, StepTick
<1>10. CASE UNCHANGED vars
  BY <1>10 DEF vars, IInv, TypeOK, Timed, Past, Ahead
<1>11. QED
  BY <1>2, <1>3, <1>4, <1>5, <1>6, <1>7, <1>8, <1>9, <1>10 DEF Next, Handler

(* Every timer that is armed lies within its timeout, or is late by no more  *)
(* than a softirq can be (timer.c:21-46).                                    *)
THEOREM Invariance == Spec => []IInv
<1>1. Init => IInv
  <2>1. 0 \in 0 .. Wrap - 1 /\ 0 \in 0 .. MaxLate /\ Timeout \in 0 .. Timeout
    BY TimerAssumption
  <2>2. QED
    BY <2>1 DEF Init, IInv, TypeOK, Timed
<1>2. IInv /\ [Next]_vars => IInv'
  BY NextKeeps
<1>3. QED
  BY <1>1, <1>2, PTL DEF Spec

(* Every variable keeps its type: expires is a jiffies value, whatever is    *)
(* added to it, and no expired timer is later than a softirq can be.         *)
THEOREM TypeCorrect == Spec => []TypeOK
BY Invariance, PTL DEF IInv

(* No expiry is ever so far from jiffies that it is taken for one on the     *)
(* other side of now, for any timeout, lateness and width of jiffies.        *)
THEOREM ExpiryNearby == Spec => []ExpiresInWindow
<1>1. IInv => ExpiresInWindow
  <2>1. SUFFICES ASSUME IInv, armed PROVE ExpiresInWindow
    BY DEF ExpiresInWindow
  <2>2. CASE Past
    BY <2>1, <2>2 DEF IInv, TypeOK, Past, ExpiresInWindow
  <2>3. CASE ~Past
    BY <2>1, <2>3 DEF IInv, Timed, Ahead, ExpiresInWindow
  <2>4. QED
    BY <2>2, <2>3
<1>2. QED
  BY Invariance, <1>1, PTL

(* Two messages are at least TIMER_TIMEOUT apart (timer.c:34).               *)
THEOREM TimeoutBetweenMessages == Spec => MessagesApart
<1>1. IInv /\ [Next]_vars => [PrintMessage => since >= Timeout]_vars
  BY TimerAssumption DEF IInv, PrintMessage
<1>2. QED
  BY <1>1, Invariance, PTL DEF MessagesApart, Spec
-------------------------------------------------------------------------------
(* The handshake of kthread.c. *)
Ended == {"wake", "return", "dead"}

(* A waiter that has left its wait has seen its flag, or was interrupted;   *)
(* the flags are only set by the other side, at its place in the protocol.  *)
KInv ==
  /\ KTTypeOK
  /\ mpc # "wait" => wpc["exit"] = "out"
  /\ tpc # "wait" => wpc["thread"] = "out"
  /\ mpc = "init" => tpc = "none" /\ ~stop
  /\ stop => mpc \in {"wake", "wait", "unloaded"}
  /\ wpc["thread"] = "done" => stop
  /\ tpc \in Ended => stop
  /\ terminated => tpc \in Ended
  /\ wpc["exit"] = "done" => sig \/ terminated
  /\ ExitHeardThread

LEMMA KInit == KTInit => KInv
BY DEF KTInit, KInv, KTTypeOK, Waiters, Ended, ExitHeardThread,
   Heard

LEMMA KStep == KInv /\ [KTNext]_KTvars => KInv'
<1> SUFFICES ASSUME KInv, [KTNext]_KTvars PROVE KInv'
  OBVIOUS
<1> USE DEF KInv, KTTypeOK, Waiters, Ended, ExitHeardThread, Heard
<1>1. CASE KthreadInit
  BY <1>1 DEF KthreadInit
<1>2. CASE KthreadRun
  BY <1>2 DEF KthreadRun
<1>3. CASE ThreadStart
  BY <1>3 DEF ThreadStart
<1>4. CASE ThreadAnnounce
  BY <1>4 DEF ThreadAnnounce
<1>5. CASE ThreadWakeExit
  BY <1>5 DEF ThreadWakeExit, WakeUp
<1>6. CASE ThreadReturn
  BY <1>6 DEF ThreadReturn
<1>7. ASSUME NEW w \in Waiters, FirstTest(w)
      PROVE  KInv'
  BY <1>7 DEF FirstTest, Cond
<1>8. ASSUME NEW w \in Waiters, Prepare(w)
      PROVE  KInv'
  BY <1>8 DEF Prepare, Interrupted
<1>9. ASSUME NEW w \in Waiters, Test(w)
      PROVE  KInv'
  BY <1>9 DEF Test, Cond
<1>10. ASSUME NEW w \in Waiters, Schedule(w)
       PROVE  KInv'
  BY <1>10 DEF Schedule
<1>11. CASE ExitSetStop
  BY <1>11 DEF ExitSetStop
<1>12. CASE ExitWakeThread
  BY <1>12 DEF ExitWakeThread, WakeUp
<1>13. CASE ExitReturn
  BY <1>13 DEF ExitReturn
<1>14. CASE Signal
  BY <1>14 DEF Signal
<1>15. CASE UNCHANGED KTvars
  BY <1>15 DEF KTvars
<1>16. QED
  BY <1>1, <1>2, <1>3, <1>4, <1>5, <1>6, <1>7, <1>8, <1>9, <1>10, <1>11, <1>12,
     <1>13, <1>14, <1>15 DEF KTNext, Thread, Wait

(* The flags of kthread.c follow the positions of its two sides (:31-87).    *)
THEOREM KInvariance == KTSpec => []KInv
BY KInit, KStep, PTL DEF KTSpec

(* The thread does not leave its wait before the exit has told it to        *)
(* (kthread.c:44 and :79).                                                  *)
THEOREM StopsOnlyOnDemand == KTSpec => []StopsOnDemand
<1>1. KInv => StopsOnDemand
  BY DEF KInv, StopsOnDemand, Ended
<1>2. QED
  BY <1>1, KInvariance, PTL

(* An exit that no signal interrupts has heard the thread (kthread.c:83).   *)
THEOREM ExitHears == KTSpec => []ExitHeardThread
<1>1. KInv => ExitHeardThread
  BY DEF KInv
<1>2. QED
  BY <1>1, KInvariance, PTL
===============================================================================
