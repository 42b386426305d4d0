---------------------------- MODULE IrqDriverProofs ----------------------------
(* Proofs about IrqDriver, for any number of processes and any careful        *)
(* programs: who may touch the counters, then what each process can see of    *)
(* them, and from that what the processes of ioctl_test.c print.              *)
EXTENDS IoctlTest, SequenceTheorems, TLAPS

(* What a command does between LOCK and UNLOCK: no access to the mutex.      *)
Plain ==
  ({"load", "store", "zero", "minus", "clear", "getsum", "add", "put", "int",
    "spin_lock", "spin_unlock", "iret"} \X Counters)
    \cup ({"print"} \X {"IOCTL0", "IOCTL1", "IOCTL2", "IRQ"})

Clean == sum = 0 /\ \A i \in Counters : num[i] = 0

(* What is left of a careful program.                                        *)
Tidy(p) ==
  /\ p \in Seq(Commands)
  /\ p # <<>> => p[Len(p)] = "UNLOCK"
  /\ \A k \in 1 .. Len(p) - 1 :
       /\ p[k] = "UNLOCK" <=> p[k + 1] = "LOCK"
       /\ p[k + 1] = "UNLOCK" => p[k] = "RESET"

AtLock(p) == p # <<>> => p[1] = "LOCK"
AtUnlock(p) == p # <<>> /\ p[1] = "UNLOCK"
AtWork(p) == p # <<>> /\ p[1] \notin {"LOCK", "UNLOCK"}

(* RESET after j of its accesses.                                            *)
Resetting(c, j) ==
  /\ code[c] \in Seq(Plain) /\ Len(code[c]) = 7 - j
  /\ \A k \in 1 .. 7 - j : code[c][k] = Reset[k + j]
  /\ \A i \in Counters : i < j => num[i] = 0
  /\ j >= 6 => acc[c] = 0
  /\ j = 7 => sum = 0

Outside(c) ==
  \/ code[c] = <<>> /\ AtLock(prog[c])
  \/ code[c] = Code("LOCK") /\ AtWork(prog[c])

Inside(c) ==
  \/ code[c] \in Seq(Plain) /\ AtWork(prog[c])
  \/ AtUnlock(prog[c]) /\ \E j \in 0 .. 7 : Resetting(c, j)
  \/ code[c] = Code("UNLOCK") /\ AtLock(prog[c]) /\ Clean

IInv ==
  /\ DOMAIN num = Counters /\ DOMAIN acc = Clients
  /\ DOMAIN code = Clients /\ DOMAIN prog = Clients
  /\ dev_mutex \in Clients \cup {"none"}
  /\ dev_mutex = "none" => Clean
  /\ \A c \in Clients : Tidy(prog[c])
  /\ \A c \in Clients : IF dev_mutex = c THEN Inside(c) ELSE Outside(c)
-------------------------------------------------------------------------------
(* The accesses of the commands.                                             *)
LEMMA PlainConcat ==
  ASSUME NEW a \in Seq(Plain), NEW b \in Seq(Plain)
  PROVE  a \o b \in Seq(Plain)
BY ConcatProperties

LEMMA EachIs ==
  ASSUME NEW op
  PROVE  /\ Each(op) \in Seq({op} \X Counters) /\ Len(Each(op)) = 5
         /\ \A k \in 1 .. 5 : Each(op)[k] = <<op, k - 1>>
BY DEF Each, Counters

LEMMA PlainEach ==
  ASSUME NEW op \in {"zero", "minus", "add"}
  PROVE  Each(op) \in Seq(Plain)
BY DEF Each, Plain, Counters

LEMMA PlainInc ==
  ASSUME NEW i \in Counters
  PROVE  Inc(i) \in Seq(Plain)
BY DEF Inc, Plain

LEMMA ResetIs ==
  /\ Reset \in Seq(Plain) /\ Len(Reset) = 7
  /\ \A k \in 1 .. 5 : Reset[k] = <<"zero", k - 1>>
  /\ Reset[6] = <<"clear", 0>> /\ Reset[7] = <<"put", 0>>
<1> DEFINE a == Each("zero")  b == <<<<"clear", 0>>, <<"put", 0>>>>
<1>1. a \in Seq(Plain) /\ Len(a) = 5 /\ \A k \in 1 .. 5 : a[k] = <<"zero", k - 1>>
  BY PlainEach, EachIs
<1>2. /\ b \in Seq(Plain) /\ Len(b) = 2 /\ b[1] = <<"clear", 0>> /\ b[2] = <<"put", 0>>
  BY DEF Plain, Counters
<1>3. Reset = a \o b
  BY DEF Reset
<1> HIDE DEF a, b
<1>4. /\ a \o b \in Seq(Plain) /\ Len(a \o b) = 7
      /\ \A i \in 1 .. 7 : (a \o b)[i] = IF i <= 5 THEN a[i] ELSE b[i - 5]
  <2>1. /\ a \o b \in Seq(Plain) /\ Len(a \o b) = Len(a) + Len(b)
        /\ \A i \in 1 .. Len(a) + Len(b) :
             (a \o b)[i] = IF i <= Len(a) THEN a[i] ELSE b[i - Len(a)]
    BY <1>1, <1>2, ConcatProperties
  <2>2. Len(a) + Len(b) = 7
    BY <1>1, <1>2
  <2>3. QED
    BY <1>1, <2>1, <2>2
<1>5. QED
  BY <1>1, <1>2, <1>3, <1>4

LEMMA PlainHandler == Handler \in Seq(Plain)
<1> DEFINE a == <<<<"spin_lock", 0>>>>  b == Each("minus")  c == <<<<"getsum", 0>>>>
           d == Each("add")
           e == <<<<"put", 0>>, <<"spin_unlock", 0>>, <<"print", "IRQ">>, <<"iret", 0>>>>
<1>1. a \in Seq(Plain) /\ b \in Seq(Plain) /\ c \in Seq(Plain) /\ d \in Seq(Plain)
  BY PlainEach DEF Plain, Counters
<1>2. e \in Seq(Plain)
  BY DEF Plain, Counters
<1>3. Handler = a \o b \o c \o d \o e
  BY DEF Handler
<1> HIDE DEF a, b, c, d, e
<1>4. QED
  BY <1>1, <1>2, <1>3, PlainConcat

LEMMA PlainCode ==
  ASSUME NEW cmd \in Commands \ {"LOCK", "UNLOCK"}
  PROVE  Code(cmd) \in Seq(Plain)
<1>1. CASE cmd \in {"PRINT0", "PRINT1", "PRINT2", "INT"}
  BY <1>1 DEF Code, Plain, Counters
<1>2. \A i \in 0 .. 4 : Inc(i) \in Seq(Plain)
  BY PlainInc DEF Counters
<1>3. CASE cmd \in {"INC_0", "INC_1", "INC_2", "INC_3", "INC_4"}
  BY <1>2, <1>3 DEF Code
<1>4. CASE cmd = "INC_ALL"
  <2>1. Code(cmd) = Inc(0) \o Inc(1) \o Inc(2) \o Inc(3) \o Inc(4)
    BY <1>4 DEF Code
  <2>2. QED
    BY <1>2, <2>1, PlainConcat
<1>5. CASE cmd = "SUM"
  <2>1. <<<<"clear", 0>>>> \in Seq(Plain) /\ <<<<"put", 0>>>> \in Seq(Plain)
    BY DEF Plain, Counters
  <2>2. Code(cmd) = <<<<"clear", 0>>>> \o Each("add") \o <<<<"put", 0>>>>
    BY <1>5 DEF Code, Sum
  <2>3. QED
    BY <2>1, <2>2, PlainEach, PlainConcat
<1>6. CASE cmd = "RESET"
  BY <1>6, ResetIs DEF Code
<1>7. QED
  BY <1>1, <1>3, <1>4, <1>5, <1>6 DEF Commands

LEMMA MutexCode ==
  /\ Code("LOCK") = <<<<"mutex_lock", 0>>>> /\ Code("UNLOCK") = <<<<"mutex_unlock", 0>>>>
  /\ Code("RESET") = Reset
BY DEF Code

LEMMA PlainIsPlain ==
  ASSUME NEW e \in Plain
  PROVE  \A i : e # <<"mutex_lock", i>> /\ e # <<"mutex_unlock", i>>
BY DEF Plain

(* What follows a command in a careful program.                              *)
LEMMA TidyTail ==
  ASSUME NEW p, Tidy(p), p # <<>>
  PROVE  /\ Tidy(Tail(p)) /\ p[1] \in Commands /\ Head(p) = p[1]
         /\ p[1] = "LOCK" => AtWork(Tail(p))
         /\ p[1] = "UNLOCK" => AtLock(Tail(p))
         /\ AtWork(p) => AtWork(Tail(p)) \/ (AtUnlock(Tail(p)) /\ p[1] = "RESET")
<1> DEFINE q == Tail(p)
<1>1. /\ p \in Seq(Commands) /\ Len(p) \in Nat \ {0} /\ p[Len(p)] = "UNLOCK"
      /\ \A k \in 1 .. Len(p) - 1 :
           /\ p[k] = "UNLOCK" <=> p[k + 1] = "LOCK"
           /\ p[k + 1] = "UNLOCK" => p[k] = "RESET"
  BY DEF Tidy
<1>2. /\ q \in Seq(Commands) /\ Len(q) = Len(p) - 1
      /\ \A k \in 1 .. Len(p) - 1 : q[k] = p[k + 1]
  BY <1>1
<1>3. p[1] \in Commands /\ Head(p) = p[1] /\ (q = <<>> <=> Len(p) = 1)
  <2>1. p[1] \in Commands /\ Head(p) = p[1]
    BY <1>1
  <2>2. q = <<>> <=> Len(q) = 0
    BY <1>2, EmptySeq
  <2>3. QED
    BY <1>1, <1>2, <2>1, <2>2
<1> HIDE DEF q
<1>4. Tidy(q)
  <2>1. q # <<>> => q[Len(q)] = "UNLOCK"
    BY <1>1, <1>2, <1>3
  <2>2. ASSUME NEW k \in 1 .. Len(q) - 1
        PROVE  (q[k] = "UNLOCK" <=> q[k + 1] = "LOCK") /\ (q[k + 1] = "UNLOCK" => q[k] = "RESET")
    <3>1. k + 1 \in 1 .. Len(p) - 1 /\ q[k] = p[k + 1] /\ q[k + 1] = p[k + 2]
      BY <1>1, <1>2
    <3>2. (p[k + 1] = "UNLOCK" <=> p[k + 1 + 1] = "LOCK")
          /\ (p[k + 1 + 1] = "UNLOCK" => p[k + 1] = "RESET") /\ k + 1 + 1 = k + 2
      BY <1>1, <3>1
    <3>3. QED
      BY <3>1, <3>2
  <2>3. QED
    BY <1>2, <2>1, <2>2 DEF Tidy
<1>5. CASE q = <<>>
  <2>1. p[1] = "UNLOCK"
    BY <1>1, <1>3, <1>5
  <2>2. QED
    BY <1>3, <1>4, <1>5, <2>1 DEF AtLock, AtWork, q
<1>6. CASE q # <<>>
  <2>1. 1 \in 1 .. Len(p) - 1 /\ q[1] = p[2]
    BY <1>1, <1>2, <1>3, <1>6
  <2>2. (p[1] = "UNLOCK" <=> q[1] = "LOCK") /\ (q[1] = "UNLOCK" => p[1] = "RESET")
    BY <1>1, <2>1
  <2>3. QED
    BY <1>3, <1>4, <1>6, <2>2 DEF AtLock, AtWork, AtUnlock, q
<1>7. QED
  BY <1>5, <1>6

LEMMA CarefulIsTidy ==
  ASSUME NEW p \in Seq(Commands), Careful(p)
  PROVE  Tidy(p) /\ AtLock(p)
BY DEF Careful, Tidy, AtLock
-------------------------------------------------------------------------------
(* A step of c keeps the invariant when it does so for c, and when it leaves *)
(* the data alone while another process holds the mutex.                     *)
LEMMA OneMoves ==
  ASSUME IInv, NEW c \in Clients,
         DOMAIN num' = Counters, DOMAIN acc' = Clients,
         DOMAIN code' = Clients, DOMAIN prog' = Clients,
         \A d \in Clients \ {c} : code'[d] = code[d] /\ prog'[d] = prog[d],
         Tidy(prog'[c]),
         dev_mutex' = dev_mutex \/ {dev_mutex, dev_mutex'} \subseteq {c, "none"},
         dev_mutex \notin {c, "none"} => UNCHANGED <<num, sum, acc>>,
         dev_mutex' = "none" => Clean',
         IF dev_mutex' = c THEN Inside(c)' ELSE Outside(c)'
  PROVE  IInv'
<1>1. "none" \notin Clients
  BY IrqDriverAssumption
<1>2. ASSUME NEW d \in Clients, d # c
      PROVE  Tidy(prog'[d]) /\ IF dev_mutex' = d THEN Inside(d)' ELSE Outside(d)'
  <2>1. dev_mutex' = d <=> dev_mutex = d
    BY <1>1, <1>2
  <2>2. Tidy(prog[d]) /\ IF dev_mutex = d THEN Inside(d) ELSE Outside(d)
    BY <1>2 DEF IInv
  <2>3. code'[d] = code[d] /\ prog'[d] = prog[d]
    BY <1>2
  <2>4. ASSUME dev_mutex = d PROVE Inside(d)'
    <3>1. UNCHANGED <<num, sum, acc>> /\ Inside(d)
      BY <1>1, <1>2, <2>2, <2>4
    <3>2. QED
      BY <2>3, <3>1 DEF Inside, Resetting, Clean
  <2>5. ASSUME dev_mutex # d PROVE Outside(d)'
    BY <2>2, <2>3, <2>5 DEF Outside
  <2>6. QED
    BY <2>1, <2>2, <2>3, <2>4, <2>5
<1>3. dev_mutex' \in Clients \cup {"none"}
  BY DEF IInv
<1>4. QED
  BY <1>2, <1>3 DEF IInv

(* Whoever is at an access other than to the mutex holds the mutex.          *)
LEMMA HolderWorks ==
  ASSUME IInv, NEW c \in Clients, NEW op, NEW i, At(c, op, i),
         op \notin {"mutex_lock", "mutex_unlock"}
  PROVE  /\ dev_mutex = c /\ code[c] \in Seq(Plain) /\ code[c] # <<>>
         /\ \/ AtWork(prog[c])
            \/ /\ AtUnlock(prog[c])
               /\ \E j \in 0 .. 6 : Resetting(c, j) /\ <<op, i>> = Reset[j + 1]
<1>1. code[c] # <<>> /\ Head(code[c]) = <<op, i>>
  BY DEF At
<1>2. code[c] # Code("LOCK") /\ code[c] # Code("UNLOCK")
  BY <1>1, MutexCode
<1>3. dev_mutex = c /\ Inside(c)
  BY <1>1, <1>2 DEF IInv, Outside
<1>4. CASE code[c] \in Seq(Plain) /\ AtWork(prog[c])
  BY <1>1, <1>3, <1>4
<1>5. CASE AtUnlock(prog[c]) /\ \E j \in 0 .. 7 : Resetting(c, j)
  <2>1. PICK j \in 0 .. 7 : Resetting(c, j)
    BY <1>5
  <2>2. code[c] \in Seq(Plain) /\ Len(code[c]) = 7 - j
    BY <2>1 DEF Resetting
  <2>3. Len(code[c]) # 0
    BY <1>1, <2>2, EmptySeq
  <2>4. j \in 0 .. 6 /\ 1 \in 1 .. 7 - j
    BY <2>2, <2>3
  <2>5. code[c][1] = Reset[1 + j] /\ 1 + j = j + 1
    BY <2>1, <2>4 DEF Resetting
  <2>6. <<op, i>> = Reset[j + 1]
    BY <1>1, <2>2, <2>5
  <2>7. QED
    BY <1>1, <1>3, <1>5, <2>1, <2>2, <2>4, <2>6
<1>6. QED
  BY <1>2, <1>3, <1>4, <1>5 DEF Inside

(* An access of the holder keeps the invariant, unless it belongs to a RESET *)
(* and does not do what the RESET has to do next.                            *)
LEMMA HolderStep ==
  ASSUME IInv, NEW c \in Clients, NEW op, NEW i, At(c, op, i),
         op \notin {"mutex_lock", "mutex_unlock"},
         NEW q \in Seq(Plain), code' = [code EXCEPT ![c] = q],
         UNCHANGED <<prog, dev_mutex>>,
         DOMAIN num' = Counters, DOMAIN acc' = Clients,
         \A j \in 0 .. 6 :
           Resetting(c, j) /\ <<op, i>> = Reset[j + 1] => Resetting(c, j + 1)'
  PROVE  IInv'
<1>1. /\ dev_mutex = c
      /\ \/ AtWork(prog[c])
         \/ /\ AtUnlock(prog[c])
            /\ \E j \in 0 .. 6 : Resetting(c, j) /\ <<op, i>> = Reset[j + 1]
  BY HolderWorks
<1>2. /\ DOMAIN code' = Clients /\ DOMAIN prog' = Clients /\ code'[c] = q
      /\ \A d \in Clients \ {c} : code'[d] = code[d] /\ prog'[d] = prog[d]
      /\ prog'[c] = prog[c] /\ Tidy(prog'[c]) /\ c # "none"
  BY IrqDriverAssumption DEF IInv
<1>3. Inside(c)'
  <2>1. CASE AtWork(prog[c])
    BY <1>2, <2>1 DEF Inside
  <2>2. CASE AtUnlock(prog[c]) /\ \E j \in 0 .. 6 :
                Resetting(c, j) /\ <<op, i>> = Reset[j + 1]
    <3>1. PICK j \in 0 .. 6 : Resetting(c, j) /\ <<op, i>> = Reset[j + 1]
      BY <2>2
    <3>2. Resetting(c, j + 1)' /\ j + 1 \in 0 .. 7
      BY <3>1
    <3>3. AtUnlock(prog[c])'
      BY <1>2, <2>2
    <3>4. QED
      BY <3>2, <3>3 DEF Inside
  <2>3. QED
    BY <1>1, <2>1, <2>2
<1>4. dev_mutex' = c
  BY <1>1
<1>5. QED
  BY <1>1, <1>2, <1>3, <1>4, OneMoves

LEMMA RestIsPlain ==
  ASSUME IInv, NEW c \in Clients, NEW op, NEW i, At(c, op, i),
         op \notin {"mutex_lock", "mutex_unlock"}
  PROVE  Tail(code[c]) \in Seq(Plain)
BY HolderWorks

(* What is left of a RESET after one more access.                            *)
LEMMA ResetGoesOn ==
  ASSUME NEW c \in Clients, NEW j \in 0 .. 6, Resetting(c, j), DOMAIN code = Clients,
         Advance(c)
  PROVE  /\ code'[c] \in Seq(Plain) /\ Len(code'[c]) = 7 - (j + 1)
         /\ \A k \in 1 .. 7 - (j + 1) : code'[c][k] = Reset[k + (j + 1)]
<1>1. /\ code[c] \in Seq(Plain) /\ Len(code[c]) = 7 - j
      /\ \A k \in 1 .. 7 - j : code[c][k] = Reset[k + j]
  BY DEF Resetting
<1>2. code'[c] = Tail(code[c])
  BY DEF Advance
<1>3. code[c] # <<>>
  BY <1>1
<1>4. /\ Tail(code[c]) \in Seq(Plain) /\ Len(Tail(code[c])) = 6 - j
      /\ \A k \in 1 .. 6 - j : Tail(code[c])[k] = code[c][k + 1]
  BY <1>1, <1>3
<1>5. ASSUME NEW k \in 1 .. 6 - j PROVE code[c][k + 1] = Reset[k + (j + 1)]
  <2>1. k + 1 \in 1 .. 7 - j /\ (k + 1) + j = k + (j + 1)
    OBVIOUS
  <2>2. QED
    BY <1>1, <2>1
<1>6. 7 - (j + 1) = 6 - j
  OBVIOUS
<1>7. QED
  BY <1>2, <1>4, <1>5, <1>6
-------------------------------------------------------------------------------
(* The steps that touch neither the data, the mutex nor the ioctls.          *)
LEMMA StepAside ==
  ASSUME IInv, UNCHANGED <<num, sum, acc, dev_mutex, code, prog>>
  PROVE  IInv'
BY DEF IInv, Inside, Outside, Resetting, Clean

(* InitData sets the counters to what a RESET wants them to be.              *)
LEMMA StepInitData ==
  ASSUME IInv, InitData PROVE IInv'
<1>1. /\ UNCHANGED <<acc, dev_mutex, code, prog>>
      /\ \A i \in Counters : num'[i] \in {num[i], 0}
      /\ sum' \in {sum, 0} /\ DOMAIN num' = Counters
  BY DEF InitData, IInv, lockVars, procVars, regVars
<1>2. Clean => Clean'
  BY <1>1 DEF Clean
<1>3. ASSUME NEW c \in Clients, NEW j \in 0 .. 7, Resetting(c, j)
      PROVE  Resetting(c, j)'
  BY <1>1, <1>3 DEF Resetting
<1>4. ASSUME NEW c \in Clients, Inside(c) PROVE Inside(c)'
  BY <1>1, <1>2, <1>3, <1>4 DEF Inside
<1>5. ASSUME NEW c \in Clients, Outside(c) PROVE Outside(c)'
  BY <1>1, <1>5 DEF Outside
<1>6. QED
  BY <1>1, <1>2, <1>4, <1>5 DEF IInv

LEMMA StepIoctl ==
  ASSUME IInv, NEW c \in Clients, Ioctl(c) PROVE IInv'
<1>1. /\ code[c] = <<>> /\ prog[c] # <<>> /\ Tidy(prog[c])
      /\ UNCHANGED <<num, sum, acc, dev_mutex>>
      /\ IF dev_mutex = c THEN Inside(c) ELSE Outside(c)
  BY DEF Ioctl, IInv, dataVars, lockVars, regVars
<1>2. /\ DOMAIN code' = Clients /\ DOMAIN prog' = Clients
      /\ code'[c] = Code(Head(prog[c])) /\ prog'[c] = Tail(prog[c])
      /\ \A d \in Clients \ {c} : code'[d] = code[d] /\ prog'[d] = prog[d]
      /\ DOMAIN num' = Counters /\ DOMAIN acc' = Clients
  BY <1>1 DEF Ioctl, IInv
<1>3. /\ Tidy(Tail(prog[c])) /\ prog[c][1] \in Commands /\ Head(prog[c]) = prog[c][1]
      /\ prog[c][1] = "LOCK" => AtWork(Tail(prog[c]))
      /\ prog[c][1] = "UNLOCK" => AtLock(Tail(prog[c]))
      /\ AtWork(prog[c]) =>
           AtWork(Tail(prog[c])) \/ (AtUnlock(Tail(prog[c])) /\ prog[c][1] = "RESET")
  BY <1>1, TidyTail
<1>4. code[c] # Code("LOCK") /\ code[c] # Code("UNLOCK")
  BY <1>1, MutexCode
<1>5. CASE dev_mutex # c
  <2>1. AtLock(prog[c])
    BY <1>1, <1>4, <1>5 DEF Outside
  <2>2. prog[c][1] = "LOCK"
    BY <1>1, <2>1 DEF AtLock
  <2>3. Outside(c)'
    BY <1>2, <1>3, <2>2 DEF Outside
  <2>4. dev_mutex' = "none" => Clean'
    BY <1>1 DEF IInv, Clean
  <2>5. dev_mutex' # c
    BY <1>1, <1>5
  <2>6. QED
    BY <1>1, <1>2, <1>3, <2>3, <2>4, <2>5, OneMoves
<1>6. CASE dev_mutex = c
  <2>1. Inside(c)'
    <3>1. CASE AtWork(prog[c])
      <4>1. Code(prog[c][1]) \in Seq(Plain)
        BY <1>3, <3>1, PlainCode DEF AtWork
      <4>2. CASE AtWork(Tail(prog[c]))
        BY <1>2, <1>3, <4>1, <4>2 DEF Inside
      <4>3. CASE AtUnlock(Tail(prog[c])) /\ prog[c][1] = "RESET"
        <5>1. code'[c] = Reset /\ AtUnlock(prog'[c])
          BY <1>2, <1>3, <4>3, MutexCode
        <5>2. \A k \in 1 .. 7 - 0 : k + 0 = k
          OBVIOUS
        <5>3. \A i \in Counters : ~(i < 0)
          BY DEF Counters
        <5>4. Resetting(c, 0)'
          BY <5>1, <5>2, <5>3, ResetIs DEF Resetting
        <5>5. QED
          BY <5>1, <5>4 DEF Inside
      <4>4. QED
        BY <1>3, <3>1, <4>2, <4>3
    <3>2. CASE AtUnlock(prog[c]) /\ \E j \in 0 .. 7 : Resetting(c, j)
      <4>1. PICK j \in 0 .. 7 : Resetting(c, j)
        BY <3>2
      <4>2. Len(code[c]) = 7 - j /\ Len(code[c]) = 0
        BY <1>1, <4>1 DEF Resetting
      <4>3. j = 7
        BY <4>2
      <4>4. Clean
        BY <4>1, <4>3 DEF Resetting, Clean, Counters
      <4>5. Clean'
        BY <1>1, <4>4 DEF Clean
      <4>6. prog[c][1] = "UNLOCK"
        BY <3>2 DEF AtUnlock
      <4>7. QED
        BY <1>2, <1>3, <4>5, <4>6 DEF Inside
    <3>3. QED
      BY <1>1, <1>4, <1>6, <3>1, <3>2 DEF Inside
  <2>2. dev_mutex' = c /\ c # "none"
    BY <1>1, <1>6, IrqDriverAssumption
  <2>3. QED
    BY <1>1, <1>2, <1>3, <1>6, <2>1, <2>2, OneMoves
<1>7. QED
  BY <1>5, <1>6

(* The mutex changes hands at a clean state only.                            *)
LEMMA StepMutexLock ==
  ASSUME IInv, NEW c \in Clients, MutexLock(c) PROVE IInv'
<1>1. /\ At(c, "mutex_lock", 0) /\ Advance(c) /\ dev_mutex = "none" /\ dev_mutex' = c
      /\ UNCHANGED <<num, sum, acc, prog>>
  BY DEF MutexLock, dataVars, procVars, regVars
<1>2. c # "none"
  BY IrqDriverAssumption
<1>3. Outside(c) /\ Tidy(prog[c])
  BY <1>1, <1>2 DEF IInv
<1>4. code[c] = <<<<"mutex_lock", 0>>>> /\ AtWork(prog[c])
  BY <1>1, <1>3, MutexCode DEF Outside, At
<1>5. Tail(code[c]) = <<>> /\ <<>> \in Seq(Plain)
  BY <1>4
<1>6. /\ DOMAIN code' = Clients /\ DOMAIN prog' = Clients /\ code'[c] = Tail(code[c])
      /\ \A d \in Clients \ {c} : code'[d] = code[d] /\ prog'[d] = prog[d]
      /\ DOMAIN num' = Counters /\ DOMAIN acc' = Clients /\ prog'[c] = prog[c]
  BY <1>1 DEF Advance, IInv
<1>7. Inside(c)'
  BY <1>4, <1>5, <1>6 DEF Inside
<1>8. {dev_mutex, dev_mutex'} \subseteq {c, "none"} /\ Tidy(prog'[c])
  BY <1>1, <1>3
<1>9. QED
  BY <1>1, <1>2, <1>6, <1>7, <1>8, OneMoves

LEMMA StepMutexUnlock ==
  ASSUME IInv, NEW c \in Clients, MutexUnlock(c) PROVE IInv'
<1>1. /\ At(c, "mutex_unlock", 0) /\ Advance(c) /\ dev_mutex' = "none"
      /\ UNCHANGED <<num, sum, acc, prog>>
  BY DEF MutexUnlock, dataVars, procVars, regVars
<1>2. c # "none" /\ Tidy(prog[c])
  BY IrqDriverAssumption DEF IInv
<1>3. code[c] # <<>> /\ Head(code[c]) = <<"mutex_unlock", 0>>
  BY <1>1 DEF At
<1>4. code[c] # Code("LOCK")
  BY <1>3, MutexCode
<1>5. dev_mutex = c /\ Inside(c)
  BY <1>3, <1>4 DEF IInv, Outside
<1>6. code[c] \notin Seq(Plain)
  <2>1. SUFFICES ASSUME code[c] \in Seq(Plain) PROVE FALSE
    OBVIOUS
  <2>2. Head(code[c]) \in Plain
    BY <1>3, <2>1
  <2>3. QED
    BY <1>3, <2>2, PlainIsPlain
<1>7. code[c] = <<<<"mutex_unlock", 0>>>> /\ AtLock(prog[c]) /\ Clean
  BY <1>5, <1>6, MutexCode DEF Inside, Resetting
<1>8. Tail(code[c]) = <<>> /\ Clean'
  BY <1>1, <1>7 DEF Clean
<1>9. /\ DOMAIN code' = Clients /\ DOMAIN prog' = Clients /\ code'[c] = Tail(code[c])
      /\ \A d \in Clients \ {c} : code'[d] = code[d] /\ prog'[d] = prog[d]
      /\ DOMAIN num' = Counters /\ DOMAIN acc' = Clients /\ prog'[c] = prog[c]
  BY <1>1 DEF Advance, IInv
<1>10. Outside(c)'
  BY <1>7, <1>8, <1>9 DEF Outside
<1>11. {dev_mutex, dev_mutex'} \subseteq {c, "none"} /\ Tidy(prog'[c])
  BY <1>1, <1>2, <1>5, <1>9
<1>12. QED
  BY <1>1, <1>2, <1>5, <1>8, <1>9, <1>10, <1>11, OneMoves

(* Accesses a RESET does not have.                                           *)
LEMMA NotReset ==
  ASSUME NEW op, NEW i, op \notin {"zero", "clear", "put"}, NEW j \in 0 .. 6
  PROVE  <<op, i>> # Reset[j + 1]
<1>1. CASE j \in 0 .. 4
  <2>1. j + 1 \in 1 .. 5
    BY <1>1
  <2>2. QED
    BY <2>1, ResetIs
<1>2. CASE j = 5 \/ j = 6
  BY <1>2, ResetIs
<1>3. QED
  BY <1>1, <1>2

LEMMA StepNoReset ==
  ASSUME IInv, NEW c \in Clients, NEW op, NEW i, At(c, op, i),
         op \notin {"mutex_lock", "mutex_unlock", "zero", "clear", "put"},
         NEW q \in Seq(Plain), code' = [code EXCEPT ![c] = q],
         UNCHANGED <<prog, dev_mutex>>,
         DOMAIN num' = Counters, DOMAIN acc' = Clients
  PROVE  IInv'
<1>1. \A j \in 0 .. 6 : <<op, i>> # Reset[j + 1]
  BY NotReset
<1>2. QED
  BY <1>1, HolderStep

LEMMA StepLoad ==
  ASSUME IInv, NEW c \in Clients, NEW i \in Counters, Load(c, i) PROVE IInv'
<1>1. /\ At(c, "load", i) /\ code' = [code EXCEPT ![c] = Tail(code[c])]
      /\ UNCHANGED <<num, acc, prog, dev_mutex>>
  BY DEF Load, Advance, dataVars, lockVars, procVars
<1>2. Tail(code[c]) \in Seq(Plain)
  BY <1>1, RestIsPlain
<1>3. DOMAIN num' = Counters /\ DOMAIN acc' = Clients
  BY <1>1 DEF IInv
<1>4. QED
  BY <1>1, <1>2, <1>3, StepNoReset

LEMMA StepStore ==
  ASSUME IInv, NEW c \in Clients, NEW i \in Counters, Store(c, i) PROVE IInv'
<1>1. /\ code' = [code EXCEPT ![c] = Tail(code[c])] /\ Advance(c)
      /\ UNCHANGED <<sum, acc, prog, dev_mutex>>
  BY DEF Store, Advance, lockVars, procVars, regVars
<1>2. DOMAIN num' = Counters /\ DOMAIN acc' = Clients
  BY <1>1 DEF Store, IInv
<1>3. CASE At(c, "store", i) \/ At(c, "minus", i)
  <2>1. PICK op \in {"store", "minus"} : At(c, op, i)
    BY <1>3
  <2>2. Tail(code[c]) \in Seq(Plain)
    BY <2>1, RestIsPlain
  <2>3. QED
    BY <1>1, <1>2, <2>1, <2>2, StepNoReset
<1>4. CASE At(c, "zero", i) /\ num' = [num EXCEPT ![i] = 0]
  <2>1. Tail(code[c]) \in Seq(Plain)
    BY <1>4, RestIsPlain
  <2>2. ASSUME NEW j \in 0 .. 6, Resetting(c, j), <<"zero", i>> = Reset[j + 1]
        PROVE  Resetting(c, j + 1)'
    <3>1. j \in 0 .. 4
      BY <2>2, ResetIs
    <3>2. j + 1 \in 1 .. 5 /\ (j + 1) - 1 = j
      BY <3>1
    <3>3. i = j
      BY <2>2, <3>2, ResetIs
    <3>4. \A k \in Counters : k < j + 1 => num'[k] = 0
      BY <1>4, <2>2, <3>1, <3>3 DEF Resetting, IInv, Counters
    <3>5. DOMAIN code = Clients
      BY DEF IInv
    <3>6. /\ code'[c] \in Seq(Plain) /\ Len(code'[c]) = 7 - (j + 1)
          /\ \A k \in 1 .. 7 - (j + 1) : code'[c][k] = Reset[k + (j + 1)]
      BY <1>1, <2>2, <3>5, ResetGoesOn
    <3>7. ~(j + 1 >= 6) /\ j + 1 # 7
      BY <3>1
    <3>8. QED
      BY <3>4, <3>6, <3>7 DEF Resetting
  <2>3. QED
    BY <1>1, <1>2, <1>4, <2>1, <2>2, HolderStep
<1>5. QED
  BY <1>3, <1>4 DEF Store

LEMMA StepAccumulate ==
  ASSUME IInv, NEW c \in Clients, Accumulate(c) PROVE IInv'
<1>1. /\ code' = [code EXCEPT ![c] = Tail(code[c])] /\ Advance(c)
      /\ UNCHANGED <<num, sum, prog, dev_mutex>>
  BY DEF Accumulate, Advance, dataVars, lockVars, procVars
<1>2. DOMAIN num' = Counters /\ DOMAIN acc' = Clients
  BY <1>1 DEF Accumulate, IInv
<1>3. CASE \E op \in {"getsum", "add"}, i \in Counters : At(c, op, i)
  <2>1. PICK op \in {"getsum", "add"}, i \in Counters : At(c, op, i)
    BY <1>3
  <2>2. Tail(code[c]) \in Seq(Plain)
    BY <2>1, RestIsPlain
  <2>3. QED
    BY <1>1, <1>2, <2>1, <2>2, StepNoReset
<1>4. CASE At(c, "clear", 0) /\ acc' = [acc EXCEPT ![c] = 0]
  <2>1. Tail(code[c]) \in Seq(Plain)
    BY <1>4, RestIsPlain
  <2>2. ASSUME NEW j \in 0 .. 6, Resetting(c, j), <<"clear", 0>> = Reset[j + 1]
        PROVE  Resetting(c, j + 1)'
    <3>1. j = 5
      <4>1. j \notin 0 .. 4
        <5>1. SUFFICES ASSUME j \in 0 .. 4 PROVE FALSE
          OBVIOUS
        <5>2. j + 1 \in 1 .. 5
          BY <5>1
        <5>3. QED
          BY <2>2, <5>2, ResetIs
      <4>2. j # 6
        BY <2>2, ResetIs
      <4>3. QED
        BY <4>1, <4>2
    <3>2. \A k \in Counters : num'[k] = 0
      BY <1>1, <2>2, <3>1 DEF Resetting, Counters
    <3>3. acc'[c] = 0 /\ DOMAIN code = Clients
      BY <1>4 DEF IInv
    <3>4. /\ code'[c] \in Seq(Plain) /\ Len(code'[c]) = 7 - (j + 1)
          /\ \A k \in 1 .. 7 - (j + 1) : code'[c][k] = Reset[k + (j + 1)]
      BY <1>1, <2>2, <3>3, ResetGoesOn
    <3>5. j + 1 # 7
      BY <3>1
    <3>6. QED
      BY <3>2, <3>3, <3>4, <3>5 DEF Resetting
  <2>3. QED
    BY <1>1, <1>2, <1>4, <2>1, <2>2, HolderStep
<1>5. 0 \in Counters
  BY DEF Counters
<1>6. QED
  BY <1>3, <1>4, <1>5 DEF Accumulate

LEMMA StepPutSum ==
  ASSUME IInv, NEW c \in Clients, PutSum(c) PROVE IInv'
<1>1. /\ At(c, "put", 0) /\ code' = [code EXCEPT ![c] = Tail(code[c])] /\ Advance(c)
      /\ sum' = acc[c] /\ UNCHANGED <<num, acc, prog, dev_mutex>>
  BY DEF PutSum, Advance, lockVars, procVars, regVars
<1>2. DOMAIN num' = Counters /\ DOMAIN acc' = Clients /\ DOMAIN code = Clients
  BY <1>1 DEF IInv
<1>3. Tail(code[c]) \in Seq(Plain)
  BY <1>1, RestIsPlain
<1>4. ASSUME NEW j \in 0 .. 6, Resetting(c, j), <<"put", 0>> = Reset[j + 1]
      PROVE  Resetting(c, j + 1)'
  <2>1. j = 6
    <3>1. j \notin 0 .. 4
      <4>1. SUFFICES ASSUME j \in 0 .. 4 PROVE FALSE
        OBVIOUS
      <4>2. j + 1 \in 1 .. 5
        BY <4>1
      <4>3. QED
        BY <1>4, <4>2, ResetIs
    <3>2. j # 5
      BY <1>4, ResetIs
    <3>3. QED
      BY <3>1, <3>2
  <2>2. /\ \A k \in Counters : num'[k] = 0
        /\ acc'[c] = 0 /\ sum' = 0
    BY <1>1, <1>4, <2>1 DEF Resetting, Counters
  <2>3. /\ code'[c] \in Seq(Plain) /\ Len(code'[c]) = 7 - (j + 1)
        /\ \A k \in 1 .. 7 - (j + 1) : code'[c][k] = Reset[k + (j + 1)]
    BY <1>1, <1>2, <1>4, ResetGoesOn
  <2>4. QED
    BY <2>2, <2>3 DEF Resetting
<1>5. QED
  BY <1>1, <1>2, <1>3, <1>4, HolderStep

LEMMA StepPrintk ==
  ASSUME IInv, NEW c \in Clients, Printk(c) PROVE IInv'
<1>1. PICK who \in {"IOCTL0", "IOCTL1", "IOCTL2", "IRQ"} :
        /\ At(c, "print", who) /\ code' = [code EXCEPT ![c] = Tail(code[c])]
        /\ UNCHANGED <<num, acc, prog, dev_mutex>>
  BY DEF Printk, Advance, dataVars, lockVars, procVars, regVars
<1>2. Tail(code[c]) \in Seq(Plain)
  BY <1>1, RestIsPlain
<1>3. DOMAIN num' = Counters /\ DOMAIN acc' = Clients
  BY <1>1 DEF IInv
<1>4. QED
  BY <1>1, <1>2, <1>3, StepNoReset

LEMMA StepInterrupt ==
  ASSUME IInv, NEW c \in Clients, Interrupt(c) PROVE IInv'
<1>1. /\ At(c, "int", 0) /\ UNCHANGED <<num, acc, prog, dev_mutex>>
      /\ \/ code' = [code EXCEPT ![c] = Handler \o Tail(code[c])]
         \/ code' = [code EXCEPT ![c] = Tail(code[c])]
  BY DEF Interrupt, Advance, dataVars, procVars, regVars
<1>2. Tail(code[c]) \in Seq(Plain)
  BY <1>1, RestIsPlain
<1>3. Handler \o Tail(code[c]) \in Seq(Plain)
  BY <1>2, PlainHandler, PlainConcat
<1>4. PICK q \in Seq(Plain) : code' = [code EXCEPT ![c] = q]
  BY <1>1, <1>2, <1>3
<1>5. DOMAIN num' = Counters /\ DOMAIN acc' = Clients
  BY <1>1 DEF IInv
<1>6. QED
  BY <1>1, <1>4, <1>5, StepNoReset

(* The spinlock and the return of the handler.                               *)
LEMMA StepHandlerEnds ==
  ASSUME IInv, NEW c \in Clients, SpinLock(c) \/ SpinUnlock(c) \/ Iret(c)
  PROVE  IInv'
<1>1. PICK op \in {"spin_lock", "spin_unlock", "iret"} :
        /\ At(c, op, 0) /\ code' = [code EXCEPT ![c] = Tail(code[c])]
        /\ UNCHANGED <<num, acc, prog, dev_mutex>>
  BY DEF SpinLock, SpinUnlock, Iret, Advance, dataVars, procVars, regVars
<1>2. Tail(code[c]) \in Seq(Plain)
  BY <1>1, RestIsPlain
<1>3. DOMAIN num' = Counters /\ DOMAIN acc' = Clients
  BY <1>1 DEF IInv
<1>4. QED
  BY <1>1, <1>2, <1>3, StepNoReset
-------------------------------------------------------------------------------
LEMMA InitHolds ==
  ASSUME \A c \in Clients : Careful(Program[c]), Init
  PROVE  IInv
<1>1. ASSUME NEW c \in Clients PROVE Tidy(prog[c]) /\ AtLock(prog[c]) /\ code[c] = <<>>
  <2>1. Program[c] \in Seq(Commands)
    BY IrqDriverAssumption
  <2>2. QED
    BY <2>1, CarefulIsTidy DEF Init
<1>2. "none" \notin Clients
  BY IrqDriverAssumption
<1>3. DOMAIN prog = Clients
  BY IrqDriverAssumption DEF Init
<1>4. QED
  BY <1>1, <1>2, <1>3 DEF Init, IInv, Clean, Outside

LEMMA NextKeeps ==
  ASSUME IInv, [Next]_vars PROVE IInv'
<1>1. CASE InitCdev \/ InitIrq \/ InitVector \/ ModuleExit \/ UNCHANGED vars
           \/ \E c \in Clients : Open(c) \/ Close(c) \/ Kill(c)
  <2>1. UNCHANGED <<num, sum, acc, dev_mutex, code, prog>>
    BY <1>1 DEF InitCdev, InitIrq, InitVector, ModuleExit, vars, Open, Close, Kill,
       dataVars, lockVars, procVars, regVars
  <2>2. QED
    BY <2>1, StepAside
<1>2. CASE InitData
  BY <1>2, StepInitData
<1>3. ASSUME NEW c \in Clients, Run(c), ~Close(c) PROVE IInv'
  <2>1. CASE Ioctl(c)
    BY <2>1, StepIoctl
  <2>2. CASE \E i \in Counters : Load(c, i) \/ Store(c, i)
    BY <2>2, StepLoad, StepStore
  <2>3. CASE Accumulate(c)
    BY <2>3, StepAccumulate
  <2>4. CASE PutSum(c)
    BY <2>4, StepPutSum
  <2>5. CASE Printk(c)
    BY <2>5, StepPrintk
  <2>6. CASE MutexLock(c)
    BY <2>6, StepMutexLock
  <2>7. CASE MutexUnlock(c)
    BY <2>7, StepMutexUnlock
  <2>8. CASE Interrupt(c)
    BY <2>8, StepInterrupt
  <2>9. CASE SpinLock(c) \/ SpinUnlock(c) \/ Iret(c)
    BY <2>9, StepHandlerEnds
  <2>10. QED
    BY <1>3, <2>1, <2>2, <2>3, <2>4, <2>5, <2>6, <2>7, <2>8, <2>9 DEF Run
<1>4. QED
  BY <1>1, <1>2, <1>3 DEF Next

(* Careful programs keep to the protocol of Inside and Outside.              *)
THEOREM Inductive ==
  ASSUME \A c \in Clients : Careful(Program[c])
  PROVE  Spec => []IInv
<1>1. Init => IInv
  BY InitHolds
<1>2. IInv /\ [Next]_vars => IInv'
  BY NextKeeps
<1>3. QED
  BY <1>1, <1>2, PTL DEF Spec

(* Whoever takes dev_mutex finds the counters and the sum as init left them, *)
(* if every program does its work between LOCK and UNLOCK and ends it with a *)
(* RESET: the interrupt handler, the spinlock, kills and rmmod included.     *)
THEOREM HandoverIsClean ==
  ASSUME \A c \in Clients : Careful(Program[c])
  PROVE  Spec => []CleanHandover
<1>1. IInv => CleanHandover
  BY DEF IInv, Clean, CleanHandover
<1>2. QED
  BY <1>1, Inductive, PTL

(* Whoever executes a command other than LOCK, or the handler, holds         *)
(* dev_mutex (driver.c:177-182): no two processes are ever at work at once,  *)
(* which is all that keeps num[i]++ and the sums whole.                      *)
WorkIsExclusive ==
  \A c \in Clients : code[c] \notin {<<>>, Code("LOCK")} => dev_mutex = c

(* dev_mutex keeps careful processes apart (driver.c:177-182).               *)
THEOREM MutexProtects ==
  ASSUME \A c \in Clients : Careful(Program[c])
  PROVE  Spec => []WorkIsExclusive
<1>1. IInv => WorkIsExclusive
  BY DEF IInv, Outside, WorkIsExclusive
<1>2. QED
  BY <1>1, Inductive, PTL

-------------------------------------------------------------------------------
(* Sequential meaning.  The data; what a command, or the handler that an INT *)
(* may run ("IRQ"), makes of it when nothing else touches it.                *)
Data == [num : [Counters -> Int], sum : Int]
Zero == [num |-> [x \in Counters |-> 0], sum |-> 0]
Kinds == Commands \cup {"IRQ"}
IncOf(x) == <<"INC_0", "INC_1", "INC_2", "INC_3", "INC_4">>[x + 1]

(* The sum of the first k counters.                                          *)
Part(n, k) ==
  (IF k > 0 THEN n[0] ELSE 0) + (IF k > 1 THEN n[1] ELSE 0)
    + (IF k > 2 THEN n[2] ELSE 0) + (IF k > 3 THEN n[3] ELSE 0)
    + (IF k > 4 THEN n[4] ELSE 0)

Effect(kind, d) ==
  [num |-> [x \in Counters |->
              IF kind = "INC_ALL" \/ kind = IncOf(x) THEN d.num[x] + 1
              ELSE IF kind = "RESET" THEN 0
              ELSE IF kind = "IRQ" THEN -(x + 1) ELSE d.num[x]],
   sum |-> IF kind = "SUM" THEN Part(d.num, 5)
           ELSE IF kind = "RESET" THEN 0
           ELSE IF kind = "IRQ" THEN d.sum - 15 ELSE d.sum]

(* A proof outline of a program: t[k] holds the data there can be after k of *)
(* its commands, when it runs alone and finds the counters clean.            *)
Serves(cmd, kind) == kind = cmd \/ (cmd = "INT" /\ kind = "IRQ")
Outline(p, t) ==
  /\ \A k \in 0 .. Len(p) : t[k] \subseteq Data
  /\ Zero \in t[0]
  /\ \A k \in 1 .. Len(p), kind \in Kinds :
       Serves(p[k], kind) => \A d \in t[k - 1] : Effect(kind, d) \in t[k]

(* The accesses of a command, those left after j of them, and what c has     *)
(* made of data d by then: a counter, like the sum, has its old value until  *)
(* the store to it and its final value from there on.                        *)
FullOf(kind) == IF kind = "IRQ" THEN Handler ELSE Code(kind)
Left(s, j) == SubSeq(s, j + 1, Len(s))
Mine(c) == [num |-> num, sum |-> sum, reg |-> reg[c], acc |-> acc[c]]

StoredBy(kind, x) ==
  IF kind = "INC_ALL" THEN 2 * x + 2 ELSE IF kind = "RESET" THEN x + 1
  ELSE IF kind = "IRQ" THEN x + 2 ELSE 2
PutBy(kind) == IF kind = "IRQ" THEN 13 ELSE 7

Half(kind, d, j, s) ==
  /\ \A x \in Counters :
       s.num[x] = IF StoredBy(kind, x) <= j THEN Effect(kind, d).num[x] ELSE d.num[x]
  /\ s.sum = IF PutBy(kind) <= j THEN Effect(kind, d).sum ELSE d.sum
  /\ \A x \in Counters :
       <<kind, j>> \in {<<IncOf(x), 1>>, <<"INC_ALL", 2 * x + 1>>} => s.reg = d.num[x]
  /\ \A k \in 0 .. 5 : kind = "SUM" /\ j = k + 1 => s.acc = Part(d.num, k)
  /\ kind = "RESET" /\ j = 6 => s.acc = 0
  /\ \A k \in 0 .. 5 :
       kind = "IRQ" /\ j = k + 7 => s.acc = d.sum + Part(Effect(kind, d).num, k)

Issued(c) == Len(Program[c]) - Len(prog[c])

(* c is in the middle of its last command, or has finished it.               *)
Working(c, t) ==
  /\ Issued(c) > 0
  /\ \E d \in t[Issued(c) - 1], kind \in Kinds : \E j \in 0 .. Len(FullOf(kind)) :
       /\ Serves(Program[c][Issued(c)], kind)
       /\ code[c] = Left(FullOf(kind), j) /\ Half(kind, d, j, Mine(c))

(* c has not got the mutex yet, or has given it back.                        *)
Waiting(c, t) ==
  IF code[c] = <<>> THEN Zero \in t[Issued(c)]
  ELSE Issued(c) > 0 /\ Program[c][Issued(c)] = "LOCK" /\ Zero \in t[Issued(c) - 1]

Follows(c, t) ==
  /\ Issued(c) \in 0 .. Len(Program[c]) /\ prog[c] = Left(Program[c], Issued(c))
  /\ IF dev_mutex = c THEN Working(c, t) ELSE Waiting(c, t)
Loading ==
  /\ mod \in {"cdev", "irq"} => "irq" \notin registered
  /\ mod \in {"vector", "live"} => "irq" \in registered
  /\ "irq" \notin registered =>
       /\ running \subseteq early /\ dev_mutex \in early \cup {"none"}
       /\ \A c \in Clients \ early : code[c] = <<>>
  /\ early \subseteq EarlyOpen

(* What one access makes of the data and the registers of who executes it.   *)
Machine == [num : [Counters -> Int], sum : Int, reg : Int, acc : Int]
Access(op, i, s, t) ==
  /\ t.num = [x \in Counters |->
                IF x # i \/ op \notin {"store", "zero", "minus"} THEN s.num[x]
                ELSE IF op = "store" THEN s.reg + 1
                ELSE IF op = "zero" THEN 0 ELSE -(i + 1)]
  /\ t.sum = IF op = "put" THEN s.acc ELSE s.sum
  /\ t.reg = IF op = "load" THEN s.num[i] ELSE s.reg
  /\ t.acc = IF op = "clear" THEN 0 ELSE IF op = "getsum" THEN s.sum
             ELSE IF op = "add" THEN s.acc + s.num[i] ELSE s.acc
Quiet == {"PRINT0", "PRINT1", "PRINT2", "INT", "LOCK", "UNLOCK"}
Incs == {"INC_0", "INC_1", "INC_2", "INC_3", "INC_4"}

(* A program follows its outline: the inductive invariant is all of this     *)
(* together with IInv.                                                       *)
RegsOK ==
  /\ num \in [Counters -> Int] /\ sum \in Int
  /\ reg \in [Clients -> Int] /\ acc \in [Clients -> Int]

HInv(T) ==
  IInv /\ RegsOK /\ Loading /\ \A c \in Clients \ early : Follows(c, T[c])

Outlines(T) == \A c \in Clients : Outline(Program[c], T[c])

(* The part of HInv that IInv does not have.                                 *)
Rest(T) == RegsOK /\ Loading /\ \A c \in Clients \ early : Follows(c, T[c])

(* What this says of a holder that came after init: each counter, and the    *)
(* sum, is what it was before the command in progress or what it will be     *)
(* after it.                                                                 *)
SeesOwnWork(T) ==
  \A c \in Clients \ early : dev_mutex = c =>
    \E d \in T[c][Issued(c) - 1], e \in T[c][Issued(c)] :
      /\ \A x \in Counters : num[x] \in {d.num[x], e.num[x]}
      /\ sum \in {d.sum, e.sum}
      /\ code[c] = <<>> => [num |-> num, sum |-> sum] \in T[c][Issued(c)]

-------------------------------------------------------------------------------
(* What is left of a sequence.                                               *)
LEMMA LeftIs ==
  ASSUME NEW S, NEW s \in Seq(S), NEW j \in 0 .. Len(s)
  PROVE  /\ Left(s, j) \in Seq(S) /\ Len(Left(s, j)) = Len(s) - j
         /\ \A k \in 1 .. Len(s) - j : Left(s, j)[k] = s[j + k]
         /\ j < Len(s) => /\ Left(s, j) # <<>> /\ Head(Left(s, j)) = s[j + 1]
                          /\ Tail(Left(s, j)) = Left(s, j + 1)
         /\ j = Len(s) => Left(s, j) = <<>>
<1>1. /\ Left(s, j) \in Seq(S) /\ Len(Left(s, j)) = Len(s) - j
      /\ \A k \in 1 .. Len(s) - j : Left(s, j)[k] = s[j + k]
  <2>1. Len(s) \in Nat
    OBVIOUS
  <2>2. \A k \in j + 1 .. Len(s) : s[k] \in S
    BY <2>1
  <2>3. QED
    BY <2>1, <2>2, SubSeqProperties DEF Left
<1>2. j = Len(s) <=> Left(s, j) = <<>>
  BY <1>1, EmptySeq
<1>3. ASSUME j < Len(s)
      PROVE  /\ Left(s, j) # <<>> /\ Head(Left(s, j)) = s[j + 1]
             /\ Tail(Left(s, j)) = Left(s, j + 1)
  <2> DEFINE a == Left(s, j)  b == Left(s, j + 1)
  <2>1. a # <<>> /\ a \in Seq(S) /\ Len(a) = Len(s) - j
        /\ \A k \in 1 .. Len(s) - j : a[k] = s[j + k]
    BY <1>1, <1>2, <1>3
  <2>2. /\ b \in Seq(S) /\ Len(b) = Len(s) - (j + 1)
        /\ \A k \in 1 .. Len(s) - (j + 1) : b[k] = s[(j + 1) + k]
    <3>1. j + 1 \in 0 .. Len(s) /\ \A k \in (j + 1) + 1 .. Len(s) : s[k] \in S
      BY <1>3
    <3>2. QED
      BY <3>1, SubSeqProperties DEF Left
  <2> HIDE DEF a, b
  <2>3. Tail(a) \in Seq(S) /\ Len(Tail(a)) = Len(a) - 1
        /\ \A k \in 1 .. Len(a) - 1 : Tail(a)[k] = a[k + 1]
    BY <2>1
  <2>4. Tail(a) = b
    <3>1. Len(Tail(a)) = Len(b)
      BY <2>1, <2>2, <2>3
    <3>2. ASSUME NEW k \in 1 .. Len(Tail(a)) PROVE Tail(a)[k] = b[k]
      <4>1. k + 1 \in 1 .. Len(s) - j /\ k \in 1 .. Len(a) - 1
            /\ k \in 1 .. Len(s) - (j + 1) /\ (j + 1) + k = j + (k + 1)
        BY <1>3, <2>1, <2>3
      <4>2. QED
        BY <2>1, <2>2, <2>3, <4>1
    <3>3. QED
      BY <2>2, <2>3, <3>1, <3>2, SeqEqual
  <2>5. Head(a) = s[j + 1]
    <3>1. Head(a) = a[1] /\ 1 \in 1 .. Len(s) - j
      BY <1>3, <2>1
    <3>2. QED
      BY <2>1, <3>1
  <2>6. QED
    BY <2>1, <2>4, <2>5 DEF a, b
<1>4. QED
  BY <1>1, <1>2, <1>3

LEMMA LeftAll ==
  ASSUME NEW S, NEW s \in Seq(S) PROVE Left(s, 0) = s
<1>1. 0 \in 0 .. Len(s)
  OBVIOUS
<1>2. /\ Left(s, 0) \in Seq(S) /\ Len(Left(s, 0)) = Len(s) - 0
      /\ \A k \in 1 .. Len(s) - 0 : Left(s, 0)[k] = s[0 + k]
  BY <1>1, LeftIs
<1>3. Len(Left(s, 0)) = Len(s) /\ \A k \in 1 .. Len(Left(s, 0)) : Left(s, 0)[k] = s[k]
  BY <1>2
<1>4. QED
  BY <1>2, <1>3, SeqEqual

-------------------------------------------------------------------------------
(* The accesses of each command, by position.                                *)
LEMMA KindsAre == Kinds = Incs \cup Quiet \cup {"INC_ALL", "SUM", "RESET", "IRQ"}
BY DEF Kinds, Commands, Incs, Quiet

LEMMA FullInc ==
  ASSUME NEW i \in Counters
  PROVE  FullOf(IncOf(i)) = <<<<"load", i>>, <<"store", i>>>>
BY DEF FullOf, IncOf, Code, Inc, Counters

LEMMA IncsAre == Incs = {IncOf(i) : i \in Counters}
BY DEF Incs, IncOf, Counters

LEMMA FullAll ==
  /\ Len(FullOf("INC_ALL")) = 10
  /\ \A x \in Counters : /\ FullOf("INC_ALL")[2 * x + 1] = <<"load", x>>
                         /\ FullOf("INC_ALL")[2 * x + 2] = <<"store", x>>
BY SMTT(60) DEF FullOf, Code, Inc, Counters

LEMMA FullSum ==
  /\ Len(FullOf("SUM")) = 7 /\ FullOf("SUM")[1] = <<"clear", 0>>
  /\ FullOf("SUM")[7] = <<"put", 0>>
  /\ \A x \in Counters : FullOf("SUM")[x + 2] = <<"add", x>>
BY SMTT(60) DEF FullOf, Code, Sum, Each, Counters

LEMMA FullReset ==
  /\ Len(FullOf("RESET")) = 7 /\ FullOf("RESET")[6] = <<"clear", 0>>
  /\ FullOf("RESET")[7] = <<"put", 0>>
  /\ \A x \in Counters : FullOf("RESET")[x + 1] = <<"zero", x>>
BY SMTT(60) DEF FullOf, Code, Reset, Each, Counters

LEMMA FullIrq ==
  /\ Len(FullOf("IRQ")) = 16
  /\ FullOf("IRQ")[1] = <<"spin_lock", 0>> /\ FullOf("IRQ")[7] = <<"getsum", 0>>
  /\ FullOf("IRQ")[13] = <<"put", 0>> /\ FullOf("IRQ")[14] = <<"spin_unlock", 0>>
  /\ FullOf("IRQ")[15] = <<"print", "IRQ">> /\ FullOf("IRQ")[16] = <<"iret", 0>>
  /\ \A x \in Counters : /\ FullOf("IRQ")[x + 2] = <<"minus", x>>
                         /\ FullOf("IRQ")[x + 8] = <<"add", x>>
BY SMTT(60) DEF FullOf, Handler, Each, Counters

LEMMA FullQuiet ==
  /\ FullOf("PRINT0") = <<<<"print", "IOCTL0">>>>
  /\ FullOf("PRINT1") = <<<<"print", "IOCTL1">>>>
  /\ FullOf("PRINT2") = <<<<"print", "IOCTL2">>>> /\ FullOf("INT") = <<<<"int", 0>>>>
  /\ FullOf("LOCK") = <<<<"mutex_lock", 0>>>> /\ FullOf("UNLOCK") = <<<<"mutex_unlock", 0>>>>
BY DEF FullOf, Code

LEMMA FullIsSeq == \A kind \in Kinds : \E S : FullOf(kind) \in Seq(S)
<1> SUFFICES ASSUME NEW kind \in Kinds PROVE \E S : FullOf(kind) \in Seq(S)
  OBVIOUS
<1>1. CASE kind \in Quiet
  <2>1. PICK e : FullOf(kind) = <<e>>
    BY <1>1, FullQuiet DEF Quiet
  <2>2. FullOf(kind) \in Seq({e})
    BY <2>1
  <2>3. QED
    BY <2>2
<1>2. CASE kind = "IRQ"
  BY <1>2, PlainHandler DEF FullOf
<1>3. CASE kind \notin Quiet \cup {"IRQ"}
  <2>1. kind \in Commands \ {"LOCK", "UNLOCK"} /\ FullOf(kind) = Code(kind)
    BY <1>3 DEF Kinds, Quiet, FullOf
  <2>2. QED
    BY <2>1, PlainCode
<1>4. QED
  BY <1>1, <1>2, <1>3

-------------------------------------------------------------------------------
(* One access after the other, a command does what Effect says.             *)
LEMMA PartStep ==
  ASSUME NEW n \in [Counters -> Int], NEW y \in Counters
  PROVE  /\ Part(n, y) \in Int /\ Part(n, y + 1) = Part(n, y) + n[y]
         /\ Part(n, 5) = n[0] + n[1] + n[2] + n[3] + n[4]
<1>1. /\ n[0] \in Int /\ n[1] \in Int /\ n[2] \in Int /\ n[3] \in Int /\ n[4] \in Int
      /\ y \in {0, 1, 2, 3, 4}
  BY DEF Counters
<1>2. Part(n, y) \in Int
  BY <1>1 DEF Part
<1>3. Part(n, y + 1) = Part(n, y) + n[y]
  <2>1. CASE y = 0
    BY <1>1, <2>1 DEF Part
  <2>2. CASE y = 1
    BY <1>1, <2>2 DEF Part
  <2>3. CASE y = 2
    BY <1>1, <2>3 DEF Part
  <2>4. CASE y = 3
    BY <1>1, <2>4 DEF Part
  <2>5. CASE y = 4
    BY <1>1, <2>5 DEF Part
  <2>6. QED
    BY <1>1, <2>1, <2>2, <2>3, <2>4, <2>5
<1>4. QED
  BY <1>1, <1>2, <1>3 DEF Part

LEMMA EffectIsData ==
  ASSUME NEW kind \in Kinds, NEW d \in Data PROVE Effect(kind, d) \in Data
BY DEF Effect, Data, Part, Counters

LEMMA HalfInc ==
  ASSUME NEW y \in Counters, NEW d \in Data, NEW s \in Machine, NEW t \in Machine,
         NEW op, NEW i,
         NEW j \in 0 .. 1, FullOf(IncOf(y))[j + 1] = <<op, i>>,
         Access(op, i, s, t), Half(IncOf(y), d, j, s)
  PROVE  Half(IncOf(y), d, j + 1, t)
<1>1. /\ IncOf(y) \notin {"INC_ALL", "RESET", "SUM", "IRQ"}
      /\ \A x \in Counters : IncOf(x) = IncOf(y) <=> x = y
  BY DEF IncOf, Counters
<1> DEFINE k == IncOf(y)
<1>2. /\ \A x \in Counters :
           /\ StoredBy(k, x) = 2
           /\ Effect(k, d).num[x] = IF x = y THEN d.num[x] + 1 ELSE d.num[x]
      /\ PutBy(k) = 7 /\ Effect(k, d).sum = d.sum
  BY <1>1 DEF StoredBy, PutBy, Effect
<1>3. CASE j = 0
  <2>1. op = "load" /\ i = y
    BY <1>3, FullInc
  <2>2. QED
    BY <1>1, <1>2, <1>3, <2>1 DEF Half, Access
<1>4. CASE j = 1
  <2>1. op = "store" /\ i = y
    BY <1>4, FullInc
  <2>2. s.reg = d.num[y]
    BY <1>4 DEF Half
  <2>3. QED
    BY <1>1, <1>2, <1>4, <2>1, <2>2 DEF Half, Access
<1>5. QED
  BY <1>3, <1>4

LEMMA HalfAll ==
  ASSUME NEW d \in Data, NEW s \in Machine, NEW t \in Machine,
         NEW op, NEW i,
         NEW j \in 0 .. 9, FullOf("INC_ALL")[j + 1] = <<op, i>>,
         Access(op, i, s, t), Half("INC_ALL", d, j, s)
  PROVE  Half("INC_ALL", d, j + 1, t)
<1> DEFINE k == "INC_ALL"
<1>1. /\ \A x \in Counters : /\ StoredBy(k, x) = 2 * x + 2
                             /\ Effect(k, d).num[x] = d.num[x] + 1 /\ k # IncOf(x)
      /\ PutBy(k) = 7 /\ Effect(k, d).sum = d.sum
  BY DEF StoredBy, PutBy, Effect, IncOf, Counters
<1>2. PICK y \in Counters : j = 2 * y \/ j = 2 * y + 1
  BY DEF Counters
<1>3. CASE j = 2 * y
  <2>1. op = "load" /\ i = y
    BY <1>3, FullAll
  <2>2. QED
    BY <1>1, <1>2, <1>3, <2>1 DEF Half, Access, Counters
<1>4. CASE j = 2 * y + 1
  <2>1. op = "store" /\ i = y
    <3>1. j + 1 = 2 * y + 2
      BY <1>4 DEF Counters
    <3>2. QED
      BY <3>1, FullAll
  <2>2. s.reg = d.num[y]
    BY <1>4 DEF Half
  <2>3. QED
    BY <1>1, <1>2, <1>4, <2>1, <2>2 DEF Half, Access, Counters
<1>5. QED
  BY <1>2, <1>3, <1>4

LEMMA HalfSum ==
  ASSUME NEW d \in Data, NEW s \in Machine, NEW t \in Machine,
         NEW op, NEW i,
         NEW j \in 0 .. 6, FullOf("SUM")[j + 1] = <<op, i>>,
         Access(op, i, s, t), Half("SUM", d, j, s)
  PROVE  Half("SUM", d, j + 1, t)
<1> DEFINE k == "SUM"
<1>1. /\ \A x \in Counters : Effect(k, d).num[x] = d.num[x] /\ k # IncOf(x)
      /\ PutBy(k) = 7 /\ Effect(k, d).sum = Part(d.num, 5)
  BY DEF PutBy, Effect, IncOf, Counters
<1>2. CASE j = 0
  <2>1. op = "clear" /\ i = 0
    BY <1>2, FullSum
  <2>2. Part(d.num, 0) = 0
    BY DEF Part
  <2>3. QED
    BY <1>1, <1>2, <2>1, <2>2 DEF Half, Access, Counters
<1>3. CASE j \in 1 .. 5
  <2>1. PICK y \in Counters : j = y + 1
    BY <1>3 DEF Counters
  <2>2. op = "add" /\ i = y
    <3>1. j + 1 = y + 2
      BY <2>1 DEF Counters
    <3>2. QED
      BY <3>1, FullSum
  <2>3. Part(d.num, y + 1) = Part(d.num, y) + d.num[y]
    BY PartStep DEF Data
  <2>4. s.acc = Part(d.num, y) /\ s.num[y] = d.num[y]
    BY <1>1, <2>1 DEF Half, Counters
  <2>5. QED
    BY <1>1, <2>1, <2>2, <2>3, <2>4 DEF Half, Access, Counters
<1>4. CASE j = 6
  <2>1. op = "put" /\ i = 0
    BY <1>4, FullSum
  <2>2. s.acc = Part(d.num, 5)
    BY <1>4 DEF Half
  <2>3. QED
    BY <1>1, <1>4, <2>1, <2>2 DEF Half, Access, Counters
<1>5. QED
  BY <1>2, <1>3, <1>4

LEMMA HalfReset ==
  ASSUME NEW d \in Data, NEW s \in Machine, NEW t \in Machine,
         NEW op, NEW i,
         NEW j \in 0 .. 6, FullOf("RESET")[j + 1] = <<op, i>>,
         Access(op, i, s, t), Half("RESET", d, j, s)
  PROVE  Half("RESET", d, j + 1, t)
<1> DEFINE k == "RESET"
<1>1. /\ \A x \in Counters : /\ StoredBy(k, x) = x + 1 /\ Effect(k, d).num[x] = 0
                             /\ k # IncOf(x)
      /\ PutBy(k) = 7 /\ Effect(k, d).sum = 0
  BY DEF StoredBy, PutBy, Effect, IncOf, Counters
<1>2. CASE j \in Counters
  <2>1. op = "zero" /\ i = j
    BY <1>2, FullReset
  <2>2. QED
    BY <1>1, <1>2, <2>1 DEF Half, Access, Counters
<1>3. CASE j = 5
  <2>1. op = "clear" /\ i = 0
    BY <1>3, FullReset
  <2>2. QED
    BY <1>1, <1>3, <2>1 DEF Half, Access, Counters
<1>4. CASE j = 6
  <2>1. op = "put" /\ i = 0
    BY <1>4, FullReset
  <2>2. QED
    BY <1>1, <1>4, <2>1 DEF Half, Access, Counters
<1>5. QED
  BY <1>2, <1>3, <1>4 DEF Counters

LEMMA HalfIrq ==
  ASSUME NEW d \in Data, NEW s \in Machine, NEW t \in Machine,
         NEW op, NEW i,
         NEW j \in 0 .. 15, FullOf("IRQ")[j + 1] = <<op, i>>,
         Access(op, i, s, t), Half("IRQ", d, j, s)
  PROVE  Half("IRQ", d, j + 1, t)
<1> DEFINE n == [x \in Counters |-> -(x + 1)]
<1>1. \A m, r : Half("IRQ", d, m, r) <=>
        /\ \A x \in Counters : r.num[x] = IF x + 2 <= m THEN n[x] ELSE d.num[x]
        /\ r.sum = IF 13 <= m THEN d.sum - 15 ELSE d.sum
        /\ \A y \in 0 .. 5 : m = y + 7 => r.acc = d.sum + Part(n, y)
  <2>1. /\ \A x \in Counters : StoredBy("IRQ", x) = x + 2 /\ "IRQ" # IncOf(x)
        /\ PutBy("IRQ") = 13 /\ Effect("IRQ", d) = [num |-> n, sum |-> d.sum - 15]
    BY DEF StoredBy, PutBy, Effect, IncOf, Counters
  <2>2. QED
    BY <2>1 DEF Half
<1>2. d.sum \in Int /\ n \in [Counters -> Int] /\ Part(n, 0) = 0 /\ Part(n, 5) = -15
  BY DEF Data, Part, Counters
<1> HIDE DEF n
<1>3. CASE j \in {0, 13, 14, 15}
  <2>1. op \in {"spin_lock", "spin_unlock", "print", "iret"}
    BY <1>3, FullIrq
  <2>2. (\A x \in Counters : t.num[x] = s.num[x]) /\ t.sum = s.sum
    BY <2>1 DEF Access, Machine
  <2>3. QED
    BY <1>1, <1>3, <2>2 DEF Counters
<1>4. CASE j \in 1 .. 5
  <2>1. PICK y \in Counters : j = y + 1
    BY <1>4 DEF Counters
  <2>2. op = "minus" /\ i = y
    <3>1. j + 1 = y + 2
      BY <2>1 DEF Counters
    <3>2. QED
      BY <3>1, FullIrq
  <2>3. (\A x \in Counters : t.num[x] = IF x = y THEN n[y] ELSE s.num[x])
        /\ t.sum = s.sum
    BY <2>2 DEF Access, Machine, n
  <2>4. QED
    BY <1>1, <2>1, <2>3 DEF Counters
<1>5. CASE j = 6
  <2>1. op = "getsum" /\ i = 0
    BY <1>5, FullIrq
  <2>2. (\A x \in Counters : t.num[x] = s.num[x]) /\ t.sum = s.sum /\ t.acc = s.sum
    BY <2>1 DEF Access, Machine
  <2>3. QED
    BY <1>1, <1>2, <1>5, <2>2 DEF Counters
<1>6. CASE j \in 7 .. 11
  <2>1. PICK y \in Counters : j = y + 7
    BY <1>6 DEF Counters
  <2>2. op = "add" /\ i = y
    <3>1. j + 1 = y + 8
      BY <2>1 DEF Counters
    <3>2. QED
      BY <3>1, FullIrq
  <2>3. Part(n, y + 1) = Part(n, y) + n[y] /\ Part(n, y) \in Int /\ n[y] \in Int
    BY <1>2, PartStep
  <2>4. s.acc = d.sum + Part(n, y) /\ s.num[y] = n[y]
    BY <1>1, <2>1 DEF Counters
  <2>5. (\A x \in Counters : t.num[x] = s.num[x]) /\ t.sum = s.sum /\ t.acc = d.sum + Part(n, y + 1)
    <3>1. t.acc = s.acc + s.num[y]
      BY <2>2 DEF Access
    <3>2. t.acc = d.sum + Part(n, y + 1)
      BY <1>2, <2>3, <2>4, <3>1
    <3>3. QED
      BY <2>2, <3>2 DEF Access, Machine
  <2>6. QED
    BY <1>1, <2>1, <2>5 DEF Counters
<1>7. CASE j = 12
  <2>1. op = "put" /\ i = 0
    BY <1>7, FullIrq
  <2>2. s.acc = d.sum - 15
    BY <1>1, <1>2, <1>7
  <2>3. (\A x \in Counters : t.num[x] = s.num[x]) /\ t.sum = d.sum - 15
    BY <2>1, <2>2 DEF Access, Machine
  <2>4. QED
    BY <1>1, <1>7, <2>3 DEF Counters
<1>8. QED
  BY <1>3, <1>4, <1>5, <1>6, <1>7

LEMMA HalfQuiet ==
  ASSUME NEW kind \in Quiet, NEW d \in Data, NEW s, NEW j
  PROVE  Half(kind, d, j, s) <=> (\A x \in Counters : s.num[x] = d.num[x]) /\ s.sum = d.sum
BY DEF Half, Effect, Quiet, IncOf, Counters, Data

LEMMA QuietCode ==
  ASSUME NEW kind \in Quiet
  PROVE  /\ Len(FullOf(kind)) = 1
         /\ \A op, i : FullOf(kind)[1] = <<op, i>> =>
              op \in {"print", "int", "mutex_lock", "mutex_unlock"}
BY FullQuiet DEF Quiet

LEMMA HalfStep ==
  ASSUME NEW kind \in Kinds, NEW d \in Data, NEW s \in Machine, NEW t \in Machine,
         NEW op, NEW i, NEW j \in 0 .. Len(FullOf(kind)) - 1,
         FullOf(kind)[j + 1] = <<op, i>>, Access(op, i, s, t), Half(kind, d, j, s)
  PROVE  Half(kind, d, j + 1, t)
<1>1. CASE kind \in Incs
  <2>1. PICK y \in Counters : kind = IncOf(y)
    BY <1>1, IncsAre
  <2>2. j \in 0 .. 1
    BY <2>1, FullInc
  <2>3. QED
    BY <2>1, <2>2, HalfInc
<1>2. CASE kind \in Quiet
  <2>1. j = 0
    BY <1>2, QuietCode
  <2>2. op \in {"print", "int", "mutex_lock", "mutex_unlock"}
    BY <1>2, <2>1, QuietCode
  <2>3. (\A x \in Counters : t.num[x] = s.num[x]) /\ t.sum = s.sum
    BY <2>2 DEF Access, Machine
  <2>4. QED
    BY <1>2, <2>3, HalfQuiet
<1>3. CASE kind = "INC_ALL"
  BY <1>3, FullAll, HalfAll
<1>4. CASE kind = "SUM"
  BY <1>4, FullSum, HalfSum
<1>5. CASE kind = "RESET"
  BY <1>5, FullReset, HalfReset
<1>6. CASE kind = "IRQ"
  <2>1. Len(FullOf("IRQ")) - 1 = 15
    BY FullIrq
  <2>2. QED
    BY <1>6, <2>1, HalfIrq
<1>7. QED
  BY <1>1, <1>2, <1>3, <1>4, <1>5, <1>6, KindsAre

LEMMA FullLength ==
  ASSUME NEW kind \in Kinds
  PROVE  /\ Len(FullOf(kind)) \in Nat \ {0}
         /\ \A x \in Counters : StoredBy(kind, x) \in 1 .. Len(FullOf(kind))
                               \/ \A d \in Data : Effect(kind, d).num[x] = d.num[x]
         /\ PutBy(kind) \in 1 .. Len(FullOf(kind))
            \/ \A d \in Data : Effect(kind, d).sum = d.sum
<1>1. CASE kind \in Incs
  <2>1. PICK y \in Counters : kind = IncOf(y)
    BY <1>1, IncsAre
  <2>2. Len(FullOf(kind)) = 2
    BY <2>1, FullInc
  <2>3. kind \notin {"INC_ALL", "RESET", "SUM", "IRQ"}
    BY <1>1 DEF Incs
  <2>4. QED
    BY <2>2, <2>3 DEF StoredBy, PutBy, Effect
<1>2. CASE kind \in Quiet
  <2>1. /\ kind \notin Incs \cup {"INC_ALL", "RESET", "SUM", "IRQ"}
        /\ \A x \in Counters : kind # IncOf(x)
    BY <1>2, IncsAre DEF Quiet, Incs
  <2>2. QED
    BY <1>2, <2>1, QuietCode DEF Effect
<1>3. CASE kind = "INC_ALL"
  BY <1>3, FullAll DEF StoredBy, PutBy, Effect, Counters
<1>4. CASE kind = "SUM"
  BY <1>4, FullSum DEF StoredBy, PutBy, Effect, Counters, IncOf
<1>5. CASE kind = "RESET"
  BY <1>5, FullReset DEF StoredBy, PutBy, Effect, Counters
<1>6. CASE kind = "IRQ"
  <2>1. Len(FullOf(kind)) = 16
    BY <1>6, FullIrq
  <2>2. QED
    <3>1. PutBy(kind) = 13 /\ \A x \in Counters : StoredBy(kind, x) = x + 2
      BY <1>6 DEF StoredBy, PutBy
    <3>2. QED
      BY <2>1, <3>1 DEF Counters
<1>7. QED
  BY <1>1, <1>2, <1>3, <1>4, <1>5, <1>6, KindsAre

(* Before its first access a command has done nothing, after its last all.   *)
LEMMA HalfStarts ==
  ASSUME NEW kind \in Kinds, NEW d \in Data, NEW s,
         s.num = d.num, s.sum = d.sum
  PROVE  Half(kind, d, 0, s)
<1>1. /\ \A x \in Counters : ~(StoredBy(kind, x) <= 0)
      /\ ~(PutBy(kind) <= 0)
  BY DEF StoredBy, PutBy, Counters
<1>2. QED
  BY <1>1 DEF Half, Counters

LEMMA HalfEnds ==
  ASSUME NEW kind \in Kinds, NEW d \in Data, NEW s \in Machine,
         Half(kind, d, Len(FullOf(kind)), s)
  PROVE  s.num = Effect(kind, d).num /\ s.sum = Effect(kind, d).sum
<1> DEFINE e == Effect(kind, d)  n == Len(FullOf(kind))
<1>1. e \in Data
  BY EffectIsData
<1>2. \A x \in Counters : s.num[x] = e.num[x]
  BY FullLength DEF Half
<1>3. s.sum = e.sum
  BY FullLength DEF Half
<1> HIDE DEF e
<1>4. s.num = e.num
  BY <1>1, <1>2 DEF Data, Machine
<1>5. QED
  BY <1>3, <1>4 DEF e

-------------------------------------------------------------------------------
(* Where the holder of the mutex is.                                         *)
LEMMA MineIs ==
  ASSUME RegsOK, NEW c \in Clients
  PROVE  /\ Mine(c) \in Machine /\ Mine(c).num = num /\ Mine(c).sum = sum
         /\ Mine(c).reg = reg[c] /\ Mine(c).acc = acc[c]
BY DEF RegsOK, Mine, Machine

LEMMA HolderIs ==
  ASSUME NEW T, Outlines(T), HInv(T), NEW c \in Clients \ early, dev_mutex = c
  PROVE  /\ Issued(c) \in 1 .. Len(Program[c])
         /\ \E d \in Data, kind \in Kinds : \E j \in 0 .. Len(FullOf(kind)) :
              /\ d \in T[c][Issued(c) - 1] /\ Serves(Program[c][Issued(c)], kind)
              /\ Effect(kind, d) \in T[c][Issued(c)] /\ Effect(kind, d) \in Data
              /\ code[c] = Left(FullOf(kind), j) /\ Half(kind, d, j, Mine(c))
<1>1. Follows(c, T[c]) /\ Outline(Program[c], T[c])
  BY DEF HInv, Outlines
<1>2. Issued(c) \in 0 .. Len(Program[c]) /\ Working(c, T[c])
  BY <1>1 DEF Follows
<1>3. Program[c] \in Seq(Commands)
  BY IrqDriverAssumption
<1> DEFINE k == Issued(c)
<1>4. k \in 1 .. Len(Program[c])
  BY <1>2, <1>3 DEF Working
<1> HIDE DEF k
<1>5. PICK d \in T[c][k - 1], kind \in Kinds : \E j \in 0 .. Len(FullOf(kind)) :
        /\ Serves(Program[c][k], kind)
        /\ code[c] = Left(FullOf(kind), j) /\ Half(kind, d, j, Mine(c))
  BY <1>2 DEF Working, k
<1>6. d \in Data /\ Effect(kind, d) \in T[c][k]
  <2>1. k - 1 \in 0 .. Len(Program[c])
    BY <1>3, <1>4
  <2>2. T[c][k - 1] \subseteq Data
    BY <1>1, <2>1 DEF Outline
  <2>3. QED
    BY <1>1, <1>4, <1>5, <2>2 DEF Outline
<1>7. Effect(kind, d) \in Data
  BY <1>6, EffectIsData
<1>8. QED
  BY <1>4, <1>5, <1>6, <1>7 DEF k

(* The others do not notice what c does.                                     *)
LEMMA OthersFollow ==
  ASSUME NEW T, HInv(T), NEW c \in Clients,
         \A d \in Clients \ {c} : /\ code'[d] = code[d] /\ prog'[d] = prog[d]
                                  /\ reg'[d] = reg[d] /\ acc'[d] = acc[d],
         dev_mutex' = dev_mutex \/ {dev_mutex, dev_mutex'} \subseteq {c, "none"},
         dev_mutex \notin {c, "none"} => UNCHANGED <<num, sum>>
  PROVE  \A d \in (Clients \ early) \ {c} : Follows(d, T[d])'
<1> SUFFICES ASSUME NEW d \in (Clients \ early) \ {c} PROVE Follows(d, T[d])'
  OBVIOUS
<1>1. dev_mutex' = d <=> dev_mutex = d
  BY IrqDriverAssumption
<1>2. Follows(d, T[d]) /\ code'[d] = code[d] /\ prog'[d] = prog[d]
  BY DEF HInv
<1>3. Issued(d)' = Issued(d)
  BY <1>2 DEF Issued
<1>4. ASSUME dev_mutex = d PROVE Working(d, T[d])'
  <2>1. UNCHANGED <<num, sum>> /\ Working(d, T[d])
    BY <1>2, <1>4, IrqDriverAssumption DEF Follows
  <2>2. Mine(d)' = Mine(d)
    BY <2>1 DEF Mine
  <2>3. QED
    BY <1>2, <1>3, <2>1, <2>2 DEF Working
<1>5. ASSUME dev_mutex # d PROVE Waiting(d, T[d])'
  BY <1>2, <1>3, <1>5 DEF Follows, Waiting
<1>6. QED
  BY <1>1, <1>2, <1>3, <1>4, <1>5 DEF Follows

(* What c follows when it holds the mutex after its step.                    *)
LEMMA WorkGoesOn ==
  ASSUME NEW T, Outlines(T), HInv(T), NEW c \in Clients \ early, dev_mutex = c,
         UNCHANGED <<prog, dev_mutex>>,
         \A e \in Data, kind \in Kinds : \A j \in 0 .. Len(FullOf(kind)) :
           /\ Serves(Program[c][Issued(c)], kind)
           /\ code[c] = Left(FullOf(kind), j) /\ Half(kind, e, j, Mine(c))
           => \E kind2 \in Kinds : \E j2 \in 0 .. Len(FullOf(kind2)) :
                /\ Serves(Program[c][Issued(c)], kind2)
                /\ code'[c] = Left(FullOf(kind2), j2) /\ Half(kind2, e, j2, Mine(c)')
  PROVE  Follows(c, T[c])'
<1>1. PICK d \in Data, kind \in Kinds : \E j \in 0 .. Len(FullOf(kind)) :
              /\ d \in T[c][Issued(c) - 1] /\ Serves(Program[c][Issued(c)], kind)
              /\ code[c] = Left(FullOf(kind), j) /\ Half(kind, d, j, Mine(c))
  BY HolderIs
<1>2. Issued(c)' = Issued(c) /\ Follows(c, T[c])
  BY DEF Issued, HInv
<1>3. \E kind2 \in Kinds : \E j2 \in 0 .. Len(FullOf(kind2)) :
                /\ Serves(Program[c][Issued(c)], kind2)
                /\ code'[c] = Left(FullOf(kind2), j2) /\ Half(kind2, d, j2, Mine(c)')
  BY <1>1
<1>4. Issued(c) > 0
  BY <1>2 DEF Follows, Working
<1>5. Working(c, T[c])'
  BY <1>1, <1>2, <1>3, <1>4 DEF Working
<1>6. QED
  BY <1>2, <1>5 DEF Follows

(* The position an access has in its command.                                *)
LEMMA Position ==
  ASSUME NEW c \in Clients, NEW op, NEW i, At(c, op, i),
         NEW kind \in Kinds, NEW j \in 0 .. Len(FullOf(kind)),
         code[c] = Left(FullOf(kind), j)
  PROVE  /\ j \in 0 .. Len(FullOf(kind)) - 1 /\ FullOf(kind)[j + 1] = <<op, i>>
         /\ j + 1 \in 0 .. Len(FullOf(kind)) /\ Tail(code[c]) = Left(FullOf(kind), j + 1)
<1>1. PICK S : FullOf(kind) \in Seq(S)
  BY FullIsSeq
<1>2. code[c] # <<>> /\ Head(code[c]) = <<op, i>>
  BY DEF At
<1>3. Len(FullOf(kind)) \in Nat
  BY <1>1
<1>4. j # Len(FullOf(kind))
  <2>1. SUFFICES ASSUME j = Len(FullOf(kind)) PROVE FALSE
    OBVIOUS
  <2>2. Left(FullOf(kind), j) = <<>>
    BY <1>1, <2>1, LeftIs
  <2>3. QED
    BY <1>2, <2>2
<1>5. j < Len(FullOf(kind))
  BY <1>3, <1>4
<1>6. Head(code[c]) = FullOf(kind)[j + 1] /\ Tail(code[c]) = Left(FullOf(kind), j + 1)
  BY <1>1, <1>5, LeftIs
<1>7. QED
  BY <1>2, <1>3, <1>5, <1>6

(* The steps of a command, the mutex left aside.                             *)
LEMMA AccessFollows ==
  ASSUME NEW T, Outlines(T), HInv(T), NEW c \in Clients \ early, NEW op, NEW i, At(c, op, i),
         op \notin {"mutex_lock", "mutex_unlock"}, Advance(c),
         UNCHANGED <<mod, registered, early, prog, dev_mutex>>,
         \A d \in Clients \ {c} : reg'[d] = reg[d] /\ acc'[d] = acc[d],
         RegsOK', Access(op, i, Mine(c), Mine(c)')
  PROVE  Loading' /\ \A d \in Clients \ early : Follows(d, T[d])'
<1>1. dev_mutex = c
  BY HolderWorks DEF HInv
<1>2. DOMAIN code = Clients /\ code' = [code EXCEPT ![c] = Tail(code[c])]
  BY DEF HInv, IInv, Advance
<1>3. \A d \in (Clients \ early) \ {c} : Follows(d, T[d])'
  BY <1>1, <1>2, OthersFollow
<1>4. Mine(c) \in Machine /\ Mine(c)' \in Machine
  <2>1. Mine(c) \in Machine
    BY MineIs DEF HInv
  <2>2. Mine(c)' \in Machine
    BY DEF RegsOK, Mine, Machine
  <2>3. QED
    BY <2>1, <2>2
<1>5. ASSUME NEW e \in Data, NEW kind \in Kinds, NEW j \in 0 .. Len(FullOf(kind)),
             code[c] = Left(FullOf(kind), j), Half(kind, e, j, Mine(c))
      PROVE  /\ j + 1 \in 0 .. Len(FullOf(kind))
             /\ code'[c] = Left(FullOf(kind), j + 1) /\ Half(kind, e, j + 1, Mine(c)')
  <2>1. /\ j \in 0 .. Len(FullOf(kind)) - 1 /\ FullOf(kind)[j + 1] = <<op, i>>
        /\ j + 1 \in 0 .. Len(FullOf(kind)) /\ Tail(code[c]) = Left(FullOf(kind), j + 1)
    BY <1>5, Position
  <2>2. Half(kind, e, j + 1, Mine(c)')
    BY <1>4, <1>5, <2>1, HalfStep
  <2>3. QED
    BY <1>2, <2>1, <2>2
<1>6. Follows(c, T[c])'
  BY <1>1, <1>5, WorkGoesOn
<1>7. Loading'
  <2>1. "irq" \in registered
    BY <1>1, IrqDriverAssumption DEF HInv, Loading
  <2>2. QED
    BY <2>1 DEF HInv, Loading
<1>8. QED
  BY <1>3, <1>6, <1>7

(* A command of one access is over after it.                                 *)
LEMMA NothingLeft ==
  ASSUME NEW S, NEW s \in Seq(S) PROVE Left(s, Len(s)) = <<>>
<1>1. Len(s) \in 0 .. Len(s)
  OBVIOUS
<1>2. QED
  BY <1>1, LeftIs

LEMMA QuietDone ==
  ASSUME NEW kind \in Quiet
  PROVE  /\ Left(FullOf(kind), 0) = FullOf(kind) /\ FullOf(kind) # <<>>
         /\ Left(FullOf(kind), 1) = <<>>
<1>1. PICK e : FullOf(kind) = <<e>>
  BY FullQuiet DEF Quiet
<1>2. FullOf(kind) \in Seq({e})
  BY <1>1
<1>3. Len(FullOf(kind)) = 1
  BY QuietCode
<1>4. Left(FullOf(kind), Len(FullOf(kind))) = <<>>
  BY <1>2, NothingLeft
<1>5. Left(FullOf(kind), 0) = FullOf(kind)
  BY <1>2, LeftAll
<1>6. QED
  BY <1>1, <1>3, <1>4, <1>5

LEMMA FollowLoad ==
  ASSUME NEW T, Outlines(T), HInv(T), NEW c \in Clients \ early, NEW i \in Counters, Load(c, i)
  PROVE  Rest(T)'
<1>1. /\ At(c, "load", i) /\ Advance(c) /\ reg' = [reg EXCEPT ![c] = num[i]]
      /\ UNCHANGED <<mod, registered, early, prog, dev_mutex, num, sum, acc>>
  BY DEF Load, modVars, dataVars, lockVars, procVars
<1>2. RegsOK
  BY DEF HInv
<1>3. RegsOK' /\ reg'[c] = num[i]
  BY <1>1, <1>2 DEF RegsOK
<1>4. Access("load", i, Mine(c), Mine(c)')
  BY <1>1, <1>2, <1>3 DEF Access, Mine, RegsOK
<1>5. \A d \in Clients \ {c} : reg'[d] = reg[d] /\ acc'[d] = acc[d]
  BY <1>1, <1>2 DEF RegsOK
<1>6. QED
  BY <1>1, <1>3, <1>4, <1>5, AccessFollows DEF Rest

LEMMA FollowStore ==
  ASSUME NEW T, Outlines(T), HInv(T), NEW c \in Clients \ early, NEW i \in Counters, Store(c, i)
  PROVE  Rest(T)'
<1>1. /\ Advance(c) /\ UNCHANGED <<mod, registered, early, prog, dev_mutex, sum, reg, acc>>
  BY DEF Store, modVars, lockVars, procVars, regVars
<1>2. RegsOK
  BY DEF HInv
<1>3. PICK op \in {"store", "zero", "minus"} :
        /\ At(c, op, i)
        /\ num' = [num EXCEPT ![i] = IF op = "store" THEN reg[c] + 1
                                     ELSE IF op = "zero" THEN 0 ELSE -(i + 1)]
  BY DEF Store
<1>4. RegsOK'
  BY <1>1, <1>2, <1>3 DEF RegsOK, Counters
<1>5. Access(op, i, Mine(c), Mine(c)')
  BY <1>1, <1>2, <1>3 DEF Access, Mine, RegsOK
<1>6. QED
  BY <1>1, <1>3, <1>4, <1>5, AccessFollows DEF Rest

LEMMA FollowAccumulate ==
  ASSUME NEW T, Outlines(T), HInv(T), NEW c \in Clients \ early, Accumulate(c)
  PROVE  Rest(T)'
<1>1. /\ Advance(c) /\ UNCHANGED <<mod, registered, early, prog, dev_mutex, num, sum, reg>>
  BY DEF Accumulate, modVars, dataVars, lockVars, procVars
<1>2. RegsOK
  BY DEF HInv
<1>3. PICK op \in {"clear", "getsum", "add"}, i \in Counters :
        /\ At(c, op, i)
        /\ acc' = [acc EXCEPT ![c] = IF op = "clear" THEN 0
                                     ELSE IF op = "getsum" THEN sum ELSE acc[c] + num[i]]
  BY DEF Accumulate, Counters
<1>4. RegsOK' /\ \A d \in Clients \ {c} : acc'[d] = acc[d]
  BY <1>1, <1>2, <1>3 DEF RegsOK
<1>5. Access(op, i, Mine(c), Mine(c)')
  BY <1>1, <1>2, <1>3 DEF Access, Mine, RegsOK
<1>6. QED
  BY <1>1, <1>3, <1>4, <1>5, AccessFollows DEF Rest

LEMMA FollowPutSum ==
  ASSUME NEW T, Outlines(T), HInv(T), NEW c \in Clients \ early, PutSum(c)
  PROVE  Rest(T)'
<1>1. /\ At(c, "put", 0) /\ Advance(c) /\ sum' = acc[c]
      /\ UNCHANGED <<mod, registered, early, prog, dev_mutex, num, reg, acc>>
  BY DEF PutSum, modVars, lockVars, procVars, regVars
<1>2. RegsOK
  BY DEF HInv
<1>3. RegsOK'
  BY <1>1, <1>2 DEF RegsOK
<1>4. Access("put", 0, Mine(c), Mine(c)')
  BY <1>1, <1>2 DEF Access, Mine, RegsOK
<1>5. QED
  BY <1>1, <1>3, <1>4, AccessFollows DEF Rest

(* An access that leaves the data and the registers alone.                   *)
LEMMA FollowIdle ==
  ASSUME NEW T, Outlines(T), HInv(T), NEW c \in Clients \ early, NEW op, NEW i, At(c, op, i),
         op \in {"print", "int", "spin_lock", "spin_unlock", "iret"}, Advance(c),
         UNCHANGED <<mod, registered, early, prog, dev_mutex, num, sum, reg, acc>>
  PROVE  Rest(T)'
<1>1. RegsOK
  BY DEF HInv
<1>2. RegsOK'
  BY <1>1 DEF RegsOK
<1>3. Access(op, i, Mine(c), Mine(c)')
  BY <1>1 DEF Access, Mine, RegsOK
<1>4. QED
  BY <1>2, <1>3, AccessFollows DEF Rest

(* The accesses that only commands of one access have, and the handler's     *)
(* message.                                                                  *)
LEMMA Rare ==
  ASSUME NEW kind \in Kinds, NEW j \in 0 .. Len(FullOf(kind)) - 1,
         NEW op \in {"int", "mutex_unlock", "print"}, NEW i,
         FullOf(kind)[j + 1] = <<op, i>>
  PROVE  \/ kind \in Quiet /\ j = 0 /\ FullOf(kind)[1] = <<op, i>>
         \/ kind = "IRQ" /\ j = 14 /\ op = "print" /\ i = "IRQ"
<1>1. CASE kind \in Quiet
  <2>1. j = 0 /\ j + 1 = 1
    BY <1>1, QuietCode
  <2>2. QED
    BY <1>1, <2>1
<1>2. CASE kind \in Incs
  <2>1. PICK y \in Counters : kind = IncOf(y)
    BY <1>2, IncsAre
  <2>2. QED
    BY <2>1, FullInc
<1>3. CASE kind = "INC_ALL"
  <2>1. PICK y \in Counters : j + 1 = 2 * y + 1 \/ j + 1 = 2 * y + 2
    <3>1. j \in 0 .. 9
      BY <1>3, FullAll
    <3>2. QED
      BY <3>1 DEF Counters
  <2>2. CASE j + 1 = 2 * y + 1
    BY <1>3, <2>2, FullAll
  <2>3. CASE j + 1 = 2 * y + 2
    BY <1>3, <2>3, FullAll
  <2>4. QED
    BY <2>1, <2>2, <2>3
<1>4. CASE kind = "SUM"
  <2>1. j + 1 = 1 \/ j + 1 = 7 \/ \E y \in Counters : j + 1 = y + 2
    <3>1. j \in 0 .. 6
      BY <1>4, FullSum
    <3>2. QED
      BY <3>1 DEF Counters
  <2>2. QED
    BY <1>4, <2>1, FullSum
<1>5. CASE kind = "RESET"
  <2>1. j + 1 = 6 \/ j + 1 = 7 \/ \E y \in Counters : j + 1 = y + 1
    <3>1. j \in 0 .. 6
      BY <1>5, FullReset
    <3>2. QED
      BY <3>1 DEF Counters
  <2>2. QED
    BY <1>5, <2>1, FullReset
<1>6. CASE kind = "IRQ"
  <2>1. \/ j + 1 \in {1, 7, 13, 14, 16} \/ j = 14
        \/ \E y \in Counters : j + 1 = y + 2 \/ j + 1 = y + 8
    <3>1. j \in 0 .. 15
      <4>1. Len(FullOf(kind)) = 16
        BY <1>6, FullIrq
      <4>2. QED
        BY <4>1
    <3>2. CASE j \in 1 .. 5
      <4>1. j - 1 \in Counters /\ j + 1 = (j - 1) + 2
        BY <3>2 DEF Counters
      <4>2. QED
        BY <4>1
    <3>3. CASE j \in 7 .. 11
      <4>1. j - 7 \in Counters /\ j + 1 = (j - 7) + 8
        BY <3>3 DEF Counters
      <4>2. QED
        BY <4>1
    <3>4. CASE j \in {0, 6, 12, 13, 14, 15}
      BY <3>4
    <3>5. QED
      BY <3>1, <3>2, <3>3, <3>4
  <2>2. CASE j = 14
    <3>1. FullOf(kind)[15] = <<"print", "IRQ">> /\ j + 1 = 15
      BY <1>6, <2>2, FullIrq
    <3>2. QED
      BY <1>6, <2>2, <3>1
  <2>3. CASE j + 1 \in {1, 7, 13, 14, 16}
    BY <1>6, <2>3, FullIrq
  <2>4. CASE \E y \in Counters : j + 1 = y + 2 \/ j + 1 = y + 8
    BY <1>6, <2>4, FullIrq
  <2>5. QED
    BY <2>1, <2>2, <2>3, <2>4
<1>7. QED
  BY <1>1, <1>2, <1>3, <1>4, <1>5, <1>6, KindsAre

LEMMA OnlyOne ==
  ASSUME NEW kind \in Kinds, NEW j \in 0 .. Len(FullOf(kind)) - 1,
         NEW op \in {"int", "mutex_unlock"}, NEW i, FullOf(kind)[j + 1] = <<op, i>>
  PROVE  j = 0 /\ kind = IF op = "int" THEN "INT" ELSE "UNLOCK"
<1>1. kind \in Quiet /\ j = 0 /\ FullOf(kind)[1] = <<op, i>>
  BY Rare
<1>2. QED
  BY <1>1, FullQuiet DEF Quiet

(* The handler starts where INT is, with what INT found.                     *)
LEMMA FollowInterrupt ==
  ASSUME NEW T, Outlines(T), HInv(T), NEW c \in Clients \ early, Interrupt(c)
  PROVE  Rest(T)'
<1>1. /\ At(c, "int", 0)
      /\ UNCHANGED <<mod, registered, early, prog, dev_mutex, num, sum, reg, acc>>
      /\ \/ code' = [code EXCEPT ![c] = Handler \o Tail(code[c])]
         \/ Advance(c)
  BY DEF Interrupt, modVars, dataVars, procVars, regVars
<1>2. CASE Advance(c)
  BY <1>1, <1>2, FollowIdle
<1>3. CASE code' = [code EXCEPT ![c] = Handler \o Tail(code[c])]
  <2>0. At(c, "int", 0)
    BY <1>1
  <2>1. dev_mutex = c /\ DOMAIN code = Clients
    BY <2>0, HolderWorks DEF HInv, IInv
  <2>2. Mine(c)' = Mine(c) /\ code'[c] = Handler \o Tail(code[c])
    BY <1>1, <1>3, <2>1 DEF Mine
  <2>3. ASSUME NEW e \in Data, NEW kind \in Kinds, NEW j \in 0 .. Len(FullOf(kind)),
               Serves(Program[c][Issued(c)], kind),
               code[c] = Left(FullOf(kind), j), Half(kind, e, j, Mine(c))
        PROVE  /\ "IRQ" \in Kinds /\ 0 \in 0 .. Len(FullOf("IRQ"))
               /\ Serves(Program[c][Issued(c)], "IRQ")
               /\ code'[c] = Left(FullOf("IRQ"), 0) /\ Half("IRQ", e, 0, Mine(c)')
    <3>1. kind = "INT" /\ j = 0 /\ Tail(code[c]) = Left(FullOf(kind), j + 1)
      <4>1. /\ j \in 0 .. Len(FullOf(kind)) - 1 /\ FullOf(kind)[j + 1] = <<"int", 0>>
            /\ Tail(code[c]) = Left(FullOf(kind), j + 1)
        <5>1. PICK op, i : op = "int" /\ i = 0
          OBVIOUS
        <5>2. At(c, op, i)
          BY <2>0, <5>1
        <5>3. /\ j \in 0 .. Len(FullOf(kind)) - 1 /\ FullOf(kind)[j + 1] = <<op, i>>
              /\ j + 1 \in 0 .. Len(FullOf(kind)) /\ Tail(code[c]) = Left(FullOf(kind), j + 1)
          BY <2>3, <5>2, Position
        <5>4. QED
          BY <5>1, <5>3
      <4>2. QED
        BY <4>1, OnlyOne
    <3>2. Tail(code[c]) = <<>>
      <4>1. Left(FullOf("INT"), 1) = <<>>
        BY QuietDone DEF Quiet
      <4>2. QED
        BY <3>1, <4>1
    <3>3. code'[c] = Left(FullOf("IRQ"), 0)
      <4>1. Handler \in Seq(Plain) /\ FullOf("IRQ") = Handler
        BY PlainHandler DEF FullOf
      <4>2. Handler \o <<>> = Handler
        BY <4>1, ConcatEmptySeq
      <4>3. QED
        BY <2>2, <3>2, <4>1, <4>2, LeftAll
    <3>4. "IRQ" \in Kinds /\ 0 \in 0 .. Len(FullOf("IRQ")) /\ "INT" \in Quiet
      BY FullIrq DEF Kinds, Quiet
    <3>5. Mine(c).num = e.num /\ Mine(c).sum = e.sum
      <4>1. (\A x \in Counters : Mine(c).num[x] = e.num[x]) /\ Mine(c).sum = e.sum
        BY <2>3, <3>1, <3>4, HalfQuiet
      <4>2. Mine(c).num \in [Counters -> Int] /\ e.num \in [Counters -> Int]
        BY MineIs DEF HInv, Machine, Data
      <4>3. QED
        BY <4>1, <4>2
    <3>6. Half("IRQ", e, 0, Mine(c)')
      BY <2>2, <3>4, <3>5, HalfStarts
    <3>7. Serves(Program[c][Issued(c)], "IRQ")
      BY <2>3, <3>1 DEF Serves
    <3>8. QED
      BY <3>3, <3>4, <3>6, <3>7
  <2>4. Follows(c, T[c])'
    BY <1>1, <2>1, <2>3, WorkGoesOn
  <2>5. \A d \in Clients \ {c} : code'[d] = code[d]
    BY <1>3, <2>1
  <2>6. \A d \in (Clients \ early) \ {c} : Follows(d, T[d])'
    BY <1>1, <2>1, <2>5, OthersFollow
  <2>7. RegsOK'
    BY <1>1 DEF HInv, RegsOK
  <2>8. Loading'
    <3>1. "irq" \in registered
      BY <2>1, IrqDriverAssumption DEF HInv, Loading
    <3>2. QED
      BY <1>1, <3>1 DEF HInv, Loading
  <2>9. QED
    BY <1>1, <2>4, <2>6, <2>7, <2>8 DEF Rest
<1>4. QED
  BY <1>1, <1>2, <1>3

(* The next command of a program.                                            *)
LEMMA NextCommand ==
  ASSUME NEW T, HInv(T), NEW c \in Clients \ early, prog[c] # <<>>, prog'[c] = Tail(prog[c])
  PROVE  /\ Issued(c) + 1 \in 1 .. Len(Program[c]) /\ Issued(c)' = Issued(c) + 1
         /\ Head(prog[c]) = Program[c][Issued(c) + 1] /\ Head(prog[c]) \in Commands
         /\ prog'[c] = Left(Program[c], Issued(c) + 1)
<1> DEFINE p == Program[c]  k == Issued(c)
<1>1. p \in Seq(Commands) /\ Len(p) \in Nat
  BY IrqDriverAssumption
<1>2. k \in 0 .. Len(p) /\ prog[c] = Left(p, k)
  BY DEF HInv, Follows
<1> HIDE DEF p, k
<1>3. k # Len(p)
  <2>1. SUFFICES ASSUME k = Len(p) PROVE FALSE
    OBVIOUS
  <2>2. Left(p, Len(p)) = <<>>
    BY <1>1, NothingLeft
  <2>3. QED
    BY <1>2, <2>1, <2>2
<1>4. k < Len(p) /\ k + 1 \in 0 .. Len(p) /\ k + 1 \in 1 .. Len(p)
  BY <1>1, <1>2, <1>3
<1>5. Head(prog[c]) = p[k + 1] /\ prog'[c] = Left(p, k + 1)
  BY <1>1, <1>2, <1>4, LeftIs
<1>6. Len(prog'[c]) = Len(p) - (k + 1)
  <2>1. Len(Left(p, k + 1)) = Len(p) - (k + 1)
    BY <1>1, <1>4, LeftIs
  <2>2. QED
    BY <1>5, <2>1
<1>7. Issued(c)' = k + 1
  <2>1. Issued(c)' = Len(p) - Len(prog'[c])
    BY DEF Issued, p
  <2>2. QED
    BY <1>1, <1>2, <1>6, <2>1
<1>8. QED
  BY <1>1, <1>4, <1>5, <1>7 DEF p, k

(* A command that is over has had its effect.                                *)
LEMMA HolderDone ==
  ASSUME NEW T, Outlines(T), HInv(T), NEW c \in Clients \ early, dev_mutex = c, code[c] = <<>>
  PROVE  [num |-> num, sum |-> sum] \in T[c][Issued(c)]
<1>1. PICK d \in Data, kind \in Kinds : \E j \in 0 .. Len(FullOf(kind)) :
              /\ Effect(kind, d) \in T[c][Issued(c)] /\ Effect(kind, d) \in Data
              /\ code[c] = Left(FullOf(kind), j) /\ Half(kind, d, j, Mine(c))
  BY HolderIs
<1>2. PICK j \in 0 .. Len(FullOf(kind)) :
              /\ Effect(kind, d) \in T[c][Issued(c)] /\ Effect(kind, d) \in Data
              /\ code[c] = Left(FullOf(kind), j) /\ Half(kind, d, j, Mine(c))
  BY <1>1
<1>3. j = Len(FullOf(kind))
  <2>1. PICK S : FullOf(kind) \in Seq(S)
    BY FullIsSeq
  <2>2. Len(FullOf(kind)) \in Nat
    BY <2>1
  <2>3. SUFFICES ASSUME j < Len(FullOf(kind)) PROVE FALSE
    BY <2>2
  <2>4. Left(FullOf(kind), j) # <<>>
    BY <2>1, <2>3, LeftIs
  <2>5. QED
    BY <1>2, <2>4
<1>4. Mine(c) \in Machine /\ Mine(c).num = num /\ Mine(c).sum = sum
  BY MineIs DEF HInv
<1>5. num = Effect(kind, d).num /\ sum = Effect(kind, d).sum
  BY <1>2, <1>3, <1>4, HalfEnds
<1>6. Effect(kind, d) = [num |-> num, sum |-> sum]
  BY <1>2, <1>5 DEF Data
<1>7. QED
  BY <1>2, <1>6

LEMMA FollowIoctl ==
  ASSUME NEW T, Outlines(T), HInv(T), NEW c \in Clients \ early, Ioctl(c)
  PROVE  Rest(T)'
<1>1. /\ c \in running /\ code[c] = <<>> /\ prog[c] # <<>>
      /\ UNCHANGED <<mod, registered, early, dev_mutex, num, sum, reg, acc, running>>
  BY DEF Ioctl, modVars, dataVars, lockVars, regVars
<1>2. DOMAIN code = Clients /\ DOMAIN prog = Clients /\ Tidy(prog[c])
  BY DEF HInv, IInv
<1>3. code'[c] = Code(Head(prog[c])) /\ prog'[c] = Tail(prog[c])
  BY <1>2 DEF Ioctl
<1>4. /\ Issued(c) + 1 \in 1 .. Len(Program[c]) /\ Issued(c)' = Issued(c) + 1
      /\ Head(prog[c]) = Program[c][Issued(c) + 1] /\ Head(prog[c]) \in Commands
      /\ prog'[c] = Left(Program[c], Issued(c) + 1)
  BY <1>1, <1>3, NextCommand
<1>5. Issued(c) \in 0 .. Len(Program[c]) /\ Follows(c, T[c])
  BY DEF HInv, Follows
<1>6. ASSUME dev_mutex = c PROVE Working(c, T[c])'
  <2> DEFINE e == [num |-> num, sum |-> sum]  kind == Head(prog[c])
  <2>1. e \in T[c][Issued(c)]
    BY <1>1, <1>6, HolderDone
  <2>2. e \in Data /\ Mine(c).num = e.num /\ Mine(c).sum = e.sum
    BY MineIs DEF HInv, RegsOK, Data
  <2>3. kind \in Kinds /\ kind # "IRQ"
    BY <1>4 DEF Kinds, Commands
  <2> HIDE DEF e
  <2>4. Mine(c)' = Mine(c) /\ Half(kind, e, 0, Mine(c))
    BY <1>1, <2>2, <2>3, HalfStarts DEF Mine
  <2>5. code'[c] = Left(FullOf(kind), 0) /\ 0 \in 0 .. Len(FullOf(kind))
    <3>1. PICK S : FullOf(kind) \in Seq(S)
      BY <2>3, FullIsSeq
    <3>2. Left(FullOf(kind), 0) = FullOf(kind)
      BY <3>1, LeftAll
    <3>3. QED
      BY <1>3, <2>3, <3>1, <3>2 DEF FullOf
  <2>6. Serves(Program[c][Issued(c) + 1], kind)
    BY <1>4 DEF Serves
  <2> HIDE DEF kind
  <2>7. Issued(c)' > 0 /\ Issued(c)' - 1 = Issued(c)
    BY <1>4, <1>5
  <2>8. QED
    BY <1>4, <2>1, <2>3, <2>4, <2>5, <2>6, <2>7 DEF Working
<1>7. ASSUME dev_mutex # c PROVE Waiting(c, T[c])'
  <2>1. AtLock(prog[c])
    <3>1. Outside(c)
      BY <1>7 DEF HInv, IInv
    <3>2. code[c] # Code("LOCK")
      BY <1>1, MutexCode
    <3>3. QED
      BY <3>1, <3>2 DEF Outside
  <2>2. Head(prog[c]) = "LOCK"
    <3>1. Head(prog[c]) = prog[c][1]
      BY <1>1, <1>2, TidyTail
    <3>2. QED
      BY <1>1, <2>1, <3>1 DEF AtLock
  <2>3. code'[c] # <<>>
    BY <1>3, <2>2, MutexCode
  <2>4. Zero \in T[c][Issued(c)]
    BY <1>1, <1>5, <1>7 DEF Follows, Waiting
  <2>5. Issued(c)' > 0 /\ Issued(c)' - 1 = Issued(c)
    BY <1>4, <1>5
  <2>6. QED
    BY <1>4, <2>2, <2>3, <2>4, <2>5 DEF Waiting
<1>8. Follows(c, T[c])'
  <2>1. Issued(c)' \in 0 .. Len(Program[c]) /\ prog'[c] = Left(Program[c], Issued(c)')
    BY <1>4, <1>5
  <2>2. QED
    BY <1>1, <1>6, <1>7, <2>1 DEF Follows
<1>9. \A d \in Clients \ {c} : code'[d] = code[d] /\ prog'[d] = prog[d]
  BY <1>2 DEF Ioctl
<1>10. \A d \in (Clients \ early) \ {c} : Follows(d, T[d])'
  BY <1>1, <1>9, OthersFollow
<1>11. RegsOK'
  BY <1>1 DEF HInv, RegsOK
<1>12. Loading'
  <2>1. "irq" \in registered
    BY <1>1 DEF HInv, Loading
  <2>2. QED
    BY <1>1, <2>1 DEF HInv, Loading
<1>13. QED
  BY <1>1, <1>8, <1>10, <1>11, <1>12 DEF Rest

(* A session starts with clean data and leaves clean data.                   *)
LEMMA FollowMutexLock ==
  ASSUME NEW T, Outlines(T), HInv(T), NEW c \in Clients \ early, MutexLock(c)
  PROVE  Rest(T)'
<1>1. /\ At(c, "mutex_lock", 0) /\ Advance(c) /\ dev_mutex = "none" /\ dev_mutex' = c
      /\ UNCHANGED <<mod, registered, early, num, sum, reg, acc, prog, running>>
  BY DEF MutexLock, modVars, dataVars, procVars, regVars
<1>2. c # "none" /\ DOMAIN code = Clients /\ Clean /\ Outside(c) /\ Follows(c, T[c])
  BY <1>1, IrqDriverAssumption DEF HInv, IInv
<1>3. code[c] = Code("LOCK") /\ code[c] # <<>>
  BY <1>1, <1>2 DEF Outside, At
<1>4. /\ Issued(c) > 0 /\ Program[c][Issued(c)] = "LOCK" /\ Zero \in T[c][Issued(c) - 1]
      /\ Issued(c) \in 0 .. Len(Program[c]) /\ prog[c] = Left(Program[c], Issued(c))
  BY <1>1, <1>2, <1>3 DEF Follows, Waiting
<1>5. code'[c] = <<>>
  <2>1. code[c] = <<<<"mutex_lock", 0>>>>
    BY <1>3, MutexCode
  <2>2. Tail(code[c]) = <<>>
    BY <2>1
  <2>3. QED
    BY <1>1, <1>2, <2>2 DEF Advance
<1>6. "LOCK" \in Quiet /\ "LOCK" \in Kinds /\ Zero \in Data
  BY DEF Quiet, Kinds, Commands, Zero, Data
<1>7. code'[c] = Left(FullOf("LOCK"), 1) /\ 1 \in 0 .. Len(FullOf("LOCK"))
  BY <1>5, <1>6, QuietDone, QuietCode
<1>8. Half("LOCK", Zero, 1, Mine(c)')
  <2>1. (\A x \in Counters : Mine(c)'.num[x] = Zero.num[x]) /\ Mine(c)'.sum = Zero.sum
    BY <1>1, <1>2 DEF Clean, Mine, Zero
  <2>2. QED
    BY <1>6, <2>1, HalfQuiet
<1>9. Issued(c)' = Issued(c) /\ Serves("LOCK", "LOCK")
  BY <1>1 DEF Issued, Serves
<1>10. Working(c, T[c])'
  BY <1>4, <1>6, <1>7, <1>8, <1>9 DEF Working
<1>11. Follows(c, T[c])'
  BY <1>1, <1>4, <1>9, <1>10 DEF Follows
<1>12. \A d \in Clients \ {c} : code'[d] = code[d]
  BY <1>1, <1>2 DEF Advance
<1>13. {dev_mutex, dev_mutex'} \subseteq {c, "none"}
  BY <1>1
<1>14. \A d \in (Clients \ early) \ {c} : Follows(d, T[d])'
  BY <1>1, <1>12, <1>13, OthersFollow
<1>15. RegsOK'
  BY <1>1 DEF HInv, RegsOK
<1>16. Loading'
  <2>1. "irq" \in registered
    BY <1>3 DEF HInv, Loading
  <2>2. QED
    BY <1>1, <2>1 DEF HInv, Loading
<1>17. QED
  BY <1>1, <1>11, <1>14, <1>15, <1>16 DEF Rest

LEMMA FollowMutexUnlock ==
  ASSUME NEW T, Outlines(T), HInv(T), NEW c \in Clients \ early, MutexUnlock(c)
  PROVE  Rest(T)'
<1>1. /\ At(c, "mutex_unlock", 0) /\ Advance(c) /\ dev_mutex' = "none"
      /\ UNCHANGED <<mod, registered, early, num, sum, reg, acc, prog, running>>
  BY DEF MutexUnlock, modVars, dataVars, procVars, regVars
<1>2. c # "none" /\ DOMAIN code = Clients /\ IInv
  BY IrqDriverAssumption DEF HInv, IInv
<1>3. dev_mutex = c /\ Clean /\ code[c] = Code("UNLOCK")
  <2>1. code[c] # <<>> /\ Head(code[c]) = <<"mutex_unlock", 0>>
    BY <1>1 DEF At
  <2>2. code[c] # Code("LOCK")
    BY <2>1, MutexCode
  <2>3. dev_mutex = c /\ Inside(c)
    BY <1>2, <2>1, <2>2 DEF IInv, Outside
  <2>4. code[c] \notin Seq(Plain)
    <3>1. SUFFICES ASSUME code[c] \in Seq(Plain) PROVE FALSE
      OBVIOUS
    <3>2. Head(code[c]) \in Plain
      BY <2>1, <3>1
    <3>3. QED
      BY <2>1, <3>2, PlainIsPlain
  <2>5. QED
    BY <2>3, <2>4 DEF Inside, Resetting
<1>4. Follows(c, T[c])
  BY DEF HInv
<1>5. PICK d \in Data, kind \in Kinds : \E j \in 0 .. Len(FullOf(kind)) :
              /\ Effect(kind, d) \in T[c][Issued(c)]
              /\ code[c] = Left(FullOf(kind), j) /\ Half(kind, d, j, Mine(c))
  BY <1>3, HolderIs
<1>6. PICK j \in 0 .. Len(FullOf(kind)) :
              /\ Effect(kind, d) \in T[c][Issued(c)]
              /\ code[c] = Left(FullOf(kind), j) /\ Half(kind, d, j, Mine(c))
  BY <1>5
<1>7. kind = "UNLOCK" /\ j = 0
  <2>1. PICK op, i : op = "mutex_unlock" /\ i = 0
    OBVIOUS
  <2>2. At(c, op, i)
    BY <1>1, <2>1
  <2>3. /\ j \in 0 .. Len(FullOf(kind)) - 1 /\ FullOf(kind)[j + 1] = <<op, i>>
        /\ j + 1 \in 0 .. Len(FullOf(kind)) /\ Tail(code[c]) = Left(FullOf(kind), j + 1)
    BY <1>6, <2>2, Position
  <2>4. QED
    BY <2>1, <2>3, OnlyOne
<1>8. "UNLOCK" \in Quiet
  BY DEF Quiet
<1>9. d = Zero
  <2>1. Mine(c).num = num /\ Mine(c).sum = sum
    BY MineIs DEF HInv
  <2>2. (\A x \in Counters : Mine(c).num[x] = d.num[x]) /\ Mine(c).sum = d.sum
    BY <1>6, <1>7, <1>8, HalfQuiet
  <2>3. d.num = [x \in Counters |-> 0] /\ d.sum = 0
    BY <1>3, <2>1, <2>2 DEF Clean, Data
  <2>4. QED
    BY <2>3 DEF Data, Zero
<1>10. Effect("UNLOCK", Zero) = Zero
  BY DEF Effect, Zero, IncOf, Counters
<1>11. Zero \in T[c][Issued(c)]
  BY <1>6, <1>7, <1>9, <1>10
<1>12. code'[c] = <<>>
  <2>1. code[c] = <<<<"mutex_unlock", 0>>>>
    BY <1>3, MutexCode
  <2>2. Tail(code[c]) = <<>>
    BY <2>1
  <2>3. QED
    BY <1>1, <1>2, <2>2 DEF Advance
<1>13. Issued(c)' = Issued(c)
  BY <1>1 DEF Issued
<1>14. Waiting(c, T[c])'
  BY <1>11, <1>12, <1>13 DEF Waiting
<1>15. Follows(c, T[c])'
  BY <1>1, <1>2, <1>4, <1>13, <1>14 DEF Follows
<1>16. \A e \in Clients \ {c} : code'[e] = code[e]
  BY <1>1, <1>2 DEF Advance
<1>17. {dev_mutex, dev_mutex'} \subseteq {c, "none"}
  BY <1>1, <1>3
<1>18. \A e \in (Clients \ early) \ {c} : Follows(e, T[e])'
  BY <1>1, <1>16, <1>17, OthersFollow
<1>19. RegsOK'
  BY <1>1 DEF HInv, RegsOK
<1>20. Loading'
  <2>1. "irq" \in registered
    BY <1>2, <1>3 DEF HInv, Loading
  <2>2. QED
    BY <1>1, <2>1 DEF HInv, Loading
<1>21. QED
  BY <1>1, <1>15, <1>18, <1>19, <1>20 DEF Rest

(* A process that came before init was over owes nothing to its outline: it  *)
(* only has to leave the others alone.                                       *)
LEMMA EarlyMoves ==
  ASSUME NEW T, HInv(T), NEW c \in Clients, c \in early, Run(c), ~Close(c)
  PROVE  Rest(T)'
<1>1. DOMAIN code = Clients /\ DOMAIN prog = Clients /\ RegsOK /\ IInv
  BY DEF HInv, IInv
<1>2. /\ UNCHANGED <<mod, registered, early, running>>
      /\ \A d \in Clients \ {c} : code'[d] = code[d] /\ prog'[d] = prog[d]
      /\ \A d \in Clients \ {c} : reg'[d] = reg[d] /\ acc'[d] = acc[d]
      /\ RegsOK'
  <2>1. CASE Ioctl(c)
    BY <1>1, <2>1 DEF Ioctl, RegsOK, modVars, dataVars, regVars
  <2>2. ASSUME NEW i \in Counters, Load(c, i) \/ Store(c, i)
        PROVE  /\ UNCHANGED <<mod, registered, early, running, prog, acc>>
               /\ code' = [code EXCEPT ![c] = Tail(@)]
               /\ \A d \in Clients \ {c} : reg'[d] = reg[d]
               /\ RegsOK'
    <3>1. CASE Load(c, i)
      BY <1>1, <2>2, <3>1 DEF Load, Advance, RegsOK, modVars, procVars, dataVars
    <3>2. CASE Store(c, i)
      <4>1. i \in Int /\ reg[c] \in Int
        BY <1>1 DEF RegsOK, Counters
      <4>2. QED
        BY <1>1, <2>2, <3>2, <4>1 DEF Store, Advance, RegsOK, modVars, procVars, regVars
    <3>3. QED
      BY <2>2, <3>1, <3>2
  <2>3. ASSUME \/ Accumulate(c) \/ PutSum(c) \/ Printk(c)
               \/ MutexLock(c) \/ MutexUnlock(c)
               \/ SpinLock(c) \/ SpinUnlock(c) \/ Iret(c)
        PROVE  /\ UNCHANGED <<mod, registered, early, running, prog, reg, num>>
               /\ code' = [code EXCEPT ![c] = Tail(@)]
    BY <2>3 DEF Accumulate, PutSum, Printk, MutexLock, MutexUnlock, SpinLock, SpinUnlock,
       Iret, Advance, modVars, procVars, dataVars, regVars
  <2>4. CASE Accumulate(c)
    <3>1. sum' = sum /\ \E z \in Int : acc' = [acc EXCEPT ![c] = z]
      BY <1>1, <2>4 DEF Accumulate, RegsOK, dataVars
    <3>2. QED
      BY <1>1, <2>3, <2>4, <3>1 DEF RegsOK
  <2>5. CASE PutSum(c)
    <3>1. sum' = acc[c] /\ acc' = acc
      BY <2>5 DEF PutSum, regVars
    <3>2. QED
      BY <1>1, <2>3, <2>5, <3>1 DEF RegsOK
  <2>6. CASE \/ Printk(c) \/ MutexLock(c) \/ MutexUnlock(c)
             \/ SpinLock(c) \/ SpinUnlock(c) \/ Iret(c)
    <3>1. sum' = sum /\ acc' = acc
      BY <2>6 DEF Printk, MutexLock, MutexUnlock, SpinLock, SpinUnlock, Iret, dataVars, regVars
    <3>2. QED
      BY <1>1, <2>3, <2>6, <3>1 DEF RegsOK
  <2>7. CASE Interrupt(c)
    <3>1. /\ UNCHANGED <<mod, registered, early, running, prog, reg, acc, num, sum>>
          /\ \E q : code' = [code EXCEPT ![c] = q]
      BY <2>7 DEF Interrupt, Advance, modVars, procVars, dataVars, regVars
    <3>2. QED
      BY <1>1, <3>1 DEF RegsOK
  <2>8. QED
    BY <1>1, <2>1, <2>2, <2>4, <2>5, <2>6, <2>7 DEF Run
<1>3. dev_mutex' = dev_mutex \/ {dev_mutex, dev_mutex'} \subseteq {c, "none"}
  <2>1. CASE MutexLock(c)
    BY <2>1 DEF MutexLock
  <2>2. CASE MutexUnlock(c)
    <3>1. At(c, "mutex_unlock", 0) /\ dev_mutex' = "none"
      BY <2>2 DEF MutexUnlock
    <3>2. code[c] # <<>> /\ code[c] # Code("LOCK")
      BY <3>1, MutexCode DEF At
    <3>3. dev_mutex = c
      BY <1>1, <3>2 DEF IInv, Outside
    <3>4. QED
      BY <3>1, <3>3
  <2>3. ASSUME ~MutexLock(c), ~MutexUnlock(c) PROVE dev_mutex' = dev_mutex
    BY <2>3 DEF Run, Ioctl, Load, Store, Accumulate, PutSum, Printk, Interrupt, SpinLock,
       SpinUnlock, Iret, lockVars
  <2>4. QED
    BY <2>1, <2>2, <2>3
<1>4. dev_mutex \notin {c, "none"} => UNCHANGED <<num, sum>>
  <2>1. ASSUME NEW i \in Counters, Store(c, i) PROVE dev_mutex = c
    <3>1. PICK op \in {"store", "zero", "minus"} : At(c, op, i)
      BY <2>1 DEF Store
    <3>2. QED
      BY <1>1, <3>1, HolderWorks
  <2>2. ASSUME PutSum(c) PROVE dev_mutex = c
    <3>1. PICK op, i : op = "put" /\ i = 0
      OBVIOUS
    <3>2. At(c, op, i)
      BY <2>2, <3>1 DEF PutSum
    <3>3. QED
      BY <1>1, <3>1, <3>2, HolderWorks
  <2>3. ASSUME \A i \in Counters : ~Store(c, i), ~PutSum(c) PROVE UNCHANGED <<num, sum>>
    BY <2>3 DEF Run, Ioctl, Load, Accumulate, Printk, MutexLock, MutexUnlock, Interrupt,
       SpinLock, SpinUnlock, Iret, dataVars
  <2>4. QED
    BY <2>1, <2>2, <2>3
<1>5. \A d \in (Clients \ early) \ {c} : Follows(d, T[d])'
  BY <1>2, <1>3, <1>4, OthersFollow
<1>6. Loading'
  BY <1>2, <1>3 DEF HInv, Loading
<1>7. QED
  BY <1>2, <1>5, <1>6 DEF Rest

(* Everything that leaves the processes where they are: init, exit, open,    *)
(* close and kill.                                                           *)
LEMMA FollowAside ==
  ASSUME NEW T, HInv(T), early \subseteq early',
         UNCHANGED <<num, sum, reg, acc, dev_mutex, code, prog>>, Loading'
  PROVE  Rest(T)'
<1>1. RegsOK'
  BY DEF HInv, RegsOK
<1>2. ASSUME NEW c \in Clients \ early PROVE Follows(c, T[c])'
  BY DEF HInv, Follows, Working, Waiting, Issued, Mine
<1>3. QED
  BY <1>1, <1>2 DEF Rest

(* Init zeroes the counters before any process but the early ones is there.  *)
LEMMA FollowModule ==
  ASSUME NEW T, HInv(T),
         InitCdev \/ InitData \/ InitIrq \/ InitVector \/ ModuleExit
  PROVE  Rest(T)'
<1>1. UNCHANGED <<reg, acc, dev_mutex, code, prog, running, early>>
  BY DEF InitCdev, InitData, InitIrq, InitVector, ModuleExit, lockVars, procVars,
     regVars, dataVars
<1>2. Loading'
  BY <1>1 DEF InitCdev, InitData, InitIrq, InitVector, ModuleExit, HInv, Loading
<1>3. CASE InitData
  <2>1. RegsOK'
    <3>1. num' \in [Counters -> Int] /\ sum' \in Int
      BY <1>3 DEF InitData, HInv, RegsOK
    <3>2. QED
      BY <1>1, <3>1 DEF HInv, RegsOK
  <2>2. ASSUME NEW c \in Clients \ early PROVE Follows(c, T[c])'
    <3>1. dev_mutex # c
      BY <1>3, IrqDriverAssumption DEF InitData, HInv, Loading
    <3>2. QED
      BY <1>1, <3>1 DEF HInv, Follows, Waiting, Issued
  <2>3. QED
    BY <1>1, <1>2, <2>1, <2>2 DEF Rest
<1>4. CASE ~InitData
  <2>1. UNCHANGED <<num, sum>>
    BY <1>4 DEF InitCdev, InitIrq, InitVector, ModuleExit, dataVars
  <2>2. QED
    BY <1>1, <1>2, <2>1, FollowAside
<1>5. QED
  BY <1>3, <1>4

LEMMA FollowProcess ==
  ASSUME NEW T, HInv(T), NEW c \in Clients, Open(c) \/ Close(c) \/ Kill(c)
  PROVE  Rest(T)'
<1>1. /\ UNCHANGED <<mod, registered, num, sum, reg, acc, dev_mutex, code, prog>>
      /\ early \subseteq early'
  BY DEF Open, Close, Kill, modVars, dataVars, lockVars, regVars
<1>2. Loading'
  <2>1. CASE Open(c)
    BY <1>1, <2>1 DEF Open, HInv, Loading
  <2>2. CASE Close(c) \/ Kill(c)
    BY <1>1, <2>2 DEF Close, Kill, HInv, Loading
  <2>3. QED
    BY <2>1, <2>2
<1>3. QED
  BY <1>1, <1>2, FollowAside

-------------------------------------------------------------------------------
LEMMA FollowInit ==
  ASSUME NEW T, Outlines(T), \A c \in Clients : Careful(Program[c]), Init
  PROVE  HInv(T)
<1>1. IInv
  BY InitHolds
<1>2. RegsOK
  BY DEF Init, RegsOK, Counters
<1>3. Loading
  BY DEF Init, Loading
<1>4. ASSUME NEW c \in Clients PROVE Follows(c, T[c])
  <2>1. Program[c] \in Seq(Commands) /\ prog[c] = Program[c]
    BY IrqDriverAssumption DEF Init
  <2>2. Issued(c) = 0 /\ 0 \in 0 .. Len(Program[c])
    BY <2>1 DEF Issued
  <2>3. prog[c] = Left(Program[c], 0)
    BY <2>1, LeftAll
  <2>4. dev_mutex # c /\ code[c] = <<>>
    BY IrqDriverAssumption DEF Init
  <2>5. Zero \in T[c][0]
    BY DEF Outlines, Outline
  <2>6. Waiting(c, T[c])
    BY <2>2, <2>4, <2>5 DEF Waiting
  <2>7. QED
    BY <2>2, <2>3, <2>4, <2>6 DEF Follows
<1>5. QED
  BY <1>1, <1>2, <1>3, <1>4 DEF HInv

LEMMA FollowNext ==
  ASSUME NEW T, Outlines(T), HInv(T), [Next]_vars
  PROVE  HInv(T)'
<1>1. IInv'
  BY NextKeeps DEF HInv
<1>2. CASE UNCHANGED vars
  <2>1. UNCHANGED <<mod, registered, running, early, num, sum, reg, acc, dev_mutex, code, prog>>
    BY <1>2 DEF vars
  <2>2. Loading'
    BY <2>1 DEF HInv, Loading
  <2>3. QED
    BY <1>1, <2>1, <2>2, FollowAside DEF HInv, Rest
<1>3. CASE InitCdev \/ InitData \/ InitIrq \/ InitVector \/ ModuleExit
  BY <1>1, <1>3, FollowModule DEF HInv, Rest
<1>4. ASSUME NEW c \in Clients, Open(c) \/ Run(c) \/ Kill(c) PROVE Rest(T)'
  <2>1. CASE Open(c) \/ Close(c) \/ Kill(c)
    BY <2>1, FollowProcess
  <2>0. CASE c \in early /\ Run(c) /\ ~Close(c)
    BY <2>0, EarlyMoves
  <2> SUFFICES ASSUME c \in Clients \ early PROVE Rest(T)'
    BY <1>4, <2>0, <2>1
  <2>2. CASE Ioctl(c)
    BY <2>2, FollowIoctl
  <2>3. CASE \E i \in Counters : Load(c, i) \/ Store(c, i)
    BY <2>3, FollowLoad, FollowStore
  <2>4. CASE Accumulate(c)
    BY <2>4, FollowAccumulate
  <2>5. CASE PutSum(c)
    BY <2>5, FollowPutSum
  <2>6. CASE Printk(c) \/ SpinLock(c) \/ SpinUnlock(c) \/ Iret(c)
    <3>1. /\ Advance(c)
          /\ UNCHANGED <<mod, registered, early, prog, dev_mutex, num, sum, reg, acc>>
      BY <2>6 DEF Printk, SpinLock, SpinUnlock, Iret, modVars, dataVars, procVars,
         lockVars, regVars
    <3>2. PICK op, i : op \in {"print", "spin_lock", "spin_unlock", "iret"} /\ At(c, op, i)
      BY <2>6 DEF Printk, SpinLock, SpinUnlock, Iret
    <3>3. QED
      BY <3>1, <3>2, FollowIdle
  <2>7. CASE MutexLock(c)
    BY <2>7, FollowMutexLock
  <2>8. CASE MutexUnlock(c)
    BY <2>8, FollowMutexUnlock
  <2>9. CASE Interrupt(c)
    BY <2>9, FollowInterrupt
  <2>10. QED
    BY <1>4, <2>1, <2>2, <2>3, <2>4, <2>5, <2>6, <2>7, <2>8, <2>9 DEF Run
<1>5. QED
  <2>1. Rest(T)' => HInv(T)'
    BY <1>1 DEF HInv, Rest
  <2>2. QED
    BY <1>2, <1>3, <1>4, <2>1 DEF Next

(* Whatever can be shown of each careful program run alone, command by       *)
(* command, holds of it when all of them run at once, access by access, with *)
(* the handler of its interrupt (driver.c:85-187), and with processes that   *)
(* came before init was over: init may spoil their work (driver.c:227-230),  *)
(* but they do not spoil anybody else's.                                     *)
THEOREM OutlinesHold ==
  ASSUME NEW T, Outlines(T), \A c \in Clients : Careful(Program[c])
  PROVE  Spec => []HInv(T)
<1>1. Init => HInv(T)
  BY FollowInit
<1>2. HInv(T) /\ [Next]_vars => HInv(T)'
  BY FollowNext
<1>3. QED
  BY <1>1, <1>2, PTL DEF Spec

LEMMA HolderSees ==
  ASSUME NEW T, Outlines(T), HInv(T)
  PROVE  SeesOwnWork(T)
<1> SUFFICES ASSUME NEW c \in Clients \ early, dev_mutex = c
             PROVE  \E d \in T[c][Issued(c) - 1], e \in T[c][Issued(c)] :
                      /\ \A x \in Counters : num[x] \in {d.num[x], e.num[x]}
                      /\ sum \in {d.sum, e.sum}
                      /\ code[c] = <<>> =>
                           [num |-> num, sum |-> sum] \in T[c][Issued(c)]
  BY DEF SeesOwnWork
<1>1. PICK d \in Data, kind \in Kinds : \E j \in 0 .. Len(FullOf(kind)) :
        /\ d \in T[c][Issued(c) - 1] /\ Effect(kind, d) \in T[c][Issued(c)]
        /\ Half(kind, d, j, Mine(c))
  BY HolderIs
<1>2. PICK j : Half(kind, d, j, Mine(c))
  BY <1>1
<1>3. Mine(c).num = num /\ Mine(c).sum = sum
  BY MineIs DEF HInv
<1> DEFINE e == Effect(kind, d)
<1> HIDE DEF e
<1>4. (\A x \in Counters : num[x] \in {d.num[x], e.num[x]}) /\ sum \in {d.sum, e.sum}
  BY <1>2, <1>3 DEF Half, e
<1>5. code[c] = <<>> => [num |-> num, sum |-> sum] \in T[c][Issued(c)]
  BY HolderDone
<1>6. d \in T[c][Issued(c) - 1] /\ e \in T[c][Issued(c)]
  BY <1>1 DEF e
<1>7. QED
  BY <1>4, <1>5, <1>6

(* The session of a process that came after init is serial: no counter and   *)
(* no sum ever has a value that its program, run alone, would not have just  *)
(* before or just after the same command (driver.c:139-176).                 *)
THEOREM SessionsAreSerial ==
  ASSUME NEW T, Outlines(T), \A c \in Clients : Careful(Program[c])
  PROVE  Spec => []SeesOwnWork(T)
<1>1. HInv(T) => SeesOwnWork(T)
  BY HolderSees
<1>2. QED
  BY <1>1, OutlinesHold, PTL

-------------------------------------------------------------------------------
(* The outlines of ioctl_test.c.  After m commands of the rounds of five     *)
(* increments and a SUM, and after INC_ALL.                                  *)
Clip(m) == IF m < 0 THEN 0 ELSE IF m > 5 THEN 5 ELSE m
Filled(m) ==
  [num |-> [x \in Counters |-> Clip(m - 6 * x)],
   sum |-> IF m < 6 THEN 0 ELSE IF m < 12 THEN 5 ELSE IF m < 18 THEN 10
           ELSE IF m < 24 THEN 15 ELSE IF m < 30 THEN 20 ELSE 25]
Level(n, s) == [num |-> [x \in Counters |-> n], sum |-> s]
OfParent ==
  [k \in 0 .. 27 |->
     {IF k \in 1 .. 19 THEN Filled(k - 1) ELSE IF k = 20 THEN Filled(18)
      ELSE IF k = 22 THEN Level(1, 0) ELSE IF k = 23 THEN Level(2, 0)
      ELSE IF k \in {24, 25} THEN Level(2, 10) ELSE Zero}]
OfChild ==
  [k \in 0 .. 36 |->
     IF k = 2 THEN {Zero, Effect("IRQ", Zero)}
     ELSE {IF k \in 3 .. 33 THEN Filled(k - 3) ELSE IF k = 34 THEN Filled(30)
           ELSE Zero}]
OutlineOf(p) == IF p = Parent THEN OfParent ELSE OfChild
Tests == [c \in Clients |-> OutlineOf(Program[c])]

-------------------------------------------------------------------------------
(* The commands of ioctl_test.c, by position.                                *)
LEMMA ParentIs ==
  /\ Parent \in Seq(Commands) /\ Len(Parent) = 27
  /\ \A x \in 0 .. 2 : \A n \in 0 .. 4 : Parent[6 * x + n + 2] = IncOf(x)
  /\ \A x \in 0 .. 2 : Parent[6 * x + 7] = "SUM"
  /\ Parent[1] = "LOCK" /\ Parent[20] = "PRINT0" /\ Parent[21] = "RESET"
  /\ Parent[22] = "INC_ALL" /\ Parent[23] = "INC_ALL" /\ Parent[24] = "SUM"
  /\ Parent[25] = "PRINT1" /\ Parent[26] = "RESET" /\ Parent[27] = "UNLOCK"
<1>1. Parent \in Seq(Commands)
  BY SMTT(60) DEF Parent, Five, Commands
<1>2. Len(Parent) = 27
  BY SMTT(60) DEF Parent, Five
<1>3. /\ Parent[1] = "LOCK" /\ Parent[20] = "PRINT0" /\ Parent[21] = "RESET"
      /\ Parent[22] = "INC_ALL" /\ Parent[23] = "INC_ALL" /\ Parent[24] = "SUM"
      /\ Parent[25] = "PRINT1" /\ Parent[26] = "RESET" /\ Parent[27] = "UNLOCK"
  BY SMTT(60) DEF Parent, Five
<1>4. /\ Parent[2] = "INC_0" /\ Parent[3] = "INC_0" /\ Parent[4] = "INC_0"
      /\ Parent[5] = "INC_0" /\ Parent[6] = "INC_0" /\ Parent[7] = "SUM"
      /\ Parent[8] = "INC_1" /\ Parent[9] = "INC_1" /\ Parent[10] = "INC_1"
      /\ Parent[11] = "INC_1" /\ Parent[12] = "INC_1" /\ Parent[13] = "SUM"
      /\ Parent[14] = "INC_2" /\ Parent[15] = "INC_2" /\ Parent[16] = "INC_2"
      /\ Parent[17] = "INC_2" /\ Parent[18] = "INC_2" /\ Parent[19] = "SUM"
  BY SMTT(60) DEF Parent, Five
<1>5. \A n \in 0 .. 4 : n \in {0, 1, 2, 3, 4}
  OBVIOUS
<1>6. \A x \in 0 .. 2 : Parent[6 * x + 7] = "SUM"
  BY <1>4
<1>7. \A x \in 0 .. 2 : \A n \in 0 .. 4 : Parent[6 * x + n + 2] = IncOf(x)
  BY <1>4, <1>5 DEF IncOf
<1>8. QED
  BY <1>1, <1>2, <1>3, <1>6, <1>7

LEMMA ChildIs ==
  /\ Child \in Seq(Commands) /\ Len(Child) = 36
  /\ \A x \in Counters : \A n \in 0 .. 4 : Child[6 * x + n + 4] = IncOf(x)
  /\ \A x \in Counters : Child[6 * x + 9] = "SUM"
  /\ Child[1] = "LOCK" /\ Child[2] = "INT" /\ Child[3] = "RESET"
  /\ Child[34] = "PRINT2" /\ Child[35] = "RESET" /\ Child[36] = "UNLOCK"
<1>1. Child \in Seq(Commands)
  BY SMTT(60) DEF Child, Five, Commands
<1>2. Len(Child) = 36
  BY SMTT(60) DEF Child, Five
<1>3. /\ Child[1] = "LOCK" /\ Child[2] = "INT" /\ Child[3] = "RESET"
      /\ Child[34] = "PRINT2" /\ Child[35] = "RESET" /\ Child[36] = "UNLOCK"
  BY SMTT(60) DEF Child, Five
<1>4. /\ Child[4] = "INC_0" /\ Child[5] = "INC_0" /\ Child[6] = "INC_0"
      /\ Child[7] = "INC_0" /\ Child[8] = "INC_0" /\ Child[9] = "SUM"
      /\ Child[10] = "INC_1" /\ Child[11] = "INC_1" /\ Child[12] = "INC_1"
      /\ Child[13] = "INC_1" /\ Child[14] = "INC_1" /\ Child[15] = "SUM"
      /\ Child[16] = "INC_2" /\ Child[17] = "INC_2" /\ Child[18] = "INC_2"
      /\ Child[19] = "INC_2" /\ Child[20] = "INC_2" /\ Child[21] = "SUM"
  BY SMTT(60) DEF Child, Five
<1>5. /\ Child[22] = "INC_3" /\ Child[23] = "INC_3" /\ Child[24] = "INC_3"
      /\ Child[25] = "INC_3" /\ Child[26] = "INC_3" /\ Child[27] = "SUM"
      /\ Child[28] = "INC_4" /\ Child[29] = "INC_4" /\ Child[30] = "INC_4"
      /\ Child[31] = "INC_4" /\ Child[32] = "INC_4" /\ Child[33] = "SUM"
  BY SMTT(60) DEF Child, Five
<1>6. \A x \in Counters : Child[6 * x + 9] = "SUM"
  BY <1>4, <1>5 DEF Counters
<1>7. \A x \in Counters : \A n \in 0 .. 4 : Child[6 * x + n + 4] = IncOf(x)
  BY <1>4, <1>5 DEF IncOf, Counters
<1>8. QED
  BY <1>1, <1>2, <1>3, <1>6, <1>7

-------------------------------------------------------------------------------
(* What the programs of ioctl_test.c make of the data.                       *)
LEMMA FilledIsData == \A m \in Int : Filled(m) \in Data
<1> SUFFICES ASSUME NEW m \in Int PROVE Filled(m) \in Data
  OBVIOUS
<1>1. \A x \in Counters : Clip(m - 6 * x) \in Int
  BY DEF Clip, Counters
<1>2. QED
  BY <1>1 DEF Filled, Data

LEMMA IncOnlyOf ==
  ASSUME NEW x \in Counters, NEW d, NEW y \in Counters
  PROVE  /\ Effect(IncOf(x), d).num[y] = IF y = x THEN d.num[y] + 1 ELSE d.num[y]
         /\ Effect(IncOf(x), d).sum = d.sum
<1>1. IncOf(x) = IncOf(y) <=> x = y
  BY DEF IncOf, Counters
<1>2. IncOf(x) \notin {"INC_ALL", "RESET", "IRQ", "SUM"}
  BY DEF IncOf, Counters
<1>3. QED
  BY <1>1, <1>2 DEF Effect

LEMMA LevelIsData == \A n \in Int, s \in Int : Level(n, s) \in Data
BY DEF Level, Data

LEMMA ZeroIs == Zero \in Data /\ Zero = Filled(0)
BY SMTT(30) DEF Zero, Data, Filled, Clip, Counters

LEMMA DataEqual ==
  ASSUME NEW d \in Data, NEW e \in Data, d.sum = e.sum,
         \A x \in Counters : d.num[x] = e.num[x]
  PROVE  d = e
BY DEF Data

LEMMA RoundOfFive ==
  ASSUME NEW x \in Counters, NEW n \in 0 .. 4
  PROVE  Effect(IncOf(x), Filled(6 * x + n)) = Filled(6 * x + n + 1)
<1> DEFINE d == Filled(6 * x + n)  e == Filled(6 * x + n + 1)
           f == Effect(IncOf(x), d)
<1>1. 6 * x + n \in Int /\ 6 * x + n + 1 \in Int
  BY DEF Counters
<1>2. d \in Data /\ e \in Data
  BY <1>1, FilledIsData
<1>3. f \in Data
  BY <1>2, EffectIsData, IncsAre, KindsAre
<1>4. ASSUME NEW y \in Counters PROVE f.num[y] = e.num[y]
  <2>1. /\ d.num[y] = Clip((6 * x + n) - 6 * y) /\ e.num[y] = Clip((6 * x + n + 1) - 6 * y)
    <3>1. \A m : Filled(m).num[y] = Clip(m - 6 * y)
      BY DEF Filled
    <3>2. QED
      BY <3>1
  <2>2. f.num[y] = IF y = x THEN d.num[y] + 1 ELSE d.num[y]
    BY IncOnlyOf
  <2>3. CASE y = x
    <3>1. (6 * x + n) - 6 * y = n /\ (6 * x + n + 1) - 6 * y = n + 1
      BY <2>3 DEF Counters
    <3>2. Clip(n) = n /\ Clip(n + 1) = n + 1
      BY DEF Clip
    <3>3. QED
      BY <2>1, <2>2, <2>3, <3>1, <3>2
  <2>4. CASE y # x
    <3>1. Clip((6 * x + n) - 6 * y) = Clip((6 * x + n + 1) - 6 * y)
      BY <2>4 DEF Clip, Counters
    <3>2. QED
      BY <2>1, <2>2, <2>4, <3>1
  <2>5. QED
    BY <2>3, <2>4
<1>5. f.sum = e.sum
  <2>1. f.sum = d.sum
    BY IncOnlyOf
  <2>2. d.sum = e.sum
    BY DEF Filled, Counters
  <2>3. QED
    BY <2>1, <2>2
<1>6. QED
  BY <1>2, <1>3, <1>4, <1>5, DataEqual

LEMMA RoundIsSummed ==
  ASSUME NEW x \in Counters
  PROVE  Effect("SUM", Filled(6 * x + 5)) = Filled(6 * x + 6)
<1> DEFINE d == Filled(6 * x + 5)  e == Filled(6 * x + 6)  f == Effect("SUM", d)
<1>1. 6 * x + 5 \in Int /\ 6 * x + 6 \in Int
  BY DEF Counters
<1>2. d \in Data /\ e \in Data
  BY <1>1, FilledIsData
<1>3. f \in Data
  BY <1>2, EffectIsData, KindsAre
<1>4. \A y \in Counters : /\ d.num[y] = IF y <= x THEN 5 ELSE 0
                          /\ e.num[y] = IF y <= x THEN 5 ELSE 0
  BY DEF Filled, Clip, Counters
<1>5. \A y \in Counters : f.num[y] = d.num[y]
  BY DEF Effect, IncOf, Counters
<1>6. f.sum = e.sum
  <2>1. f.sum = Part(d.num, 5)
    BY DEF Effect
  <2>2. Part(d.num, 5) = 5 * (x + 1)
    BY <1>4 DEF Part, Counters
  <2>3. e.sum = 5 * (x + 1)
    BY DEF Filled, Counters
  <2>4. QED
    BY <2>1, <2>2, <2>3
<1>7. QED
  BY <1>2, <1>3, <1>4, <1>5, <1>6, DataEqual

LEMMA OthersMake ==
  /\ \A d \in Data : Effect("RESET", d) = Zero
  /\ \A kind \in Quiet : \A d \in Data : Effect(kind, d) = d
  /\ Effect("INC_ALL", Zero) = Level(1, 0) /\ Effect("INC_ALL", Level(1, 0)) = Level(2, 0)
  /\ Effect("SUM", Level(2, 0)) = Level(2, 10)
<1>1. ASSUME NEW d \in Data PROVE Effect("RESET", d) = Zero
  BY DEF Effect, Zero, IncOf, Counters
<1>2. ASSUME NEW kind \in Quiet, NEW d \in Data PROVE Effect(kind, d) = d
  <2>1. Effect(kind, d) \in Data
    BY EffectIsData, KindsAre
  <2>2. Effect(kind, d).sum = d.sum /\ \A x \in Counters : Effect(kind, d).num[x] = d.num[x]
    BY DEF Effect, Quiet, IncOf, Counters
  <2>3. QED
    BY <2>1, <2>2, DataEqual
<1>3. Effect("INC_ALL", Zero) = Level(1, 0)
  BY DEF Effect, Zero, Level, IncOf, Counters
<1>4. Effect("INC_ALL", Level(1, 0)) = Level(2, 0)
  BY DEF Effect, Level, IncOf, Counters
<1>5. Effect("SUM", Level(2, 0)) = Level(2, 10)
  BY DEF Effect, Level, Part, IncOf, Counters
<1>6. QED
  BY <1>1, <1>2, <1>3, <1>4, <1>5

LEMMA ParentAt ==
  ASSUME NEW k \in 1 .. 27
  PROVE  \/ k \in {1, 20, 21, 22, 23, 24, 25, 26, 27}
         \/ \E x \in 0 .. 2 : k = 6 * x + 7 \/ \E n \in 0 .. 4 : k = 6 * x + n + 2
<1>1. PICK x \in 0 .. 2 : k \in 6 * x + 2 .. 6 * x + 7 \/ k \in {1} \cup 20 .. 27
  OBVIOUS
<1>2. CASE k \in 6 * x + 2 .. 6 * x + 6
  <2>1. k - (6 * x + 2) \in 0 .. 4 /\ k = 6 * x + (k - (6 * x + 2)) + 2
    BY <1>2
  <2>2. QED
    BY <2>1
<1>3. QED
  BY <1>1, <1>2

LEMMA ChildAt ==
  ASSUME NEW k \in 1 .. 36
  PROVE  \/ k \in {1, 2, 3, 34, 35, 36}
         \/ \E x \in Counters : k = 6 * x + 9 \/ \E n \in 0 .. 4 : k = 6 * x + n + 4
<1>1. PICK x \in Counters : k \in 6 * x + 4 .. 6 * x + 9 \/ k \in 1 .. 3 \/ k \in 34 .. 36
  BY DEF Counters
<1>2. CASE k \in 6 * x + 4 .. 6 * x + 8
  <2>1. k - (6 * x + 4) \in 0 .. 4 /\ k = 6 * x + (k - (6 * x + 4)) + 4
    BY <1>2 DEF Counters
  <2>2. QED
    BY <2>1
<1>3. CASE k \in 1 .. 3 \/ k \in 34 .. 36
  BY <1>3
<1>4. CASE k = 6 * x + 9
  BY <1>4
<1>5. k \in 6 * x + 4 .. 6 * x + 9 => k \in 6 * x + 4 .. 6 * x + 8 \/ k = 6 * x + 9
  BY DEF Counters
<1>6. QED
  BY <1>1, <1>2, <1>3, <1>4, <1>5

LEMMA CarefulParent == Careful(Parent)
<1>1. Len(Parent) = 27 /\ Parent[1] = "LOCK" /\ Parent[27] = "UNLOCK" /\ Parent[26] = "RESET"
  BY ParentIs
<1>2. ASSUME NEW k \in 1 .. 27
      PROVE  (Parent[k] = "LOCK" <=> k = 1) /\ (Parent[k] = "UNLOCK" <=> k = 27)
  <2>1. CASE k \in {1, 20, 21, 22, 23, 24, 25, 26, 27}
    BY <2>1, ParentIs
  <2>2. CASE \E x \in 0 .. 2 : k = 6 * x + 7 \/ \E n \in 0 .. 4 : k = 6 * x + n + 2
    <3>1. PICK x \in 0 .. 2 : k = 6 * x + 7 \/ \E n \in 0 .. 4 : k = 6 * x + n + 2
      BY <2>2
    <3>2. Parent[k] \in {"SUM", IncOf(x)} /\ k \in 2 .. 19
      <4>1. Parent[k] \in {"SUM", IncOf(x)}
        BY <3>1, ParentIs
      <4>2. k \in 2 .. 19
        BY <3>1
      <4>3. QED
        BY <4>1, <4>2
    <3>3. IncOf(x) \notin {"LOCK", "UNLOCK"}
      BY DEF IncOf
    <3>4. QED
      BY <3>2, <3>3
  <2>3. QED
    BY <2>1, <2>2, ParentAt
<1>3. ASSUME NEW k \in 1 .. 26
      PROVE  /\ Parent[k] = "UNLOCK" <=> Parent[k + 1] = "LOCK"
             /\ Parent[k + 1] = "UNLOCK" => Parent[k] = "RESET"
  <2>1. k \in 1 .. 27 /\ k + 1 \in 1 .. 27 /\ k # 27 /\ k + 1 # 1
    OBVIOUS
  <2>2. Parent[k] # "UNLOCK" /\ Parent[k + 1] # "LOCK"
    BY <1>2, <2>1
  <2>3. Parent[k + 1] = "UNLOCK" => k = 26
    <3>1. Parent[k + 1] = "UNLOCK" => k + 1 = 27
      BY <1>2, <2>1
    <3>2. QED
      BY <3>1
  <2>4. QED
    BY <1>1, <2>2, <2>3
<1>4. QED
  BY <1>1, <1>3 DEF Careful

LEMMA CarefulChild == Careful(Child)
<1>1. Len(Child) = 36 /\ Child[1] = "LOCK" /\ Child[36] = "UNLOCK" /\ Child[35] = "RESET"
  BY ChildIs
<1>2. ASSUME NEW k \in 1 .. 36
      PROVE  (Child[k] = "LOCK" <=> k = 1) /\ (Child[k] = "UNLOCK" <=> k = 36)
  <2>1. CASE k \in {1, 2, 3, 34, 35, 36}
    BY <2>1, ChildIs
  <2>2. CASE \E x \in Counters : k = 6 * x + 9 \/ \E n \in 0 .. 4 : k = 6 * x + n + 4
    <3>1. PICK x \in Counters : k = 6 * x + 9 \/ \E n \in 0 .. 4 : k = 6 * x + n + 4
      BY <2>2
    <3>2. Child[k] \in {"SUM", IncOf(x)} /\ k \in 4 .. 33
      <4>1. Child[k] \in {"SUM", IncOf(x)}
        BY <3>1, ChildIs
      <4>2. k \in 4 .. 33
        BY <3>1 DEF Counters
      <4>3. QED
        BY <4>1, <4>2
    <3>3. IncOf(x) \notin {"LOCK", "UNLOCK"}
      BY DEF IncOf, Counters
    <3>4. QED
      BY <3>2, <3>3
  <2>3. QED
    BY <2>1, <2>2, ChildAt
<1>3. ASSUME NEW k \in 1 .. 35
      PROVE  /\ Child[k] = "UNLOCK" <=> Child[k + 1] = "LOCK"
             /\ Child[k + 1] = "UNLOCK" => Child[k] = "RESET"
  <2>1. k \in 1 .. 36 /\ k + 1 \in 1 .. 36 /\ k # 36 /\ k + 1 # 1
    OBVIOUS
  <2>2. Child[k] # "UNLOCK" /\ Child[k + 1] # "LOCK"
    BY <1>2, <2>1
  <2>3. Child[k + 1] = "UNLOCK" => k = 35
    <3>1. Child[k + 1] = "UNLOCK" => k + 1 = 36
      BY <1>2, <2>1
    <3>2. QED
      BY <3>1
  <2>4. QED
    BY <1>1, <2>2, <2>3
<1>4. QED
  BY <1>1, <1>3 DEF Careful

LEMMA OfParentIs ==
  /\ OfParent[0] = {Zero} /\ OfParent[20] = {Filled(18)} /\ OfParent[21] = {Zero}
  /\ OfParent[22] = {Level(1, 0)} /\ OfParent[23] = {Level(2, 0)}
  /\ OfParent[24] = {Level(2, 10)} /\ OfParent[25] = {Level(2, 10)}
  /\ OfParent[26] = {Zero} /\ OfParent[27] = {Zero}
  /\ \A m \in 0 .. 18 : OfParent[m + 1] = {Filled(m)}
<1>1. \A m \in 0 .. 18 : m + 1 \in 0 .. 27 /\ m + 1 \in 1 .. 19 /\ (m + 1) - 1 = m
  OBVIOUS
<1>2. \A m \in 0 .. 18 : OfParent[m + 1] = {Filled(m)}
  BY <1>1 DEF OfParent
<1>3. QED
  BY <1>2 DEF OfParent

LEMMA OfChildIs ==
  /\ OfChild[0] = {Zero} /\ OfChild[1] = {Zero} /\ OfChild[2] = {Zero, Effect("IRQ", Zero)}
  /\ OfChild[34] = {Filled(30)} /\ OfChild[35] = {Zero} /\ OfChild[36] = {Zero}
  /\ \A m \in 0 .. 30 : OfChild[m + 3] = {Filled(m)}
<1>1. \A m \in 0 .. 30 : m + 3 \in 0 .. 36 /\ m + 3 \in 3 .. 33 /\ (m + 3) - 3 = m /\ m + 3 # 2
  OBVIOUS
<1>2. \A m \in 0 .. 30 : OfChild[m + 3] = {Filled(m)}
  BY <1>1 DEF OfChild
<1>3. QED
  BY <1>2 DEF OfChild

(* The same, without the rounds.                                             *)
LEMMA ParentEnds ==
  /\ Parent[1] = "LOCK" /\ Parent[20] = "PRINT0" /\ Parent[21] = "RESET"
  /\ Parent[22] = "INC_ALL" /\ Parent[23] = "INC_ALL" /\ Parent[24] = "SUM"
  /\ Parent[25] = "PRINT1" /\ Parent[26] = "RESET" /\ Parent[27] = "UNLOCK"
BY ParentIs

LEMMA ChildEnds ==
  /\ Child[1] = "LOCK" /\ Child[2] = "INT" /\ Child[3] = "RESET"
  /\ Child[34] = "PRINT2" /\ Child[35] = "RESET" /\ Child[36] = "UNLOCK"
BY ChildIs

LEMMA OfParentEnds ==
  /\ OfParent[0] = {Zero} /\ OfParent[1] = {Zero} /\ OfParent[19] = {Filled(18)}
  /\ OfParent[20] = {Filled(18)} /\ OfParent[21] = {Zero}
  /\ OfParent[22] = {Level(1, 0)} /\ OfParent[23] = {Level(2, 0)}
  /\ OfParent[24] = {Level(2, 10)} /\ OfParent[25] = {Level(2, 10)}
  /\ OfParent[26] = {Zero} /\ OfParent[27] = {Zero}
<1>1. OfParent[0 + 1] = {Filled(0)} /\ OfParent[18 + 1] = {Filled(18)}
  BY OfParentIs
<1>2. OfParent[1] = {Zero} /\ OfParent[19] = {Filled(18)}
  BY <1>1, ZeroIs
<1>3. QED
  BY <1>2, OfParentIs

LEMMA OfChildEnds ==
  /\ OfChild[0] = {Zero} /\ OfChild[1] = {Zero} /\ OfChild[2] = {Zero, Effect("IRQ", Zero)}
  /\ OfChild[3] = {Zero} /\ OfChild[33] = {Filled(30)}
  /\ OfChild[34] = {Filled(30)} /\ OfChild[35] = {Zero} /\ OfChild[36] = {Zero}
<1>1. OfChild[0 + 3] = {Filled(0)} /\ OfChild[30 + 3] = {Filled(30)}
  BY OfChildIs
<1>2. OfChild[3] = {Zero} /\ OfChild[33] = {Filled(30)}
  BY <1>1, ZeroIs
<1>3. QED
  BY <1>2, OfChildIs

LEMMA ParentStep ==
  ASSUME NEW k \in 1 .. 27, NEW kind \in Kinds, Serves(Parent[k], kind),
         NEW d \in OfParent[k - 1]
  PROVE  Effect(kind, d) \in OfParent[k]
<1>1. CASE k \in {1, 20, 21, 22, 23, 24, 25, 26, 27}
  <2>1. Parent[k] # "INT" /\ kind = Parent[k]
    BY <1>1, ParentEnds DEF Serves
  <2>2. /\ k \in {1, 22, 27} => d = Zero
        /\ k \in {20, 21} => d = Filled(18)
        /\ k = 23 => d = Level(1, 0)
        /\ k = 24 => d = Level(2, 0)
        /\ k \in {25, 26} => d = Level(2, 10)
    BY OfParentEnds
  <2>3. /\ k = 1 => kind = "LOCK" /\ OfParent[k] = {Zero}
        /\ k = 20 => kind = "PRINT0" /\ OfParent[k] = {Filled(18)}
        /\ k = 21 => kind = "RESET" /\ OfParent[k] = {Zero}
        /\ k = 22 => kind = "INC_ALL" /\ OfParent[k] = {Level(1, 0)}
        /\ k = 23 => kind = "INC_ALL" /\ OfParent[k] = {Level(2, 0)}
        /\ k = 24 => kind = "SUM" /\ OfParent[k] = {Level(2, 10)}
        /\ k = 25 => kind = "PRINT1" /\ OfParent[k] = {Level(2, 10)}
        /\ k = 26 => kind = "RESET" /\ OfParent[k] = {Zero}
        /\ k = 27 => kind = "UNLOCK" /\ OfParent[k] = {Zero}
    BY <2>1, ParentEnds, OfParentEnds
  <2>4. Zero \in Data /\ Filled(18) \in Data /\ Level(2, 10) \in Data
    BY ZeroIs, FilledIsData, LevelIsData
  <2>5. {"LOCK", "UNLOCK", "PRINT0", "PRINT1"} \subseteq Quiet
    BY DEF Quiet
  <2>6. QED
    BY <1>1, <2>2, <2>3, <2>4, <2>5, OthersMake
<1>2. ASSUME NEW x \in 0 .. 2, k = 6 * x + 7 PROVE Effect(kind, d) \in OfParent[k]
  <2>1. 6 * x + 5 \in 0 .. 18 /\ 6 * x + 6 \in 0 .. 18 /\ x \in Counters
        /\ k - 1 = (6 * x + 5) + 1 /\ k = (6 * x + 6) + 1
    BY <1>2 DEF Counters
  <2>2. OfParent[k - 1] = {Filled(6 * x + 5)} /\ OfParent[k] = {Filled(6 * x + 6)}
    BY <2>1, OfParentIs
  <2>3. kind = "SUM"
    BY <1>2, ParentIs DEF Serves
  <2>4. QED
    BY <2>1, <2>2, <2>3, RoundIsSummed
<1>3. ASSUME NEW x \in 0 .. 2, NEW n \in 0 .. 4, k = 6 * x + n + 2
      PROVE  Effect(kind, d) \in OfParent[k]
  <2>1. 6 * x + n \in 0 .. 18 /\ 6 * x + n + 1 \in 0 .. 18 /\ x \in Counters
        /\ k - 1 = (6 * x + n) + 1 /\ k = (6 * x + n + 1) + 1
    BY <1>3 DEF Counters
  <2>2. OfParent[k - 1] = {Filled(6 * x + n)} /\ OfParent[k] = {Filled(6 * x + n + 1)}
    BY <2>1, OfParentIs
  <2>3. Parent[k] = IncOf(x) /\ IncOf(x) # "INT"
    <3>1. Parent[k] = IncOf(x)
      BY <1>3, ParentIs
    <3>2. IncOf(x) # "INT"
      BY DEF IncOf
    <3>3. QED
      BY <3>1, <3>2
  <2>4. QED
    BY <2>1, <2>2, <2>3, RoundOfFive DEF Serves
<1>4. QED
  BY <1>1, <1>2, <1>3, ParentAt

LEMMA ChildStep ==
  ASSUME NEW k \in 1 .. 36, NEW kind \in Kinds, Serves(Child[k], kind),
         NEW d \in OfChild[k - 1]
  PROVE  Effect(kind, d) \in OfChild[k]
<1>1. CASE k \in {1, 2, 3, 34, 35, 36}
  <2>1. /\ k = 1 => kind = "LOCK" /\ d = Zero
        /\ k = 2 => kind \in {"INT", "IRQ"} /\ d = Zero
        /\ k = 3 => kind = "RESET" /\ d \in {Zero, Effect("IRQ", Zero)}
        /\ k = 34 => kind = "PRINT2" /\ d = Filled(30)
        /\ k = 35 => kind = "RESET" /\ d = Filled(30)
        /\ k = 36 => kind = "UNLOCK" /\ d = Zero
    BY <1>1, ChildEnds, OfChildEnds DEF Serves
  <2>2. Zero \in Data /\ Filled(30) \in Data /\ Effect("IRQ", Zero) \in Data
    BY ZeroIs, FilledIsData, EffectIsData, KindsAre
  <2>3. {"LOCK", "INT", "UNLOCK", "PRINT2"} \subseteq Quiet
    BY DEF Quiet
  <2>4. QED
    BY <1>1, <2>1, <2>2, <2>3, OthersMake, OfChildEnds
<1>2. ASSUME NEW x \in Counters, k = 6 * x + 9 PROVE Effect(kind, d) \in OfChild[k]
  <2>1. 6 * x + 5 \in 0 .. 30 /\ 6 * x + 6 \in 0 .. 30
        /\ k - 1 = (6 * x + 5) + 3 /\ k = (6 * x + 6) + 3
    BY <1>2 DEF Counters
  <2>2. OfChild[k - 1] = {Filled(6 * x + 5)} /\ OfChild[k] = {Filled(6 * x + 6)}
    BY <2>1, OfChildIs
  <2>3. kind = "SUM"
    BY <1>2, ChildIs DEF Serves
  <2>4. QED
    BY <2>2, <2>3, RoundIsSummed
<1>3. ASSUME NEW x \in Counters, NEW n \in 0 .. 4, k = 6 * x + n + 4
      PROVE  Effect(kind, d) \in OfChild[k]
  <2>1. 6 * x + n \in 0 .. 30 /\ 6 * x + n + 1 \in 0 .. 30
        /\ k - 1 = (6 * x + n) + 3 /\ k = (6 * x + n + 1) + 3
    BY <1>3 DEF Counters
  <2>2. OfChild[k - 1] = {Filled(6 * x + n)} /\ OfChild[k] = {Filled(6 * x + n + 1)}
    BY <2>1, OfChildIs
  <2>3. Child[k] = IncOf(x) /\ IncOf(x) # "INT"
    <3>1. Child[k] = IncOf(x)
      BY <1>3, ChildIs
    <3>2. IncOf(x) # "INT"
      BY DEF IncOf, Counters
    <3>3. QED
      BY <3>1, <3>2
  <2>4. QED
    BY <2>2, <2>3, RoundOfFive DEF Serves
<1>4. QED
  BY <1>1, <1>2, <1>3, ChildAt

LEMMA OutlineParent == Outline(Parent, OfParent)
<1>1. \A k \in 0 .. 27 : OfParent[k] \subseteq Data
  <2>1. \A k \in 0 .. 27 : k - 1 \in Int
    OBVIOUS
  <2>2. \A k \in 0 .. 27 : Filled(k - 1) \in Data
    BY <2>1, FilledIsData
  <2>3. Filled(18) \in Data /\ Zero \in Data /\ Level(1, 0) \in Data
        /\ Level(2, 0) \in Data /\ Level(2, 10) \in Data
    BY FilledIsData, ZeroIs, LevelIsData
  <2>4. QED
    BY <2>2, <2>3 DEF OfParent
<1>2. Zero \in OfParent[0] /\ Len(Parent) = 27
  BY OfParentIs, ParentIs
<1>3. QED
  BY <1>1, <1>2, ParentStep DEF Outline

LEMMA OutlineChild == Outline(Child, OfChild)
<1>1. \A k \in 0 .. 36 : OfChild[k] \subseteq Data
  <2>1. \A k \in 0 .. 36 : k - 3 \in Int
    OBVIOUS
  <2>2. \A k \in 0 .. 36 : Filled(k - 3) \in Data
    BY <2>1, FilledIsData
  <2>3. Filled(30) \in Data /\ Zero \in Data /\ Effect("IRQ", Zero) \in Data
    BY FilledIsData, ZeroIs, EffectIsData, KindsAre
  <2>4. QED
    BY <2>2, <2>3 DEF OfChild
<1>2. Zero \in OfChild[0] /\ Len(Child) = 36
  BY OfChildIs, ChildIs
<1>3. QED
  BY <1>1, <1>2, ChildStep DEF Outline

LEMMA TestsHaveOutlines ==
  ASSUME \A c \in Clients : Program[c] \in {Parent, Child}
  PROVE  Outlines(Tests) /\ \A c \in Clients : Careful(Program[c])
<1>1. Parent # Child
  BY ParentIs, ChildIs
<1>2. \A c \in Clients : Outline(Program[c], Tests[c])
  BY <1>1, OutlineParent, OutlineChild DEF Tests, OutlineOf
<1>3. QED
  BY <1>2, CarefulParent, CarefulChild DEF Outlines

-------------------------------------------------------------------------------
(* What a process of ioctl_test.c can see, and print.                        *)
Simple ==
  /\ mod \in {"unloaded", "cdev", "irq", "vector", "live", "failed"}
  /\ registered \subseteq {"region", "cdev", "irq"} /\ zeroed \in 0 .. 5
  /\ lock \in Clients \cup {"none"} /\ inIrq \in Clients \cup {"none"}
  /\ running \subseteq Clients /\ killed \subseteq Clients /\ early \subseteq Clients

TInv == HInv(Tests) /\ Simple /\ ExpectedSums

LEMMA SumsOf ==
  /\ Filled(18).sum = 15 /\ Filled(30).sum = 25 /\ Level(2, 10).sum = 10
  /\ Zero.sum = 0 /\ Effect("IRQ", Zero).sum = -15
BY DEF Filled, Level, Zero, Effect

LEMMA SumBefore ==
  ASSUME NEW p \in {Parent, Child}, NEW k \in 1 .. Len(p), NEW d \in OutlineOf(p)[k - 1]
  PROVE  /\ p[k] = "PRINT0" => d.sum = 15
         /\ p[k] = "PRINT1" => d.sum = 10
         /\ p[k] = "PRINT2" => d.sum = 25
         /\ p[k] = "INT" => d = Zero
<1>1. ASSUME NEW x \in Counters
      PROVE  IncOf(x) \notin {"PRINT0", "PRINT1", "PRINT2", "INT"}
  BY DEF IncOf, Counters
<1>2. CASE p = Parent
  <2>1. k \in 1 .. 27 /\ d \in OfParent[k - 1]
    BY <1>2, ParentIs DEF OutlineOf
  <2>2. ASSUME NEW x \in 0 .. 2, k = 6 * x + 7 \/ \E n \in 0 .. 4 : k = 6 * x + n + 2
        PROVE  p[k] \notin {"PRINT0", "PRINT1", "PRINT2", "INT"}
    <3>1. p[k] \in {"SUM", IncOf(x)} /\ x \in Counters
      <4>1. p[k] \in {"SUM", IncOf(x)}
        BY <1>2, <2>2, ParentIs
      <4>2. QED
        BY <4>1 DEF Counters
    <3>2. QED
      BY <3>1, <1>1
  <2>3. CASE k \in {1, 20, 21, 22, 23, 24, 25, 26, 27}
    <3>1. p[k] \in {"PRINT0", "PRINT1", "PRINT2", "INT"} =>
            (k = 20 /\ p[k] = "PRINT0") \/ (k = 25 /\ p[k] = "PRINT1")
      BY <1>2, <2>3, ParentEnds
    <3>2. OfParent[18 + 1] = {Filled(18)}
      BY OfParentIs
    <3>3. k = 20 => d.sum = 15
      BY <2>1, <3>2, SumsOf
    <3>4. k = 25 => d.sum = 10
      BY <2>1, OfParentIs, SumsOf
    <3>5. QED
      BY <3>1, <3>3, <3>4
  <2>4. QED
    BY <2>1, <2>2, <2>3, ParentAt
<1>3. CASE p = Child
  <2>1. k \in 1 .. 36 /\ d \in OfChild[k - 1]
    <3>1. Parent # Child
      BY ParentIs, ChildIs
    <3>2. QED
      BY <1>3, <3>1, ChildIs DEF OutlineOf
  <2>2. ASSUME NEW x \in Counters, k = 6 * x + 9 \/ \E n \in 0 .. 4 : k = 6 * x + n + 4
        PROVE  p[k] \notin {"PRINT0", "PRINT1", "PRINT2", "INT"}
    <3>1. p[k] \in {"SUM", IncOf(x)}
      BY <1>3, <2>2, ChildIs
    <3>2. QED
      BY <3>1, <1>1
  <2>3. CASE k \in {1, 2, 3, 34, 35, 36}
    <3>1. p[k] \in {"PRINT0", "PRINT1", "PRINT2", "INT"} =>
            (k = 2 /\ p[k] = "INT") \/ (k = 34 /\ p[k] = "PRINT2")
      BY <1>3, <2>3, ChildEnds
    <3>2. OfChild[30 + 3] = {Filled(30)}
      BY OfChildIs
    <3>3. k = 34 => d.sum = 25
      BY <2>1, <3>2, SumsOf
    <3>4. k = 2 => d = Zero
      BY <2>1, OfChildIs
    <3>5. QED
      BY <3>1, <3>3, <3>4
  <2>4. QED
    BY <2>1, <2>2, <2>3, ChildAt
<1>4. QED
  BY <1>2, <1>3

LEMMA InBounds ==
  ASSUME NEW p \in {Parent, Child}, NEW k \in 0 .. Len(p), NEW d \in OutlineOf(p)[k]
  PROVE  d.sum \in -15 .. 25 /\ \A x \in Counters : d.num[x] \in -5 .. 5
<1> DEFINE Bounded(e) == e.sum \in -15 .. 25 /\ \A x \in Counters : e.num[x] \in -5 .. 5
<1>1. \A m \in Int : Bounded(Filled(m))
  <2> SUFFICES ASSUME NEW m \in Int PROVE Bounded(Filled(m))
    OBVIOUS
  <2>1. Filled(m).sum \in -15 .. 25
    BY DEF Filled
  <2>2. \A x \in Counters : Filled(m).num[x] \in -5 .. 5
    <3>1. \A x \in Counters : Clip(m - 6 * x) \in -5 .. 5
      BY DEF Clip, Counters
    <3>2. QED
      BY <3>1 DEF Filled
  <2>3. QED
    BY <2>1, <2>2
<1>2. Bounded(Zero) /\ Bounded(Level(1, 0)) /\ Bounded(Level(2, 0)) /\ Bounded(Level(2, 10))
  BY DEF Zero, Level
<1>3. Bounded(Effect("IRQ", Zero))
  <2>1. Effect("IRQ", Zero).sum = -15
    BY SumsOf
  <2>2. \A x \in Counters : Effect("IRQ", Zero).num[x] = -(x + 1)
    BY DEF Effect, IncOf, Counters
  <2>3. QED
    BY <2>1, <2>2 DEF Counters
<1> HIDE DEF Bounded
<1>4. Parent # Child
  BY ParentIs, ChildIs
<1>5. ASSUME p = Parent PROVE Bounded(d)
  <2>1. k \in 0 .. 27 /\ d \in OfParent[k] /\ k - 1 \in Int
    BY <1>5, ParentIs DEF OutlineOf
  <2>2. d \in {Filled(k - 1), Filled(18), Level(1, 0), Level(2, 0), Level(2, 10), Zero}
    BY <2>1 DEF OfParent
  <2>3. QED
    BY <1>1, <1>2, <2>1, <2>2
<1>6. ASSUME p = Child PROVE Bounded(d)
  <2>1. k \in 0 .. 36 /\ d \in OfChild[k] /\ k - 3 \in Int
    <3>1. d \in OfChild[k]
      BY <1>4, <1>6 DEF OutlineOf
    <3>2. Len(p) = 36
      BY <1>6, ChildIs
    <3>3. QED
      BY <3>1, <3>2
  <2>2. d \in {Filled(k - 3), Filled(30), Zero, Effect("IRQ", Zero)}
    BY <2>1 DEF OfChild
  <2>3. QED
    BY <1>1, <1>2, <1>3, <2>1, <2>2
<1>7. QED
  BY <1>5, <1>6 DEF Bounded

LEMMA PrintsAsExpected ==
  ASSUME \A c \in Clients : Program[c] \in {Parent, Child}, HInv(Tests),
         NEW c \in Clients, Printk(c)
  PROVE  ExpectedSums'
<1>1. PICK who \in {"IOCTL0", "IOCTL1", "IOCTL2", "IRQ"} :
        At(c, "print", who) /\ printed' = <<who, sum, c \in early>>
  BY DEF Printk
<1>0. CASE c \in early
  BY <1>0, <1>1 DEF ExpectedSums
<1> SUFFICES ASSUME c \in Clients \ early PROVE ExpectedSums'
  BY <1>0
<1>2. dev_mutex = c
  BY <1>1, HolderWorks DEF HInv
<1>3. Outlines(Tests) /\ Tests[c] = OutlineOf(Program[c])
  BY TestsHaveOutlines DEF Tests
<1> DEFINE k == Issued(c)  p == Program[c]
<1>4. k \in 1 .. Len(p) /\ p \in {Parent, Child}
  BY <1>2, <1>3, HolderIs
<1>5. PICK d \in Data, kind \in Kinds : \E j \in 0 .. Len(FullOf(kind)) :
        /\ d \in Tests[c][k - 1] /\ Serves(p[k], kind)
        /\ code[c] = Left(FullOf(kind), j) /\ Half(kind, d, j, Mine(c))
  BY <1>2, <1>3, HolderIs
<1>6. PICK j \in 0 .. Len(FullOf(kind)) :
        /\ d \in Tests[c][k - 1] /\ Serves(p[k], kind)
        /\ code[c] = Left(FullOf(kind), j) /\ Half(kind, d, j, Mine(c))
  BY <1>5
<1> HIDE DEF k, p
<1>7. d \in OutlineOf(p)[k - 1]
  BY <1>3, <1>6 DEF p
<1>8. /\ j \in 0 .. Len(FullOf(kind)) - 1 /\ FullOf(kind)[j + 1] = <<"print", who>>
  BY <1>1, <1>6, Position
<1>9. Mine(c).sum = sum
  BY MineIs DEF HInv
<1>10. ASSUME kind \in Quiet, FullOf(kind)[1] = <<"print", who>> PROVE ExpectedSums'
  <2>1. sum = d.sum
    BY <1>6, <1>9, <1>10, HalfQuiet
  <2>2. \/ kind = "PRINT0" /\ who = "IOCTL0"
        \/ kind = "PRINT1" /\ who = "IOCTL1"
        \/ kind = "PRINT2" /\ who = "IOCTL2"
    BY <1>10, FullQuiet DEF Quiet
  <2>3. p[k] = kind
    BY <1>6, <2>2 DEF Serves
  <2>4. \/ who = "IOCTL0" /\ d.sum = 15
        \/ who = "IOCTL1" /\ d.sum = 10
        \/ who = "IOCTL2" /\ d.sum = 25
    BY <1>4, <1>7, <2>2, <2>3, SumBefore
  <2>5. QED
    BY <1>1, <2>1, <2>4 DEF ExpectedSums, Expected
<1>11. ASSUME kind = "IRQ", j = 14, who = "IRQ" PROVE ExpectedSums'
  <2>1. p[k] = "INT"
    <3>1. p \in Seq(Commands)
      BY IrqDriverAssumption DEF p
    <3>2. p[k] \in Commands
      BY <1>4, <3>1
    <3>3. QED
      BY <1>6, <1>11, <3>2 DEF Serves, Commands
  <2>2. d = Zero
    BY <1>4, <1>7, <2>1, SumBefore
  <2>3. sum = Effect("IRQ", d).sum
    BY <1>6, <1>9, <1>11 DEF Half, PutBy
  <2>4. sum = -15
    BY <2>2, <2>3, SumsOf
  <2>5. QED
    BY <1>1, <1>11, <2>4 DEF ExpectedSums, Expected
<1>12. QED
  BY <1>8, <1>10, <1>11, Rare

LEMMA SimpleHolds == ASSUME Init PROVE Simple /\ ExpectedSums
BY DEF Init, Simple, ExpectedSums, Expected

LEMMA SimpleKept ==
  ASSUME Simple, [Next]_vars PROVE Simple'
<1>1. CASE InitCdev \/ InitData \/ InitIrq \/ InitVector \/ ModuleExit
  <2>1. CASE InitData
    BY <2>1 DEF Simple, Counters, InitData, lockVars, procVars
  <2>2. CASE InitCdev \/ InitIrq \/ InitVector
    BY <2>2 DEF Simple, InitCdev, InitIrq, InitVector, lockVars, procVars
  <2>3. CASE ModuleExit
    BY <2>3 DEF Simple, ModuleExit, lockVars, procVars
  <2>4. QED
    BY <1>1, <2>1, <2>2, <2>3
<1>2. ASSUME NEW c \in Clients, Open(c) \/ Ioctl(c) \/ Close(c) \/ Kill(c) PROVE Simple'
  BY <1>2 DEF Simple, Open, Ioctl, Close, Kill, modVars, lockVars
<1>3. ASSUME NEW c \in Clients,
             \/ \E i \in Counters : Load(c, i) \/ Store(c, i)
             \/ Accumulate(c) \/ PutSum(c) \/ Printk(c)
      PROVE  Simple'
  <2>1. UNCHANGED <<modVars, lockVars, procVars>>
    BY <1>3 DEF Load, Store, Accumulate, PutSum, Printk
  <2>2. QED
    BY <2>1 DEF Simple, modVars, lockVars, procVars
<1>4. ASSUME NEW c \in Clients,
             \/ MutexLock(c) \/ MutexUnlock(c) \/ Interrupt(c)
             \/ SpinLock(c) \/ SpinUnlock(c) \/ Iret(c)
      PROVE  Simple'
  <2>1. /\ UNCHANGED <<modVars, procVars>>
        /\ lock' \in {lock, c, "none"} /\ inIrq' \in {inIrq, c, "none"}
    BY <1>4 DEF MutexLock, MutexUnlock, Interrupt, SpinLock, SpinUnlock, Iret
  <2>2. QED
    BY <2>1 DEF Simple, modVars, procVars
<1>5. CASE UNCHANGED vars
  BY <1>5 DEF vars, Simple
<1>6. QED
  BY <1>1, <1>2, <1>3, <1>4, <1>5 DEF Next, Run

LEMMA PrintedKept ==
  ASSUME \A c \in Clients : Program[c] \in {Parent, Child},
         HInv(Tests), ExpectedSums, [Next]_vars
  PROVE  ExpectedSums'
<1>1. ASSUME UNCHANGED printed PROVE ExpectedSums'
  BY <1>1 DEF ExpectedSums
<1>2. CASE InitCdev \/ InitData \/ InitIrq \/ InitVector \/ ModuleExit
  BY <1>1, <1>2 DEF InitCdev, InitData, InitIrq, InitVector, ModuleExit
<1>3. ASSUME NEW c \in Clients, Open(c) \/ Ioctl(c) \/ Close(c) \/ Kill(c)
      PROVE  ExpectedSums'
  BY <1>1, <1>3 DEF Open, Ioctl, Close, Kill
<1>4. ASSUME NEW c \in Clients,
             \/ \E i \in Counters : Load(c, i) \/ Store(c, i)
             \/ Accumulate(c) \/ PutSum(c)
      PROVE  ExpectedSums'
  BY <1>1, <1>4 DEF Load, Store, Accumulate, PutSum
<1>5. ASSUME NEW c \in Clients,
             \/ MutexLock(c) \/ MutexUnlock(c) \/ Interrupt(c)
             \/ SpinLock(c) \/ SpinUnlock(c) \/ Iret(c)
      PROVE  ExpectedSums'
  BY <1>1, <1>5 DEF MutexLock, MutexUnlock, Interrupt, SpinLock, SpinUnlock, Iret
<1>6. CASE UNCHANGED vars
  BY <1>1, <1>6 DEF vars
<1>7. ASSUME NEW c \in Clients, Printk(c) PROVE ExpectedSums'
  BY <1>7, PrintsAsExpected
<1>8. QED
  BY <1>2, <1>3, <1>4, <1>5, <1>6, <1>7 DEF Next, Run

LEMMA TestInvariant ==
  ASSUME \A c \in Clients : Program[c] \in {Parent, Child}
  PROVE  Spec => []TInv
<1>1. Init => TInv
  BY TestsHaveOutlines, FollowInit, SimpleHolds DEF TInv
<1>2. TInv /\ [Next]_vars => TInv'
  BY TestsHaveOutlines, FollowNext, SimpleKept, PrintedKept DEF TInv
<1>3. QED
  BY <1>1, <1>2, PTL DEF Spec

(* However many ioctl_test run at once, each parent and each child that came *)
(* after init finds, and the handler that a child's INT runs finds, the sum  *)
(* that the commands of that process alone make (test.sh:29-32,              *)
(* ioctl_test.c:51, 61, 66, 107), with early processes at work or not.       *)
THEOREM SumsAreExpected ==
  ASSUME \A c \in Clients : Program[c] \in {Parent, Child}
  PROVE  Spec => []ExpectedSums
<1>1. Spec => []TInv
  BY TestInvariant
<1>2. TInv => ExpectedSums
  BY DEF TInv
<1>3. QED
  BY <1>1, <1>2, PTL

LEMMA NumbersAreBounded ==
  ASSUME \A c \in Clients : Program[c] \in {Parent, Child}, EarlyOpen = {}, TInv
  PROVE  num \in [Counters -> -5 .. 5] /\ sum \in -15 .. 25
<1>1. IInv /\ num \in [Counters -> Int] /\ HInv(Tests)
  BY DEF TInv, HInv, RegsOK
<1>2. CASE dev_mutex = "none"
  <2>1. Clean
    BY <1>1, <1>2 DEF IInv
  <2>2. sum \in -15 .. 25 /\ \A x \in Counters : num[x] \in -5 .. 5
    BY <2>1 DEF Clean
  <2>3. QED
    BY <1>1, <2>2
<1>3. CASE dev_mutex \in Clients
  <2>1. PICK c \in Clients \ early : dev_mutex = c
    BY <1>1, <1>3 DEF HInv, Loading
  <2>2. Outlines(Tests) /\ Tests[c] = OutlineOf(Program[c]) /\ Program[c] \in {Parent, Child}
    BY TestsHaveOutlines DEF Tests
  <2>3. Issued(c) \in 1 .. Len(Program[c])
    BY <1>1, <2>1, <2>2, HolderIs
  <2>4. PICK d \in Tests[c][Issued(c) - 1], e \in Tests[c][Issued(c)] :
          /\ \A x \in Counters : num[x] \in {d.num[x], e.num[x]}
          /\ sum \in {d.sum, e.sum}
    BY <1>1, <2>1, <2>2, HolderSees DEF SeesOwnWork
  <2>5. Issued(c) \in 0 .. Len(Program[c]) /\ Issued(c) - 1 \in 0 .. Len(Program[c])
    <3>1. Len(Program[c]) \in {27, 36}
      BY <2>2, ParentIs, ChildIs
    <3>2. QED
      BY <2>3, <3>1
  <2>6. /\ d.sum \in -15 .. 25 /\ \A x \in Counters : d.num[x] \in -5 .. 5
        /\ e.sum \in -15 .. 25 /\ \A x \in Counters : e.num[x] \in -5 .. 5
    BY <2>2, <2>4, <2>5, InBounds
  <2>7. sum \in -15 .. 25 /\ \A x \in Counters : num[x] \in -5 .. 5
    BY <2>4, <2>6
  <2>8. QED
    BY <1>1, <2>7
<1>4. QED
  BY <1>1, <1>2, <1>3 DEF IInv

(* No counter leaves -5..5 and no sum -15..25 on the way, whatever the       *)
(* processes of ioctl_test.c and the handler do in between, if none of them  *)
(* opens the device before init is over (driver.c:85-187).                   *)
THEOREM TypeCorrect ==
  ASSUME \A c \in Clients : Program[c] \in {Parent, Child}, EarlyOpen = {}
  PROVE  Spec => []TypeOK
<1>1. Spec => []TInv
  BY TestInvariant
<1>2. TInv => TypeOK
  BY NumbersAreBounded DEF TInv, HInv, IInv, Simple, TypeOK
<1>3. QED
  BY <1>1, <1>2, PTL
===============================================================================
