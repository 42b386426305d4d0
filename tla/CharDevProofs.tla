---------------------------- MODULE CharDevProofs ----------------------------
(* Proofs about CharDev, for any number of files, calls and any sizes.      *)
EXTENDS CharDev, TLAPS

(* access is set exactly while a file is open; nothing is open before init  *)
(* has set the device up, or after rmmod.                                   *)
AccessTracksOpen == access = 0 <=> opened = {}
OpenWhenLive == opened # {} => mod \in {"live", "corrupt"}

LEMMA CharDevTypes == Spec => []TypeOK
<1> USE CharDevAssumption DEF CharDevAssumption
<1>1. Init => TypeOK
  BY DEF Init, TypeOK, Idle
<1>2. TypeOK /\ [Next]_vars => TypeOK'
  <2> SUFFICES ASSUME TypeOK, [Next]_vars PROVE TypeOK'
    OBVIOUS
  <2>1. CASE CdevAdd
    BY <2>1 DEF CdevAdd, TypeOK, Idle
  <2>2. CASE InitAccess
    BY <2>2 DEF InitAccess, TypeOK, Idle
  <2>3. CASE InitSize
    BY <2>3 DEF InitSize, TypeOK, Idle
  <2>4. CASE Cleanup
    BY <2>4 DEF Cleanup, TypeOK, Idle
  <2>5. ASSUME NEW f \in Files, Open(f)
        PROVE  TypeOK'
    BY <2>5 DEF Open, TypeOK, Idle
  <2>6. ASSUME NEW f \in Files, Release(f)
        PROVE  TypeOK'
    BY <2>6 DEF Release, TypeOK, Idle
  <2>7. ASSUME NEW c \in Calls, NEW f \in Files, Begin(c, f)
        PROVE  TypeOK'
    <3>1. PICK op \in {"read", "write"}, count \in 0 .. MaxCount :
             call' = [call EXCEPT ![c] =
                        Transfer(op, f, f_pos[f], Length(f_pos[f], count))]
      BY <2>7 DEF Begin
    <3>2. f_pos[f] \in 0 .. BUFSIZ /\ Length(f_pos[f], count) \in Nat
      BY DEF TypeOK, Length
    <3>3. \A d \in Calls : \/ call'[d] = call[d]
                           \/ call'[d] \in [op : {"read", "write", "get", "set"},
                                            file : Files, off : 0 .. BUFSIZ,
                                            len : Nat]
      BY <3>1, <3>2 DEF TypeOK, Transfer
    <3>4. QED
      BY <2>7, <3>1, <3>3 DEF Begin, TypeOK
  <2>8. ASSUME NEW c \in Calls, NEW f \in Files, Ioctl(c, f)
        PROVE  TypeOK'
    <3>1. \A d \in Calls : \/ call'[d] = call[d]
                           \/ call'[d] \in [op : {"read", "write", "get", "set"},
                                            file : Files, off : 0 .. BUFSIZ,
                                            len : Nat]
      BY <2>8 DEF Ioctl, TypeOK, Transfer
    <3>2. DOMAIN call' = Calls
      BY <2>8 DEF Ioctl, TypeOK
    <3>3. QED
      BY <2>8, <3>1, <3>2 DEF Ioctl, TypeOK
  <2>9. ASSUME NEW c \in Calls, End(c)
        PROVE  TypeOK'
    <3>1. call[c].off \in 0 .. BUFSIZ /\ call[c].len \in Nat /\ call[c].file \in Files
      BY <2>9 DEF End, TypeOK, Idle
    <3>2. f_pos' \in [Files -> 0 .. BUFSIZ]
      BY <2>9, <3>1 DEF End, TypeOK, Inside
    <3>3. QED
      BY <2>9, <3>2 DEF End, TypeOK
  <2>10. ASSUME NEW c \in Calls, EndOutside(c)
         PROVE  TypeOK'
    BY <2>10 DEF EndOutside, TypeOK, Idle
  <2>11. ASSUME NEW c \in Calls, EndIoctl(c)
         PROVE  TypeOK'
    <3>1. size' \in 0 .. BUFSIZ
      BY <2>11 DEF EndIoctl, TypeOK
    <3>2. QED
      BY <2>11, <3>1 DEF EndIoctl, TypeOK
  <2>12. CASE UNCHANGED vars
    BY <2>12 DEF vars, TypeOK, Idle
  <2>13. QED
    BY <2>1, <2>2, <2>3, <2>4, <2>5, <2>6, <2>7, <2>8, <2>9, <2>10, <2>11, <2>12
       DEF Next
<1>3. QED
  BY <1>1, <1>2, PTL DEF Spec

(* The invariant of the open count.  It needs the device to be set up       *)
(* before it is opened: InitAccess clears access whatever is open.          *)
OpenInv == Exclusive /\ AccessTracksOpen /\ OpenWhenLive

LEMMA OpenInvariance ==
  ASSUME ~EarlyOpen
  PROVE  Spec => []OpenInv
<1>1. Init => OpenInv
  BY DEF Init, OpenInv, Exclusive, AccessTracksOpen, OpenWhenLive
<1>2. OpenInv /\ [Next]_vars => OpenInv'
  <2> SUFFICES ASSUME OpenInv, [Next]_vars PROVE OpenInv'
    OBVIOUS
  <2> USE DEF OpenInv, Exclusive, AccessTracksOpen, OpenWhenLive
  <2>1. CASE CdevAdd
    BY <2>1 DEF CdevAdd
  <2>2. CASE InitAccess
    BY <2>2 DEF InitAccess
  <2>3. CASE InitSize
    BY <2>3 DEF InitSize
  <2>4. CASE Cleanup
    BY <2>4 DEF Cleanup, Pinned
  <2>5. ASSUME NEW f \in Files, Open(f)
        PROVE  OpenInv'
    BY <2>5 DEF Open, CanOpen
  <2>6. ASSUME NEW f \in Files, Release(f)
        PROVE  OpenInv'
    BY <2>6 DEF Release
  <2>7. ASSUME NEW c \in Calls, NEW f \in Files, Begin(c, f) \/ Ioctl(c, f)
        PROVE  OpenInv'
    BY <2>7 DEF Begin, Ioctl
  <2>8. ASSUME NEW c \in Calls, End(c) \/ EndOutside(c) \/ EndIoctl(c)
        PROVE  OpenInv'
    BY <2>8 DEF End, EndOutside, EndIoctl
  <2>9. CASE UNCHANGED vars
    BY <2>9 DEF vars
  <2>10. QED
    BY <2>1, <2>2, <2>3, <2>4, <2>5, <2>6, <2>7, <2>8, <2>9 DEF Next
<1>3. QED
  BY <1>1, <1>2, PTL DEF Spec

(* Type correctness; the position of a file stays within the buffer.        *)
THEOREM TypeCorrect == Spec => []TypeOK
BY CharDevTypes

(* Two files never have the device open together, if nobody opens it while  *)
(* init runs (my_open, my_release).                                         *)
THEOREM ExclusiveOpen ==
  ASSUME ~EarlyOpen
  PROVE  Spec => []Exclusive
<1>1. OpenInv => Exclusive
  BY DEF OpenInv
<1>2. QED
  BY OpenInvariance, <1>1, PTL

(* Closing always leaves a device that can be opened again, even where      *)
(* early opens have broken exclusivity.                                     *)
THEOREM CanReopen == Spec => []NeverStuck
<1>1. Init => NeverStuck
  BY DEF Init, NeverStuck
<1>2. NeverStuck /\ [Next]_vars => NeverStuck'
  BY DEF NeverStuck, Next, vars, CdevAdd, InitAccess, InitSize, Cleanup, Open,
         Release, Begin, Ioctl, End, EndOutside, EndIoctl
<1>3. QED
  BY <1>1, <1>2, PTL DEF Spec
-------------------------------------------------------------------------------
(* Refinement of ModuleText, with opens during init as well. *)
NothingOpen == mod = "unloaded" => opened = {}
TextStep == [Text!Next]_Text!textVars

LEMMA NothingOpenUnloaded == Spec => []NothingOpen
<1>1. Init => NothingOpen
  BY DEF Init, NothingOpen
<1>2. NothingOpen /\ [Next]_vars => NothingOpen'
  BY DEF NothingOpen, Next, vars, CdevAdd, InitAccess, InitSize, Cleanup, Pinned,
         Open, CanOpen, Release, Begin, Ioctl, End, EndOutside, EndIoctl
<1>3. QED
  BY <1>1, <1>2, PTL DEF Spec

(* my_cdev.c is never entered after rmmod: the module implements ModuleText *)
(* (.owner, my_cdev.c:163, and my_cleanup_module).                          *)
THEOREM Refinement == Spec => TextSpec
<1>1. Init => Text!Init
  BY DEF Init, Text!Init
<1>2. NothingOpen /\ [Next]_vars => TextStep
  <2> SUFFICES ASSUME NothingOpen, [Next]_vars PROVE TextStep
    OBVIOUS
  <2> USE DEF TextStep, Text!textVars
  <2>1. CASE CdevAdd
    BY <2>1 DEF CdevAdd, NothingOpen, Text!Next, Text!Insmod
  <2>2. CASE InitAccess \/ InitSize
    BY <2>2 DEF InitAccess, InitSize
  <2>3. CASE Cleanup
    BY <2>3 DEF Cleanup, Pinned, Text!Next, Text!Unload
  <2>4. ASSUME NEW f \in Files, Open(f)
        PROVE  TextStep
    BY <2>4 DEF Open, CanOpen, Text!Next, Text!Acquire
  <2>5. ASSUME NEW f \in Files, Release(f)
        PROVE  TextStep
    BY <2>5 DEF Release, NothingOpen, Text!Next, Text!Release
  <2>6. ASSUME NEW c \in Calls, NEW f \in Files, Begin(c, f) \/ Ioctl(c, f)
        PROVE  TextStep
    BY <2>6 DEF Begin, Ioctl
  <2>7. ASSUME NEW c \in Calls, End(c) \/ EndIoctl(c)
        PROVE  TextStep
    BY <2>7 DEF End, EndIoctl
  <2>8. ASSUME NEW c \in Calls, EndOutside(c)
        PROVE  TextStep
    <3>1. opened' = opened /\ mod' = "corrupt"
      BY <2>8 DEF EndOutside
    <3>2. CASE mod = "unloaded"
      BY <3>1, <3>2 DEF NothingOpen, Text!Next, Text!Insmod
    <3>3. CASE mod # "unloaded"
      BY <3>1, <3>3
    <3>4. QED
      BY <3>2, <3>3
  <2>9. CASE UNCHANGED vars
    BY <2>9 DEF vars
  <2>10. QED
    BY <2>1, <2>2, <2>3, <2>4, <2>5, <2>6, <2>7, <2>8, <2>9 DEF Next
<1>3. QED
  BY <1>1, <1>2, NothingOpenUnloaded, PTL DEF Spec, TextSpec, Text!Spec, TextStep
===============================================================================
