------------------------------- MODULE CharDev -------------------------------
(* labs/lab11/my_cdev.c: a character device with a buffer and a size, that  *)
(* one file may have open at a time.  A process that forks, or has several  *)
(* threads, still makes several calls on that file at once, and no lock     *)
(* orders them: read and write work on the position and the size they found *)
(* at the start.                                                            *)
(*                                                                          *)
(* The five minors share nothing but the loop that sets them up; the module *)
(* models one.  What the buffer holds is left out: the properties are about *)
(* which part of it a call may touch.                                       *)
EXTENDS Integers, FiniteSets

CONSTANTS
  Files,      \* open file descriptions
  Calls,      \* calls in flight at the same time
  BUFSIZ, BUFFER_SIZE,
  MaxCount,   \* bound: the largest count of a read or a write
  EarlyOpen   \* the device may be opened before init has set it up

ASSUME CharDevAssumption ==
  /\ BUFSIZ \in Nat /\ BUFFER_SIZE \in Nat /\ BUFFER_SIZE <= BUFSIZ
  /\ MaxCount \in Nat /\ EarlyOpen \in BOOLEAN

VARIABLES
  mod,      \* unloaded, access and size: steps of my_init_module; live;
            \* corrupt when a call has left the buffer
  access,   \* devs[i].access
  size,     \* devs[i].size
  opened,   \* files that are open
  f_pos,    \* position of each file
  call      \* what each call in flight does, and what it read at its start

vars == <<mod, access, size, opened, f_pos, call>>

Idle == [op |-> "none"]
Transfer(op, f, off, len) == [op |-> op, file |-> f, off |-> off, len |-> len]

Init ==
  /\ mod = "unloaded" /\ access = 0 /\ size = 0 /\ opened = {}
  /\ f_pos = [f \in Files |-> 0] /\ call = [c \in Calls |-> Idle]

-------------------------------------------------------------------------------
(* my_init_module: cdev_add makes the device live, access and size follow.  *)
CdevAdd ==
  /\ mod = "unloaded" /\ mod' = "access" /\ access' = 0 /\ size' = 0
  /\ UNCHANGED <<opened, f_pos, call>>

InitAccess ==
  /\ mod = "access" /\ mod' = "size" /\ access' = 0
  /\ UNCHANGED <<size, opened, f_pos, call>>

InitSize ==
  /\ mod = "size" /\ mod' = "live" /\ size' = BUFSIZ
  /\ UNCHANGED <<access, opened, f_pos, call>>

(* Mutant: .owner is not set, an open file does not pin the module. *)
NoOwner == {}

(* Open files pin the module; rmmod fails while one is there. *)
Pinned == opened

Cleanup ==
  /\ mod = "live" /\ Pinned = {} /\ mod' = "unloaded"
  /\ UNCHANGED <<access, size, opened, f_pos, call>>

-------------------------------------------------------------------------------
CanOpen == mod = "live" \/ (EarlyOpen /\ mod \in {"access", "size"})

(* Mutant: access is set, but not tested. *)
OpenAnyway(f) ==
  /\ CanOpen /\ f \notin opened /\ access' = 1 /\ opened' = opened \cup {f}
  /\ f_pos' = [f_pos EXCEPT ![f] = 0]
  /\ UNCHANGED <<mod, size, call>>

(* my_open; when access is not 0 it fails with EBUSY and changes nothing.   *)
Open(f) ==
  /\ CanOpen /\ f \notin opened /\ access = 0 /\ access' = 1
  /\ opened' = opened \cup {f} /\ f_pos' = [f_pos EXCEPT ![f] = 0]
  /\ UNCHANGED <<mod, size, call>>

(* Files that a call still uses. *)
InUse == {call[c].file : c \in {d \in Calls : call[d].op # "none"}}

(* Mutant: access stays set after the last close. *)
ReleaseNothing(f) ==
  /\ f \in opened \ InUse /\ opened' = opened \ {f}
  /\ UNCHANGED <<mod, access, size, f_pos, call>>

(* my_release, at the last close, when no call uses the file any more. *)
Release(f) ==
  /\ mod # "corrupt" /\ f \in opened \ InUse /\ access' = 0
  /\ opened' = opened \ {f}
  /\ UNCHANGED <<mod, size, f_pos, call>>

(* min(my_data->size - *offset, size): the difference is unsigned and never *)
(* negative; past the end it is larger than any count.                      *)
Length(off, count) == IF off <= size /\ size - off < count THEN size - off ELSE count

(* my_read and my_write up to the copy.  The call works on a copy of the    *)
(* position, which no lock protects.                                        *)
Begin(c, f) ==
  \E op \in {"read", "write"}, count \in 0 .. MaxCount :
    /\ mod # "corrupt" /\ f \in opened /\ call[c].op = "none"
    /\ Length(f_pos[f], count) > 0
    /\ call' = [call EXCEPT ![c] =
                  Transfer(op, f, f_pos[f], Length(f_pos[f], count))]
    /\ UNCHANGED <<mod, access, size, opened, f_pos>>

(* Copy and return.  A call that faults leaves the position alone.          *)
Inside(c) == call[c].off + call[c].len <= BUFSIZ

End(c) ==
  /\ mod # "corrupt" /\ call[c].op \in {"read", "write"} /\ Inside(c)
  /\ \/ UNCHANGED f_pos
     \/ f_pos' = [f_pos EXCEPT ![call[c].file] = call[c].off + call[c].len]
  /\ call' = [call EXCEPT ![c] = Idle]
  /\ UNCHANGED <<mod, access, size, opened>>

(* What lies behind the buffer is access and size; the model stops there.   *)
EndOutside(c) ==
  /\ mod # "corrupt" /\ call[c].op \in {"read", "write"} /\ ~Inside(c)
  /\ mod' = "corrupt"
  /\ UNCHANGED <<access, size, opened, f_pos, call>>

(* MY_IOCTL_GET_BUFFER changes nothing, MY_IOCTL_SET_BUFFER overwrites the  *)
(* start of the buffer and sets the size to what it could copy, which is    *)
(* the whole or, when the caller's memory ends early, less.                 *)
Ioctl(c, f) ==
  /\ mod # "corrupt" /\ f \in opened /\ call[c].op = "none"
  /\ \/ call' = [call EXCEPT ![c] = Transfer("get", f, 0, size)]
     \/ call' = [call EXCEPT ![c] = Transfer("set", f, 0, BUFFER_SIZE)]
  /\ UNCHANGED <<mod, access, size, opened, f_pos>>

EndIoctl(c) ==
  /\ mod # "corrupt"
  /\ \/ call[c].op = "get" /\ UNCHANGED size
     \/ /\ call[c].op = "set"
        /\ \E remains \in 0 .. BUFFER_SIZE : size' = BUFFER_SIZE - remains
  /\ call' = [call EXCEPT ![c] = Idle]
  /\ UNCHANGED <<mod, access, opened, f_pos>>

Next ==
  \/ CdevAdd \/ InitAccess \/ InitSize \/ Cleanup
  \/ \E f \in Files : Open(f) \/ Release(f)
  \/ \E c \in Calls, f \in Files : Begin(c, f) \/ Ioctl(c, f)
  \/ \E c \in Calls : End(c) \/ EndOutside(c) \/ EndIoctl(c)

Spec == Init /\ [][Next]_vars

-------------------------------------------------------------------------------
(* Type invariant. *)
TypeOK ==
  /\ mod \in {"unloaded", "access", "size", "live", "corrupt"}
  /\ access \in 0 .. 1
  /\ size \in 0 .. BUFSIZ
  /\ opened \subseteq Files
  /\ f_pos \in [Files -> 0 .. BUFSIZ]
  /\ \A c \in Calls :
       \/ call[c] = Idle
       \/ call[c] \in [op : {"read", "write", "get", "set"}, file : Files,
                     off : 0 .. BUFSIZ, len : Nat]
  /\ DOMAIN call = Calls

(* One file has the device open, however opens and closes meet (my_cdev.c:  *)
(* 39, "to track if file is opened"; :64).                                  *)
Exclusive == \A f, g \in opened : f = g

(* A device nobody has open can be opened. *)
NeverStuck == opened = {} => access = 0

(* A call touches a part of the device's buffer only (my_cdev.c:117, "we    *)
(* cannot write more data to our kernelspace buffer (device buffer)").      *)
InsideBuffer == \A c \in Calls : call[c].op \in {"read", "write"} => Inside(c)

(* my_cdev.c is never entered after rmmod: cleanup runs when no file is     *)
(* open.                                                                    *)
Text == INSTANCE ModuleText
          WITH Holders <- Files,
               loaded  <- mod # "unloaded",
               holders <- opened

TextSpec == Text!Spec
===============================================================================
