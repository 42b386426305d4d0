--------------------------- MODULE MCLockedThreads ---------------------------
(* simple_rwlock.c with one reader (thread1), one of the four readers that  *)
(* run thread1_fn as well, and the writer that runs thread2_fn: thread1_fn  *)
(* checks kthread1_struct, thread2_fn checks kthread2_struct.               *)
EXTENDS LockedThreads

RwLock == <<"read", "read", "write">>
RwChecks == <<1, 1, 2>>
===============================================================================
