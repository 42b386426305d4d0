------------------------------- MODULE MCPrime -------------------------------
(* A 6-bit int: 6 * 6 overflows, as 46341 * 46341 does in 32 bits.  kmalloc  *)
(* gives at most 20 int, so that the module stays below, as 2^20 does.       *)
EXTENDS Prime

MCSizes == {-1, 0, 1, 3, 20, 31}
===============================================================================
