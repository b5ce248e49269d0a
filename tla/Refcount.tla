------------------------------ MODULE Refcount ------------------------------
(***************************************************************************)
(* The counters of the kernel API the module is written against            *)
(* (<linux/refcount.h>, <linux/atomic.h>): external code, modelled from    *)
(* how src/lib/tbde uses it.  A counter is a 32-bit signed integer; an     *)
(* operator maps the old value to the new one, and the two that also       *)
(* return a Boolean have a companion operator for it.                      *)
(*                                                                         *)
(* RefcountKind tells apart the two families of kernels the module builds  *)
(* on.  "counts": the increment of a zero counter is an ordinary increment *)
(* (x86 before 5.5).  "saturates": it is reported as a use after free and  *)
(* the counter is pinned at REFCOUNT_SATURATED for ever (5.5 and later).   *)
(***************************************************************************)
EXTENDS Integers

CONSTANT RefcountKind

ASSUME RefcountKindAssumption == RefcountKind \in {"counts", "saturates"}

INT_MAX == 2147483647
INT_MIN == -INT_MAX - 1
REFCOUNT_SATURATED == -1073741824

atomic_inc(v) == IF v = INT_MAX THEN INT_MIN ELSE v + 1
atomic_dec(v) == IF v = INT_MIN THEN INT_MAX ELSE v - 1

refcount_inc(v) ==
  IF v < 0 \/ v = INT_MAX \/ (v = 0 /\ RefcountKind = "saturates")
  THEN REFCOUNT_SATURATED
  ELSE v + 1

\* Decrements unless the counter is 1, and returns whether it was not 1.  A
\* saturated counter stays put, and so does a counter that would underflow.
refcount_dec_not_one(v) == v # 1
AfterDecNotOne(v) == IF v \in {REFCOUNT_SATURATED, 0, 1} THEN v ELSE atomic_dec(v)

\* Decrements and returns whether the counter reached zero.
refcount_dec_and_test(v) == v = 1
AfterDecAndTest(v) == IF v <= 0 THEN REFCOUNT_SATURATED ELSE v - 1

=============================================================================
