---------------------------- MODULE Conversions ----------------------------
(***************************************************************************)
(* The unit conversions of cl_mem_reg.c.  The C constants are parameters,  *)
(* so that TLC may check the formulas on a small scale.  Budgets in MB/s,  *)
(* periods and beats are taken to be natural numbers: start script and     *)
(* hardware supply no others.                                              *)
(***************************************************************************)
EXTENDS Integers

CONSTANTS
    US_PER_SEC,      \* 1000000
    BYTES_PER_MB,    \* 1024 * 1024
    CACHE_LINE_SIZE, \* 64
    BEAT_SIZE,       \* 16
    INT_MODULUS      \* number of values of an int, 2^32

ASSUME ConversionAssumption ==
    /\ US_PER_SEC \in Nat \ {0}
    /\ BYTES_PER_MB \in Nat \ {0}
    /\ CACHE_LINE_SIZE \in Nat \ {0}
    /\ BEAT_SIZE \in Nat \ {0}
    /\ INT_MODULUS \in Nat \ {0}

(* A wider value stored into an int. *)
AsInt(n) ==
    LET r == n % INT_MODULUS
    IN  IF 2 * r < INT_MODULUS THEN r ELSE r - INT_MODULUS

FitsInt(n) == 0 <= n /\ 2 * n < INT_MODULUS

(* A quotient of two ints is truncated towards zero. *)
Quotient(a, b) == IF a >= 0 THEN a \div b ELSE -((-a) \div b)

(* Variant of ceiling: the quotient is rounded down. *)
rounded_down(a, b) == a \div b

(* The sum wraps for an aggregation period close to the largest int; the   *)
(* quotient is then 0 or -1.                                               *)
ceiling(a, b) == Quotient(AsInt(a + b - 1), b)

(* The number of regulation periods of T_R microseconds that are taken to  *)
(* make a second.                                                          *)
PeriodsPerSecond(T_R) == US_PER_SEC \div T_R

(* Variant: the period is first rounded up to one that makes more periods. *)
OnePeriodMore(mb, T_R) ==
    (mb * BYTES_PER_MB) \div (CACHE_LINE_SIZE * (PeriodsPerSecond(T_R) + 1))

(* MB/s to LLC misses per regulation period, as a u64. *)
convert_mb_to_events(mb, T_R) ==
    (mb * BYTES_PER_MB) \div (CACHE_LINE_SIZE * PeriodsPerSecond(T_R))

(* Variant: each direction is rounded by itself. *)
RoundedEach(rd_beats, wr_beats) ==
    AsInt(AsInt(rd_beats * BEAT_SIZE) \div CACHE_LINE_SIZE
          + AsInt(wr_beats * BEAT_SIZE) \div CACHE_LINE_SIZE)

(* A GPU sample in events, through two ints: the bytes and the quotient    *)
(* by the line size.  A negative number of bytes becomes a huge u64, whose *)
(* quotient is again a small negative int.                                 *)
SampleInEvents(rd_beats, wr_beats) ==
    AsInt(AsInt(rd_beats * BEAT_SIZE + wr_beats * BEAT_SIZE) \div CACHE_LINE_SIZE)

-----------------------------------------------------------------------------

(* The events granted in a regulation period, as bytes, against the share  *)
(* of mb MB/s that falls on T_R microseconds; both sides times a second.   *)
(* The division loses less than one cache line per period, which is all of *)
(* a share that is no larger.  The truncated number of periods per second, *)
(* q, gives at most one part in q away, and nothing when T_R divides a     *)
(* second.                                                                 *)
BudgetIsShare(mb, T_R) ==
    LET granted == convert_mb_to_events(mb, T_R) * CACHE_LINE_SIZE * US_PER_SEC
        share == mb * BYTES_PER_MB * T_R
        q == PeriodsPerSecond(T_R)
    IN  /\ share < granted + CACHE_LINE_SIZE * US_PER_SEC
        /\ granted * q <= share * (q + 1)
        /\ q * T_R = US_PER_SEC => granted <= share
=============================================================================
