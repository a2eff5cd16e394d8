------------------------------ MODULE TimeParts ------------------------------
(***************************************************************************)
(* TimeParts::from_nanos of src/main/core/logger/shadow_logger.rs, which  *)
(* splits the wall and simulated times of every log line into hours,      *)
(* minutes, seconds and nanoseconds.                                       *)
(*                                                                         *)
(* The unit and the widths are constants so that TLC can reach every      *)
(* branch: NanosPerSec stands for 1_000_000_000, SecsBits for the 64 bits  *)
(* of u64::try_from(total_nanos / 1e9) and MinsBits for the 32 bits of     *)
(* u32::try_from(whole_secs / 60).  A failed try_from is an unwrap panic.  *)
(* Inputs n are enumerated in order from 0 to MaxN.                        *)
(***************************************************************************)
EXTENDS Integers, Sequences

CONSTANTS
    NanosPerSec, \* 1_000_000_000, scaled
    SecsBits,    \* width of whole_secs (u64)
    MinsBits,    \* width of whole_mins (u32)
    MaxN         \* bound: largest total_nanos enumerated

ASSUME NanosPerSec \in Nat \ {0} /\ SecsBits \in Nat /\ MinsBits \in Nat /\ MaxN \in Nat

\* u<w>::try_from(x) succeeds.
Fits(x, w) == x < 2^w

\* Faulty variant of FromNanos: nanos_part subtracts whole_secs without
\* scaling it to nanoseconds.
FromNanosUnscaled(n) ==
    LET whole_secs == n \div NanosPerSec
        whole_mins == whole_secs \div 60
        whole_hours == whole_mins \div 60
    IN [panics |-> ~Fits(whole_secs, SecsBits) \/ ~Fits(whole_mins, MinsBits),
        hours |-> whole_hours,
        mins |-> whole_mins - whole_hours * 60,
        secs |-> whole_secs - whole_mins * 60,
        nanos |-> n - whole_secs]

\* TimeParts::from_nanos (lines 39-62).  All subtractions are of a multiple
\* no larger than the minuend, so none of them underflows.
FromNanos(n) ==
    LET whole_secs == n \div NanosPerSec
        whole_mins == whole_secs \div 60
        whole_hours == whole_mins \div 60
    IN [panics |-> ~Fits(whole_secs, SecsBits) \/ ~Fits(whole_mins, MinsBits),
        hours |-> whole_hours,
        mins |-> whole_mins - whole_hours * 60,
        secs |-> whole_secs - whole_mins * 60,
        nanos |-> n - whole_secs * NanosPerSec]

-----------------------------------------------------------------------------
(* Reference: the mixed-radix digits of n, least significant first. *)

RECURSIVE Digits(_, _)
Digits(n, radices) ==
    IF radices = <<>> THEN <<n>>
    ELSE <<n % Head(radices)>> \o Digits(n \div Head(radices), Tail(radices))

Reference(n) ==
    LET d == Digits(n, <<NanosPerSec, 60, 60>>)
    IN [hours |-> d[4], mins |-> d[3], secs |-> d[2], nanos |-> d[1]]

Recompose(p) == ((p.hours * 60 + p.mins) * 60 + p.secs) * NanosPerSec + p.nanos

-----------------------------------------------------------------------------
(* Enumeration of the inputs; it stops at MaxN. *)

VARIABLE n

Init == n = 0

Next == n < MaxN /\ n' = n + 1

Spec == Init /\ [][Next]_n

Parts(x) == [f \in {"hours", "mins", "secs", "nanos"} |-> FromNanos(x)[f]]

\* Time decomposition (spec section 8): whenever from_nanos returns, its
\* parts recompose to n, minutes and seconds are below 60 and nanoseconds
\* below one second -- they are exactly the mixed-radix digits of n.
DecompositionCorrect ==
    ~FromNanos(n).panics =>
        /\ Parts(n) = Reference(n)
        /\ Recompose(Parts(n)) = n

=============================================================================
