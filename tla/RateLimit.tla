------------------------------ MODULE RateLimit ------------------------------
(***************************************************************************)
(* core/rate_limit.py: a sliding window over the times at which a client's *)
(* requests were admitted, oldest first.  check() reads the clock, takes a *)
(* lock and does the rest under it: one step, the time taken as the same.  *)
(***************************************************************************)
EXTENDS Integers, Sequences, FiniteSetsExt

CONSTANTS
  Limit,    \* requests admitted in any window
  Window    \* its length

ASSUME WindowAssumption == Limit \in Nat /\ Window \in Nat

\* What is left of the bucket: times before the window are taken off its front.
KeepsUntil(t, now) == t > now - Window
Keeps(t, now) == t >= now - Window

\* Where the first time is that stays, or where the next one would go.
Stays(bucket, now) ==
  {i \in 1..(Len(bucket) + 1) : i <= Len(bucket) => Keeps(bucket[i], now)}
Front(bucket, now) == Min(Stays(bucket, now))

Pruned(bucket, now) == SubSeq(bucket, Front(bucket, now), Len(bucket))

Admits(bucket, now) == Len(Pruned(bucket, now)) < Limit

=============================================================================
