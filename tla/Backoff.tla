------------------------------ MODULE Backoff ------------------------------
(***************************************************************************)
(* ReconnectBackoff (expose-client/src/tunnel.rs): how long the client     *)
(* waits before it tries again, and when it gives up.                      *)
(***************************************************************************)
EXTENDS Integers

CONSTANTS
    BaseDelay,     \* reconnect_base_delay_ms
    MaxAttempts,   \* reconnect_max_attempts, 0 = no limit
    AttemptMax     \* where the attempt counter saturates (u32::MAX)

ASSUME BackoffConstants ==
    BaseDelay \in Nat /\ AttemptMax \in Nat \ {0} /\ MaxAttempts \in 0 .. AttemptMax

MinDelay == 100
CapDelay == 32000
Lesser(a, b) == IF a < b THEN a ELSE b
Multiplier == <<1, 2, 4, 8, 16, 32>>    \* 1 << exponent

\* Mutant: the attempt is counted before the exponent is taken from it.
DelayAfter_Counted(n) ==
    LET base == IF BaseDelay < MinDelay THEN MinDelay ELSE BaseDelay
    IN  Lesser(base * Multiplier[Lesser(n + 1, 5) + 1], CapDelay)

\* The delay that next_delay returns when n attempts have been counted.  The
\* product of a u64 of milliseconds and 32 fits a Duration: checked_mul succeeds.
DelayAfter(n) ==
    LET base == IF BaseDelay < MinDelay THEN MinDelay ELSE BaseDelay
    IN  Lesser(base * Multiplier[Lesser(n, 5) + 1], CapDelay)

Exhausted(n)  == MaxAttempts # 0 /\ n >= MaxAttempts
Saturating(n) == IF n < AttemptMax THEN n + 1 ELSE n
=============================================================================
